------------------------------ MODULE LiveTrading ------------------------------
(***************************************************************************)
(* The live loop of one worker: run_websocket_live and process_live_board  *)
(* (live_runtime.py) drive CombinedMakerTakerStrategy (combined.py) and    *)
(* KabuRestExecutor (execution/executor.py) against the broker, which      *)
(* executes, cancels and delays orders between any two REST calls.         *)
(*                                                                         *)
(* Entries buy; the short side is symmetric.  Signals, risk gates and the  *)
(* clock are choices.  Fill details agree with the cumulative quantity, so *)
(* one order event stands for the fills and the event of a poll (see       *)
(* FillFeed).  Quantities are in lots.                                     *)
(***************************************************************************)
EXTENDS OrderState, Lollipop, FiniteSets, FiniteSetsExt

CONSTANTS
  MaxOrders,   \* bound: orders known at a time
  MaxQty,      \* bound: lots of one entry (trade_qty, max_inventory_qty)
  MaxStray,    \* bound: lots of the open orders a start leaves alone
  StartSeesOrders  \* startup_open_order_policy is "reject", and the broker lists this
                   \* worker's orders under the exchange of its config

\* Two entries and three exits fit.
ASSUME BoundsAssumption ==
  /\ MaxOrders \in Nat /\ MaxOrders >= 5
  /\ MaxQty \in Nat /\ MaxStray \in Nat
  /\ StartSeesOrders \in BOOLEAN

\* The slot of an order is also its broker order id.  As client order ids are,
\* slots are numbered per role.
Slots == 1 .. MaxOrders

EntrySlots == 1 .. 2
ExitSlots == Slots \ EntrySlots

ASSUME SlotsAssumption == BrokerIds = Slots /\ NoBroker = 0

VARIABLES
  \* the broker
  atBroker,   \* state of each order at the broker
  exec,       \* lots executed of each order
  held,       \* the position in the account
  stray,      \* lots of open orders no ledger holds: a start left them alone
  \* the strategy
  orders,     \* the ledger
  role,       \* "entry" or "exit"; "none" for a free slot
  position,   \* position.qty, negative when short
  lollipop,   \* the exit workflow
  \* the runtime
  pc,         \* where run_websocket_live is
  then,       \* where a poll returns to
  todo,       \* orders the poll has still to read
  cancels,    \* orders the cancel loop has still to visit
  plan,       \* what on_board asked for
  rounds,     \* scans left in emergency_flatten
  tried,      \* broker orders emergency_flatten has tried to cancel
  report,     \* the outcome of the run: cleanup_status
  unnamed,    \* local_unknown_order_ids is not empty
  guarded,    \* the cleanup runs, or has broken off, inside the try of the loop
  \* history
  uncovered,  \* an entry fill came that the exit order in the works leaves out
  drift       \* lots the stray orders bought, less those they sold, since the start

broker == <<atBroker, exec, held, stray, drift>>
strategy == <<orders, role, position, lollipop, uncovered>>
cleanup == <<rounds, tried, report, unnamed, guarded>>
control == <<pc, then, todo, cancels, plan>>
runtime == <<control, cleanup>>
vars == <<broker, strategy, runtime>>

BrokerStates == {"none", "limbo", "live", "filled", "canceled", "rejected"}

\* The loop outside emergency_flatten, by the statement it is about to run.
TradingPcs ==
  {"board", "poll", "decide", "exitCancel", "release", "deferred", "entryCancel",
   "entry", "exit"}

FlattenPcs ==
  {"cancelAll", "scan", "scanCancel", "verify", "readPosition", "flatten",
   "lastPosition"}

\* A halt reason is returned inside the try of the loop; an exception was caught, or
\* a snapshot restored an exposure; an exception has broken off a guarded cleanup.
HandlerPcs == {"fault", "caught", "again"}

Reports ==
  {"none", "not_required", "completed", "unresolved", "failed", "unchecked", "crashed"}

Absent == NewOrder(1, TRUE)

NoPlan == [exitCancel |-> FALSE, entryCancel |-> FALSE, entry |-> 0, exit |-> 0]

TypeOK ==
  /\ atBroker \in [Slots -> BrokerStates]
  /\ exec \in [Slots -> Nat]
  /\ held \in Nat
  /\ stray \in [buy : Nat, sell : Nat]
  /\ drift \in Int
  /\ orders \in [Slots -> Order]
  /\ role \in [Slots -> {"entry", "exit", "none"}]
  /\ position \in Int
  /\ lollipop \in Workflow
  /\ pc \in TradingPcs \cup FlattenPcs \cup HandlerPcs \cup {"halted"}
  /\ then \in TradingPcs \cup FlattenPcs
  /\ todo \subseteq Slots
  /\ cancels \subseteq Slots
  /\ plan \in [exitCancel : BOOLEAN, entryCancel : BOOLEAN,
               entry : Slots \cup {0}, exit : Slots \cup {0}]
  /\ rounds \in 0 .. 3
  /\ tried \subseteq Slots
  /\ report \in Reports
  /\ unnamed \in BOOLEAN
  /\ guarded \in BOOLEAN
  /\ uncovered \in BOOLEAN

Init ==
  /\ atBroker = [o \in Slots |-> "none"]
  /\ exec = [o \in Slots |-> 0]
  /\ held = 0
  /\ stray = [buy |-> 0, sell |-> 0]
  /\ drift = 0
  /\ orders = [o \in Slots |-> Absent]
  /\ role = [o \in Slots |-> "none"]
  /\ position = 0
  /\ lollipop = Idle
  /\ pc = "board"
  /\ then = "board"
  /\ todo = {}
  /\ cancels = {}
  /\ plan = NoPlan
  /\ rounds = 0
  /\ tried = {}
  /\ report = "none"
  /\ unnamed = FALSE
  /\ guarded = FALSE
  /\ uncovered = FALSE

Used == {o \in Slots : role[o] # "none"}

Active == {o \in Used : ~IsFinal(orders[o])}

ActiveOf(r) == {o \in Active : role[o] = r}

\* _has_live_exposure.
Exposed == position # 0 \/ Active # {}

Live == {o \in Slots : atBroker[o] = "live"}

\* open_order_snapshots lists an order of the symbol, whoever sent it.
OpenOrders == Live # {} \/ stray.buy > 0 \/ stray.sell > 0

\* The next order of a role takes the first free slot.
NextSlot(r) ==
  LET free == (IF r = "entry" THEN EntrySlots ELSE ExitSlots) \ Used
  IN  CHOOSE o \in free : \A p \in free : o <= p

-------------------------------------------------------------------------------
(***************************************************************************)
(* The broker (kabu station), as the executor's calls observe it.          *)
(***************************************************************************)

Leaves(o) == orders[o].qty - exec[o]

\* Lots of role r at work at the broker.
LotsAtWork(r) ==
  SumFunctionOnSet([o \in Slots |-> Leaves(o)], {o \in Live : role[o] = r})

\* Lots an exit order may still close: PositionLot.closable_qty.
Closable == held - stray.sell - LotsAtWork("exit")

\* One lot at a time: several executions may come between two polls.
Execute(o) ==
  /\ atBroker[o] = "live"
  /\ role[o] = "exit" => held > 0
  /\ exec' = [exec EXCEPT ![o] = @ + 1]
  /\ held' = IF role[o] = "entry" THEN held + 1 ELSE held - 1
  /\ atBroker' = [atBroker EXCEPT ![o] = IF Leaves(o) = 1 THEN "filled" ELSE "live"]
  /\ UNCHANGED <<stray, drift, strategy, runtime>>

\* A cancel takes effect, an IOC order expires, or the exchange ends the order.
BrokerCancels(o) ==
  /\ atBroker[o] = "live"
  /\ atBroker' = [atBroker EXCEPT ![o] = "canceled"]
  /\ UNCHANGED <<exec, held, stray, drift, strategy, runtime>>

BrokerRejects(o) ==
  /\ atBroker[o] = "live"
  /\ exec[o] = 0
  /\ atBroker' = [atBroker EXCEPT ![o] = "rejected"]
  /\ UNCHANGED <<exec, held, stray, drift, strategy, runtime>>

\* An order whose request timed out arrives after all, or never.
LimboEnds(o) ==
  /\ atBroker[o] = "limbo"
  /\ \E s \in {"live", "rejected"} : atBroker' = [atBroker EXCEPT ![o] = s]
  /\ role[o] = "exit" /\ atBroker'[o] = "live" => orders[o].qty <= Closable
  /\ UNCHANGED <<exec, held, stray, drift, strategy, runtime>>

\* An open order no ledger holds executes a lot: nobody polls for it.
StrayExecutes ==
  /\ \/ /\ stray.buy > 0
        /\ stray' = [stray EXCEPT !.buy = @ - 1]
        /\ held' = held + 1
        /\ drift' = drift + 1
     \/ /\ stray.sell > 0 /\ held > 0
        /\ stray' = [stray EXCEPT !.sell = @ - 1]
        /\ held' = held - 1
        /\ drift' = drift - 1
  /\ UNCHANGED <<atBroker, exec, strategy, runtime>>

\* It expires, or a cancel of the operator or of emergency_flatten takes effect.
StrayEnds ==
  /\ \E side \in {"buy", "sell"} :
       stray[side] > 0 /\ stray' = [stray EXCEPT ![side] = @ - 1]
  /\ UNCHANGED <<atBroker, exec, held, drift, strategy, runtime>>

\* order_snapshot: the status a poll reads.
SnapshotStatus(o) ==
  CASE atBroker[o] = "live" -> IF exec[o] > 0 THEN "partially_filled" ELSE "working"
    [] OTHER -> atBroker[o]

-------------------------------------------------------------------------------
(***************************************************************************)
(* The strategy's handling of broker events.                               *)
(***************************************************************************)

\* An event of the executor about order o; its status, its cumulative quantity
\* and whether it carries the broker's id.
Event(o, status, cum, named) ==
  [status |-> status, cum |-> cum, priced |-> TRUE, broker |-> IF named THEN o ELSE NoBroker]

\* _apply_position_fill: buys of n (entry) or sells (exit) on a position p.
PositionAfter(p, r, n) ==
  CASE r = "entry" -> IF p < 0 /\ p + n > 0 THEN 0 ELSE p + n
    [] r = "exit"  -> IF p > 0 /\ p - n < 0 THEN 0 ELSE p - n
    [] OTHER -> p

\* What the fill does to the exit workflow.
WorkflowAfterFill(w, p, r, n) ==
  LET adds == (r = "entry" /\ p > 0) \/ (r = "exit" /\ p < 0)
  IN  IF n = 0 THEN w
      ELSE IF p = 0 THEN OnEntryFill(w)
      ELSE IF adds THEN OnScaleInFill(w)
      ELSE IF PositionAfter(p, r, n) = 0 THEN OnExitFill(w)
      ELSE w

\* Mutant: a rejected exit changes nothing.
WorkflowAfterCancel(w, p, r, o) ==
  IF r = "exit" /\ p # 0 /\ o.status = "canceled"
  THEN IF w.phase = "TIMEOUT" THEN ResetForceExit(w) ELSE Reschedule(w)
  ELSE w

\* _handle_final_order_state for an order of role r in the state o.
WorkflowAfterFinal(w, p, r, o) ==
  IF ~IsFinal(o) \/ r # "exit" \/ p = 0 THEN w
  ELSE IF o.status = "canceled"
       THEN IF w.phase = "TIMEOUT" THEN ResetForceExit(w) ELSE Reschedule(w)
  ELSE IF o.status = "rejected"
       THEN IF w.phase = "TIMEOUT" THEN ResetForceExit(w) ELSE ForceExitNextTick(w)
  ELSE w

\* on_broker_order_event.
OnOrderEvent(o, e) ==
  LET s == AfterOrderEvent(orders[o], e)
      n == OrderEventFill(orders[o], e)
      p == PositionAfter(position, role[o], n)
  IN  /\ orders' = [orders EXCEPT ![o] = s]
      /\ position' = p
      /\ lollipop' = WorkflowAfterFinal(WorkflowAfterFill(lollipop, position, role[o], n),
                                        p, role[o], s)
      /\ uncovered' = /\ p # 0
                      /\ \/ uncovered
                         \/ /\ n > 0 /\ role[o] = "entry"
                            /\ lollipop.phase \in {"ACTIVE", "TIMEOUT"} \/ plan.exitCancel
      /\ UNCHANGED role

\* An intent becomes the order in slot o.
Track(o, r, qty) ==
  /\ orders' = [orders EXCEPT ![o] = NewOrder(qty, TRUE)]
  /\ role' = [role EXCEPT ![o] = r]

-------------------------------------------------------------------------------
(***************************************************************************)
(* Control flow of the loop.                                               *)
(***************************************************************************)

\* The stages of process_live_board that follow, for the plan p of on_board.
AfterEntry(p) == IF p.exit # 0 THEN "exit" ELSE "board"
AfterEntryCancel(p) == IF p.entry # 0 THEN "entry" ELSE AfterEntry(p)
AfterExitCancel(p) == IF p.entryCancel THEN "entryCancel" ELSE AfterEntryCancel(p)

\* Go on at `label' with `ids' still to cancel; the entry cancel loop lists the
\* working entries when it starts and is skipped when there are none.
Enter(label, ids, p) ==
  LET rest == IF label = "entryCancel" /\ ids = {} THEN ActiveOf("entry")' ELSE ids
      at   == IF label = "entryCancel" /\ rest = {} THEN AfterEntryCancel(p) ELSE label
  IN  /\ pc' = at
      /\ cancels' = rest
      /\ plan' = IF at = "board" THEN NoPlan ELSE p
      /\ todo' = {}
      /\ then' = "board"

\* poll_live: read every active order, then go on at `label'.
StartPoll(label, ids, p) ==
  IF Active' = {}
  THEN Enter(label, ids, p)
  ELSE /\ pc' = "poll"
       /\ then' = label
       /\ todo' = Active'
       /\ cancels' = ids
       /\ plan' = p

Leave(label) ==
  /\ pc' = label
  /\ todo' = {}
  /\ cancels' = {}
  /\ then' = "board"
  /\ plan' = NoPlan

\* A halt reason is returned to run_websocket_live.
Halt == Leave("fault") /\ UNCHANGED cleanup

\* An exception reaches run_websocket_live: the transport's, an unreadable message, a
\* raw timeout of a REST call.
Raise == Leave("caught") /\ UNCHANGED cleanup

\* A poll asks for every active order and a raw timeout may end it: what it had read
\* by then is lost.
PollOrRaise(label, ids, p) ==
  \/ StartPoll(label, ids, p) /\ UNCHANGED cleanup
  \/ Active' # {} /\ Raise

\* The process ends, with its memory, and reports how its cleanup went.  What the
\* broker knows of its orders, role and quantity, stays.
Stop(r) ==
  /\ Leave("halted")
  /\ report' = r
  /\ rounds' = 0 /\ tried' = {}
  /\ position' = 0 /\ lollipop' = Idle /\ uncovered' = FALSE
  /\ orders' = [o \in Slots |-> NewOrder(orders[o].qty, TRUE)]
  /\ UNCHANGED <<role, unnamed, guarded>>

Flattening == pc \in FlattenPcs \/ (pc = "poll" /\ then \in FlattenPcs)

-------------------------------------------------------------------------------
(***************************************************************************)
(* REST calls.  An outcome the executor cannot interpret, KabuApiError or  *)
(* a raw timeout, leaves open whether the broker has acted.                *)
(***************************************************************************)

\* sendorder returned an order id.
SubmitAccepted(o) ==
  /\ role[o] = "exit" => orders[o].qty <= Closable
  /\ atBroker' = [atBroker EXCEPT ![o] = "live"]
  /\ UNCHANGED <<exec, held, stray, drift>>
  /\ OnOrderEvent(o, Event(o, "working", NoCum, TRUE))

\* What became of a request nobody saw answered.
SubmitLost(o) ==
  /\ \E s \in {"none", "limbo", "live"} :
       /\ s = "live" /\ role[o] = "exit" => orders[o].qty <= Closable
       /\ atBroker' = [atBroker EXCEPT ![o] = s]
  /\ UNCHANGED <<exec, held, stray, drift>>

\* Mutant: a request without an answer counts as rejected.
SubmitWrittenOff(o) ==
  /\ SubmitLost(o)
  /\ OnOrderEvent(o, Event(o, "rejected", NoCum, FALSE))

\* sendorder failed, timed out or named no order, or too few lots are closable.
SubmitUnknown(o) ==
  /\ SubmitLost(o)
  /\ OnOrderEvent(o, Event(o, "unknown", NoCum, FALSE))

\* The intent has no valid price (ValueError): nothing is sent.
SubmitRefused(o) ==
  /\ UNCHANGED broker
  /\ OnOrderEvent(o, Event(o, "rejected", NoCum, FALSE))

\* request_cancel and a cancelorder the broker accepts; a finished order has none.
CancelAccepted(o) ==
  /\ atBroker[o] = "live"
  /\ UNCHANGED broker
  /\ OnOrderEvent(o, Event(o, "cancel_pending", NoCum, TRUE))

\* request_cancel, and a cancelorder that a raw timeout ends.
CancelTimesOut(o) ==
  /\ orders' = [orders EXCEPT ![o] = MarkCancelPending(@)]
  /\ UNCHANGED <<broker, role, position, lollipop, uncovered>>

\* A cancelorder that fails, may have been too late, or may still be acted on.
CancelUnknown(o) ==
  /\ UNCHANGED broker
  /\ OnOrderEvent(o, Event(o, "unknown", NoCum, TRUE))

-------------------------------------------------------------------------------
(***************************************************************************)
(* run_websocket_live: boards, disconnects and the polls.                  *)
(***************************************************************************)

\* Orders that ended on both sides free their slots: nothing refers to them again.
Finished == {o \in Used : IsFinal(orders[o]) /\ atBroker[o] \notin {"live", "limbo"}}

Forget ==
  /\ orders' = [o \in Slots |-> IF o \in Finished THEN Absent ELSE orders[o]]
  /\ role' = [o \in Slots |-> IF o \in Finished THEN "none" ELSE role[o]]
  /\ atBroker' = [o \in Slots |-> IF o \in Finished THEN "none" ELSE atBroker[o]]
  /\ exec' = [o \in Slots |-> IF o \in Finished THEN 0 ELSE exec[o]]
  /\ UNCHANGED <<held, stray, drift, position, lollipop, uncovered>>

\* A board arrives and process_live_board polls.
ReceiveBoard ==
  /\ pc = "board"
  /\ Forget
  /\ PollOrRaise("decide", {}, NoPlan)

\* on_board returns early for another symbol, a duplicate or an old board.
IgnoreBoard ==
  /\ pc = "decide"
  /\ Enter("board", {}, NoPlan)
  /\ UNCHANGED <<broker, strategy, cleanup>>

\* A stale board or the hard kill file halts; a lost connection or an unreadable
\* message is an exception.
Fault ==
  /\ pc = "board"
  /\ Halt \/ Raise
  /\ UNCHANGED <<broker, strategy>>

\* reconcile_strategy_from_broker: a new ledger and the position of the account.  The
\* start is refused where executor.snapshot finds the open orders; else they work on
\* without a ledger.  Bound: no order is still under way to the broker.
TakeOver ==
  /\ StartSeesOrders => ~OpenOrders
  /\ \A o \in Slots : atBroker[o] # "limbo"
  /\ stray' = [buy |-> stray.buy + LotsAtWork("entry"),
               sell |-> stray.sell + LotsAtWork("exit")]
  /\ stray'.buy + stray'.sell <= MaxStray
  /\ drift' = 0
  /\ atBroker' = [o \in Slots |-> "none"]
  /\ exec' = [o \in Slots |-> 0]
  /\ orders' = [o \in Slots |-> Absent]
  /\ role' = [o \in Slots |-> "none"]
  /\ position' = held
  /\ lollipop' = IF held > 0 THEN OnEntryFill(Idle) ELSE Idle
  /\ uncovered' = FALSE
  /\ UNCHANGED held

\* The loop is about to leave the exception handler without exposure.
Unexposed ==
  /\ pc \in {"caught", "again"}
  /\ ~Exposed

\* _reconcile_before_reconnect: a position the snapshot restores is cleaned up.
Reconnect ==
  /\ Unexposed
  /\ TakeOver
  /\ Leave(IF held > 0 THEN "caught" ELSE "board")
  /\ guarded' = FALSE
  /\ UNCHANGED <<rounds, tried, report, unnamed>>

\* A refused snapshot, or an unreadable message, ends the run without a cleanup;
\* spent attempts end it without a word about one.
GiveUp ==
  /\ Unexposed
  /\ \E r \in {"not_required", "unchecked"} : Stop(r)
  /\ UNCHANGED broker

\* What the poll does after its last order: a circuit breaker may have opened.
AfterPolling(o) ==
  IF todo # {o}
  THEN todo' = todo \ {o} /\ UNCHANGED <<pc, then, cancels, plan, cleanup>>
  ELSE \/ Enter(then, cancels, plan) /\ UNCHANGED cleanup
       \/ ~Flattening /\ Halt

PollReads(o) ==
  /\ pc = "poll"
  /\ o \in todo
  /\ orders[o].broker # NoBroker
  /\ OnOrderEvent(o, Event(o, SnapshotStatus(o), exec[o], TRUE))
  /\ AfterPolling(o)
  /\ UNCHANGED broker

\* The broker does not answer, or does not list the order (yet).
PollFails(o) ==
  /\ pc = "poll"
  /\ o \in todo
  /\ orders[o].broker # NoBroker
  /\ \/ OnOrderEvent(o, Event(o, "unknown", NoCum, TRUE))
     \/ UNCHANGED strategy
  /\ AfterPolling(o)
  /\ UNCHANGED broker

\* An order without a broker id ends the poll: missing_broker_order_id.
PollMissesId(o) ==
  /\ pc = "poll"
  /\ o \in todo
  /\ orders[o].broker = NoBroker
  /\ OnOrderEvent(o, Event(o, "unknown", NoCum, FALSE))
  /\ IF Flattening THEN Enter(then, cancels, plan) /\ UNCHANGED cleanup ELSE Halt
  /\ UNCHANGED broker

-------------------------------------------------------------------------------
(***************************************************************************)
(* on_board and the stages of process_live_board that follow it.           *)
(***************************************************************************)

\* Mutant: a working entry does not stop the next one.
MayPile(w) == ~(position > 0 /\ w.phase # "IDLE")

\* on_board goes on to the entry signals: no entry works and, with the workflow at
\* w, no exit is owed.
MayEnter(w) == ActiveOf("entry") = {} /\ ~(position > 0 /\ w.phase # "IDLE")

\* on_board: a flow flip may force the exit, the workflow ticks, a working entry
\* may be canceled, and without duties a new entry of `qty' lots may start.
Decide(flip, due, expired, cancelEntry, qty) ==
  LET w    == IF flip THEN ForceExitNextTick(lollipop) ELSE lollipop
      tick == Tick(w, position, due, expired)
      replaces == tick.action = "force" /\ ActiveOf("exit") # {}
      exits    == tick.action # "none" /\ ~replaces
      enters   == qty > 0
      p == [exitCancel |-> replaces, entryCancel |-> cancelEntry,
            entry |-> IF enters THEN NextSlot("entry") ELSE 0,
            exit |-> IF exits THEN NextSlot("exit") ELSE 0]
  IN  /\ pc = "decide"
      /\ flip => position > 0 /\ lollipop.phase # "TIMEOUT"
      /\ due => w.phase = "SCHEDULED"
      /\ expired => w.phase = "ACTIVE"
      /\ cancelEntry => ActiveOf("entry") # {}
      /\ enters => MayEnter(tick.workflow)
      /\ lollipop' = tick.workflow
      /\ IF exits THEN Track(NextSlot("exit"), "exit", position)
         ELSE IF enters THEN Track(NextSlot("entry"), "entry", qty)
         ELSE UNCHANGED <<orders, role>>
      /\ uncovered' = (uncovered /\ ~exits)
      /\ UNCHANGED <<position, broker, cleanup>>
      /\ IF replaces THEN Enter("exitCancel", ActiveOf("exit"), p)
         ELSE Enter(AfterExitCancel(p), {}, p)

\* The cancel loops: the exit loop polls once at its end, the entry loop after
\* each order; a cancel that fails, or opens a circuit, halts.
CancelWorking(o) ==
  /\ pc \in {"exitCancel", "entryCancel"}
  /\ o \in cancels
  /\ \/ /\ CancelAccepted(o)
        /\ IF cancels # {o} /\ pc = "exitCancel"
           THEN Enter("exitCancel", cancels \ {o}, plan) /\ UNCHANGED cleanup
           ELSE PollOrRaise(IF pc = "exitCancel" THEN "release"
                            ELSE IF cancels = {o} THEN AfterEntryCancel(plan)
                            ELSE "entryCancel",
                            cancels \ {o}, plan)
     \/ (CancelAccepted(o) \/ CancelUnknown(o)) /\ Halt
     \/ CancelTimesOut(o) /\ Raise

\* release_deferred_force_exit, once no exit order works any more.
Release(due, expired) ==
  LET tick == Tick(lollipop, position, due, expired)
      goes == position # 0 /\ ActiveOf("exit") = {}
  IN  /\ pc = "release"
      /\ due => lollipop.phase = "SCHEDULED" /\ goes
      /\ expired => lollipop.phase = "ACTIVE" /\ goes
      /\ lollipop' = IF goes THEN tick.workflow ELSE lollipop
      /\ IF goes /\ tick.action = "force"
         THEN /\ Track(NextSlot("exit"), "exit", position)
              /\ uncovered' = FALSE
              /\ Enter("deferred", {}, [plan EXCEPT !.exit = NextSlot("exit")])
         ELSE /\ UNCHANGED <<orders, role, uncovered>>
              /\ Enter(AfterExitCancel(plan), {}, plan)
      /\ UNCHANGED <<position, broker, cleanup>>

\* submit_to_live: only an order the broker accepted, without opening a circuit, lets
\* the loop go on; a raw timeout leaves the order as it was tracked.
Submit(o, label, p) ==
  \/ SubmitAccepted(o) /\ PollOrRaise(label, {}, p)
  \/ (SubmitAccepted(o) \/ SubmitUnknown(o) \/ SubmitRefused(o)) /\ Halt
  \/ SubmitLost(o) /\ UNCHANGED strategy /\ Raise

SubmitEntry == pc = "entry" /\ Submit(plan.entry, AfterEntry(plan), plan)

SubmitExit == pc = "exit" /\ Submit(plan.exit, "board", plan)

SubmitDeferred ==
  LET p == [plan EXCEPT !.exit = 0]
  IN  pc = "deferred" /\ Submit(plan.exit, AfterExitCancel(p), p)

-------------------------------------------------------------------------------
(***************************************************************************)
(* _fault_cleanup and emergency_flatten.                                   *)
(***************************************************************************)

\* _fault_cleanup.  Only that of a halt reason is guarded; the handler of an exception
\* starts it again for what a guarded one has left.
Cleanup ==
  /\ pc = "fault" \/ (pc \in {"caught", "again"} /\ Exposed)
  /\ IF Exposed
     THEN /\ Forget
          /\ pc' = "cancelAll"
          /\ cancels' = Active
          /\ tried' = {o \in Active : orders[o].broker # NoBroker}
          /\ rounds' = 3
          /\ unnamed' = FALSE
          /\ guarded' = (pc = "fault")
          /\ UNCHANGED <<then, todo, plan, report>>
     ELSE Stop("not_required") /\ UNCHANGED broker

\* A raw timeout leaves a guarded cleanup, whose records are lost.  Outside the try it
\* ends the process: see Crash.
BreakOff ==
  /\ guarded
  /\ Leave("again")
  /\ rounds' = 0 /\ tried' = {} /\ unnamed' = FALSE
  /\ UNCHANGED <<report, guarded>>

\* poll_live in a cleanup.
PollOrBreakOff(label, p) ==
  \/ StartPoll(label, {}, p) /\ UNCHANGED cleanup
  \/ Active' # {} /\ BreakOff

\* Every cancel is tried once; what fails is only noted.
CancelAll(o) ==
  /\ pc = "cancelAll"
  /\ o \in cancels
  /\ \/ /\ \/ /\ orders[o].broker = NoBroker
              /\ CancelTimesOut(o)
              /\ unnamed' = TRUE
           \/ /\ orders[o].broker # NoBroker
              /\ CancelAccepted(o) \/ CancelUnknown(o)
              /\ UNCHANGED unnamed
        /\ cancels' = cancels \ {o}
        /\ UNCHANGED <<pc, then, todo, plan, rounds, tried, report, guarded>>
     \/ /\ orders[o].broker # NoBroker
        /\ CancelTimesOut(o)
        /\ BreakOff

\* Mutant: the scans go on until no order is open.
RoundsForever == rounds

RoundsLeft == rounds - 1

\* The scan loop is over: nothing reads its variables again.
EndScans(label) ==
  /\ Leave(label)
  /\ rounds' = 0 /\ tried' = {}
  /\ UNCHANGED <<report, unnamed, guarded>>

\* One of up to three rounds over the broker's open orders: those not tried yet
\* are canceled, then the strategy polls.
Scan ==
  /\ rounds > 0
  /\ pc = "scan" \/ (pc = "cancelAll" /\ cancels = {})
  /\ UNCHANGED <<broker, strategy>>
  /\ IF ~OpenOrders
     THEN EndScans("verify")
     ELSE /\ pc' = "scanCancel"
          /\ cancels' = Live \ tried
          /\ tried' = tried \cup Live
          /\ rounds' = RoundsLeft
          /\ UNCHANGED <<then, todo, plan, report, unnamed, guarded>>

\* The last look at the open orders.
Verify ==
  /\ pc = "verify" \/ (pc = "scan" /\ rounds = 0)
  /\ IF ~OpenOrders
     THEN EndScans("readPosition") /\ UNCHANGED strategy
     ELSE Stop("unresolved")
  /\ UNCHANGED broker

\* The event of such a cancel names an order the ledger does not know.
ScanCancel(o) ==
  /\ pc = "scanCancel"
  /\ o \in cancels
  /\ cancels' = cancels \ {o}
  /\ UNCHANGED <<broker, strategy, pc, then, todo, plan, cleanup>>

ScanPolls ==
  /\ pc = "scanCancel"
  /\ cancels = {}
  /\ UNCHANGED <<broker, strategy>>
  /\ PollOrBreakOff("scan", NoPlan)

\* position_snapshot: flat is done, else one order for the whole position.
ReadPosition ==
  /\ pc = "readPosition"
  /\ UNCHANGED broker
  /\ IF held = 0
     THEN Stop("completed")
     ELSE /\ Track(NextSlot("exit"), "exit", held)
          /\ UNCHANGED <<position, lollipop, uncovered, cleanup>>
          /\ Enter("flatten", {}, [NoPlan EXCEPT !.exit = NextSlot("exit")])

Flatten ==
  /\ pc = "flatten"
  /\ \/ /\ \/ SubmitAccepted(plan.exit)
           \/ SubmitUnknown(plan.exit)
           \/ SubmitRefused(plan.exit)
        /\ PollOrBreakOff("lastPosition", NoPlan)
     \/ /\ SubmitLost(plan.exit)
        /\ UNCHANGED strategy
        /\ BreakOff

\* Mutant: a flatten order sent is a flat account.
LastPositionTrusting ==
  /\ pc = "lastPosition"
  /\ Stop("completed")
  /\ UNCHANGED broker

LastPosition ==
  /\ pc = "lastPosition"
  /\ Stop(IF held > 0 THEN "unresolved" ELSE "completed")
  /\ UNCHANGED broker

\* A snapshot that fails ends the cleanup; a raw timeout, of a scan's cancel too, breaks
\* it off.
CleanupFails ==
  /\ \/ pc \in {"scan", "scanCancel", "verify", "readPosition", "lastPosition"}
     \/ pc = "cancelAll" /\ cancels = {}
  /\ UNCHANGED broker
  /\ \/ pc # "scanCancel" /\ Stop("failed")
     \/ UNCHANGED strategy /\ BreakOff

\* The process is killed (launcher, operator), at any point, or a raw timeout ends it:
\* of a cleanup outside the try, of the reconnect's snapshot, of the unregister call.
Crash ==
  /\ pc # "halted"
  /\ Stop("crashed")
  /\ \/ UNCHANGED broker
     \/ pc = "entry" /\ SubmitLost(plan.entry)
     \/ pc \in {"exit", "deferred", "flatten"} /\ SubmitLost(plan.exit)

\* A new process.
Restart ==
  /\ pc = "halted"
  /\ TakeOver
  /\ Leave("board")
  /\ rounds' = 0 /\ tried' = {} /\ report' = "none"
  /\ unnamed' = FALSE /\ guarded' = FALSE

-------------------------------------------------------------------------------

Environment ==
  \/ \E o \in Slots : Execute(o) \/ BrokerCancels(o) \/ BrokerRejects(o) \/ LimboEnds(o)
  \/ StrayExecutes \/ StrayEnds

Poll == \E o \in Slots : PollReads(o) \/ PollFails(o) \/ PollMissesId(o)

Stage ==
  \/ \E flip, due, expired, cancelEntry \in BOOLEAN, qty \in 0 .. MaxQty :
       Decide(flip, due, expired, cancelEntry, qty)
  \/ \E o \in Slots : CancelWorking(o)
  \/ \E due, expired \in BOOLEAN : Release(due, expired)
  \/ SubmitEntry \/ SubmitExit \/ SubmitDeferred

EmergencyFlatten ==
  \/ Cleanup
  \/ \E o \in Slots : CancelAll(o) \/ ScanCancel(o)
  \/ Scan \/ ScanPolls \/ Verify \/ ReadPosition \/ Flatten \/ LastPosition

Next ==
  \/ Environment
  \/ ReceiveBoard \/ IgnoreBoard \/ Fault \/ Reconnect \/ GiveUp
  \/ Poll
  \/ Stage
  \/ EmergencyFlatten \/ CleanupFails
  \/ Crash \/ Restart

Spec == Init /\ [][Next]_vars

\* Boards keep coming and are not all ignored, the delay of a take-profit passes,
\* a broker that is asked again and again answers, and the loop runs on.  Nothing
\* is assumed of what the broker does with an order.
Fairness ==
  /\ WF_vars(ReceiveBoard)
  /\ SF_vars(\E flip, expired, cancelEntry \in BOOLEAN, qty \in 0 .. MaxQty, due \in BOOLEAN :
                /\ lollipop.phase = "SCHEDULED" => due
                /\ Decide(flip, due, expired, cancelEntry, qty))
  /\ \A o \in Slots : SF_vars(PollReads(o))
  /\ WF_vars(Poll)
  /\ WF_vars(Stage)
  /\ WF_vars(Reconnect \/ GiveUp)
  /\ WF_vars(EmergencyFlatten)

FairSpec == Spec /\ Fairness

-------------------------------------------------------------------------------
(***************************************************************************)
(* Safety.                                                                 *)
(***************************************************************************)

Trading == pc \in TradingPcs \cup {"fault", "caught"} /\ ~Flattening

\* What the executions of o that no poll has read yet do to the position.
Unseen(o) ==
  CASE role[o] = "entry" -> exec[o] - orders[o].cum
    [] role[o] = "exit"  -> orders[o].cum - exec[o]
    [] OTHER             -> 0

\* While the loop trades, the strategy's position differs from the account's by
\* exactly the executions it has not polled yet: no fill of an order of its own is lost,
\* counted twice or applied to the wrong side, through cancels, API errors, broken-off
\* cleanups, reconnects and restarts.  What an order left alone by the start executes
\* (executor.py:261-270) the strategy never learns.
MirrorExact ==
  Trading =>
    held = position + drift + SumFunctionOnSet([o \in Slots |-> Unseen(o)], Slots)

\* The exit orders at work never sum to more than the position, and the position
\* is never short: no double exit (lollipop.py:80-86), no exit that outlives it.
ExitsCovered ==
  Trading =>
    /\ position >= 0
    /\ SumFunctionOnSet([o \in Slots |-> LeavesQty(orders[o])], ActiveOf("exit"))
         <= position

\* One entry works at a time.
SingleEntry == Trading => Cardinality(ActiveOf("entry")) <= 1

\* Every order this process sent that works at the broker, or may still arrive there,
\* is one the ledger holds open, so that a poll or a cleanup will ask for it; a broken-off
\* cleanup and the reconnect after it leave none behind.
LiveOrdersTracked ==
  Trading \/ pc = "again"
    => \A o \in Slots : atBroker[o] \in {"live", "limbo"} => o \in Active

\* An emergency flatten only reports success when the account is flat and no order can
\* change that, one left alone by the start included: unless the report lists orders
\* whose broker id was never learnt.  A cleanup is only skipped when the account holds
\* nothing but what such orders bought: unless a cleanup had broken off before.
FlattenHonest ==
  LET quiet == \A o \in Slots : atBroker[o] \notin {"live", "limbo"}
  IN  /\ report = "completed" /\ ~unnamed
           => held = 0 /\ quiet /\ stray.buy = 0 /\ stray.sell = 0
      /\ report = "not_required" /\ ~guarded => held = drift /\ quiet

\* Between boards an open position always has an exit order at work or one that
\* the next ticks will send, unless an entry fill came that the last exit order
\* does not cover.
ExitDuty ==
  pc = "board" /\ position > 0
    => /\ lollipop.phase # "IDLE"
       /\ \/ ActiveOf("exit") # {}
          \/ lollipop.phase = "SCHEDULED"
          \/ lollipop.phase = "TIMEOUT" /\ ~lollipop.forced
          \/ uncovered

\* The comment of _handle_timeout (lollipop.py:204), "Already emitted once; wait for
\* fill or an explicit reset_force_exit() call": while the workflow waits between
\* boards, the emitted force exit is still at work.
ForceExitOutstanding ==
  pc = "board" /\ position > 0 /\ lollipop.phase = "TIMEOUT" /\ lollipop.forced
    => ActiveOf("exit") # {}

\* The tick "returns a LollipopAction describing the next order to submit"
\* (lollipop.py:37-38): the step that moves the workflow to ACTIVE makes an exit
\* order.
TickedOrderIsTracked ==
  [][lollipop.phase = "SCHEDULED" /\ lollipop'.phase = "ACTIVE"
       => \E o \in Slots : role[o] = "none" /\ role'[o] = "exit"]_vars

-------------------------------------------------------------------------------
(***************************************************************************)
(* Liveness.                                                               *)
(***************************************************************************)

\* An account with a position gets an exit order to the broker, or the worker
\* ends: through refused boards, failing polls, cancels and rejects.
ExitComes ==
  held > 0 ~> \/ held = 0
              \/ \E o \in Live : role[o] = "exit"
              \/ pc = "halted"

\* A halt reason or an exception ends in a halted process, or trading goes on with
\* nothing at stake: no retry of the cleanup goes on for ever and none waits for the
\* broker.
FaultEnds ==
  pc \in {"fault", "caught"} ~> pc = "halted" \/ (pc = "board" /\ ~Exposed)

=============================================================================
