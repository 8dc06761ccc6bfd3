-------------------------------- MODULE DryRun --------------------------------
(***************************************************************************)
(* The dry-run loop of app.py and of ReplayEngine: trades and boards go to *)
(* the simulator, its events to the strategy, and the strategy's orders    *)
(* back to the simulator.  Quantities are in lots.  There is at most one   *)
(* entry and one exit at a time, so a slot each.                           *)
(***************************************************************************)
EXTENDS Simulator, Lollipop

CONSTANTS
  MaxQty  \* the largest entry; also bounds sizes, depths and queues

ASSUME DryRunAssumption == MaxQty \in Nat \ {0}

Slots == {"entry", "exit"}

VARIABLES
  pc,       \* the stage of the loop
  todo,     \* orders of the simulator not looked at yet on this board
  inbox,    \* events on their way to the strategy
  book,     \* the simulator's orders, NotQueued where there is none
  orders,   \* the ledger's orders, Absent where there never was one
  position, \* of the strategy, negative on the other side
  lollipop, \* the exit workflow
  plan      \* what on_board has decided

vars == <<pc, todo, inbox, book, orders, position, lollipop, plan>>

NotQueued == Queued(0, 0)

Absent == [NewOrder(0, TRUE) EXCEPT !.status = "canceled"]

\* Whether exits are replaced or entries taken back, and the kind of order to submit
\* in each slot, "" for none.
NoPlan == [exitCancel |-> FALSE, entryCancel |-> FALSE, entry |-> "", exit |-> ""]

Active == {s \in Slots : ~IsFinal(orders[s])}

InBook == {s \in Slots : book[s] # NotQueued}

Init ==
  /\ pc = "board"
  /\ todo = {}
  /\ inbox = <<>>
  /\ book = [s \in Slots |-> NotQueued]
  /\ orders = [s \in Slots |-> Absent]
  /\ position = 0
  /\ lollipop = Idle
  /\ plan = NoPlan

-------------------------------------------------------------------------------
(***************************************************************************)
(* Events to the strategy: on_broker_order_event, on_broker_fill.          *)
(***************************************************************************)

PositionAfter(p, s, n) ==
  CASE s = "entry"           -> p + n
    [] s = "exit" /\ p <= 0  -> p - n
    [] s = "exit" /\ p > 0   -> IF n < p THEN p - n ELSE 0

WorkflowAfterFill(w, p, s, n) ==
  IF n = 0 THEN w
  ELSE IF p = 0 THEN OnEntryFill(w)
  ELSE IF s = "entry" THEN OnScaleInFill(w)
  ELSE IF n >= p THEN OnExitFill(w)
  ELSE w

\* Mutant: a canceled forced exit stays requested.
NeverAgain(w, p, s, o) ==
  IF s = "exit" /\ o.status = "canceled" /\ p > 0 THEN Reschedule(w) ELSE w

\* _handle_final_order_state; the simulator rejects nothing.
WorkflowAfterFinal(w, p, s, o) ==
  IF s # "exit" \/ o.status # "canceled" \/ p <= 0 THEN w
  ELSE IF w.phase = "TIMEOUT" THEN ResetForceExit(w)
  ELSE Reschedule(w)

Apply(s, o, n) ==
  LET p == PositionAfter(position, s, n)
  IN  /\ orders' = [orders EXCEPT ![s] = o]
      /\ position' = p
      /\ lollipop' = WorkflowAfterFinal(WorkflowAfterFill(lollipop, position, s, n), p, s, o)

\* The simulator's fills of a board are told after it has looked at every order.
Deliver ==
  /\ inbox # <<>>
  /\ todo = {}
  /\ LET m == Head(inbox)
         o == orders[m.slot]
     IN  IF m.kind = "fill"
         THEN Apply(m.slot, AfterFillEvent(o, m.event), FillEventFill(o, m.event))
         ELSE Apply(m.slot, AfterOrderEvent(o, m.event), OrderEventFill(o, m.event))
  /\ inbox' = Tail(inbox)
  /\ UNCHANGED <<pc, todo, book, plan>>

\* A stage begins when the events of the one before it have been told.
At(label) == pc = label /\ inbox = <<>> /\ todo = {}

-------------------------------------------------------------------------------
(***************************************************************************)
(* The simulator's part of a board: DryRunSimulator.on_board.              *)
(***************************************************************************)

Board ==
  /\ At("board")
  /\ pc' = "decide"
  /\ todo' = InBook
  /\ UNCHANGED <<inbox, book, orders, position, lollipop, plan>>

\* `traded': the size of the trades at the order's price since the last board.
LookAt(s, place, traded) ==
  LET n == MakerFillQty(book[s], place, traded)
      b == AfterMakerFill(book[s], place, traded)
  IN  /\ s \in todo
      /\ todo' = todo \ {s}
      /\ book' = [book EXCEPT ![s] = IF b.leaves <= 0 THEN NotQueued ELSE b]
      /\ inbox' = IF n = 0 THEN inbox
                  ELSE Append(inbox, FillMessage(s, n, orders[s].qty - b.leaves))
      /\ UNCHANGED <<pc, orders, position, lollipop, plan>>

-------------------------------------------------------------------------------
(***************************************************************************)
(* on_board and the stages that follow it.                                 *)
(***************************************************************************)

\* Go on with the plan after the stage `label'.
After(label, p) ==
  IF label = "exitCancel" THEN "release"
  ELSE IF label \in {"decide", "release"} /\ p.entryCancel THEN "entryCancel"
  ELSE IF p.entry # "" THEN "entry"
  ELSE IF p.exit # "" THEN "exit"
  ELSE "board"

Track(s, n) == orders' = [orders EXCEPT ![s] = NewOrder(n, TRUE)]

OrderKind(action) == IF action = "force" THEN "market" ELSE "limit"

\* The workflow may be forced by a flow flip, then ticks; a working entry may be taken
\* back; with nothing at work and no exit owed an entry of qty lots may start.
Decide(flip, due, expired, cancelEntry, qty, entryKind) ==
  LET w        == IF flip THEN ForceExitNextTick(lollipop) ELSE lollipop
      tick     == Tick(w, position, due, expired)
      replaces == tick.action = "force" /\ "exit" \in Active
      exits    == tick.action # "none" /\ ~replaces
      p == [exitCancel |-> replaces, entryCancel |-> cancelEntry,
            entry |-> IF qty > 0 THEN entryKind ELSE "",
            exit |-> IF exits THEN OrderKind(tick.action) ELSE ""]
  IN  /\ At("decide")
      /\ flip => position > 0 /\ lollipop.phase # "TIMEOUT"
      /\ due => w.phase = "SCHEDULED"
      /\ expired => w.phase = "ACTIVE"
      /\ cancelEntry => "entry" \in Active
      /\ qty > 0 =>
           /\ "entry" \notin Active
           /\ ~(position > 0 /\ tick.workflow.phase # "IDLE")
      /\ lollipop' = tick.workflow
      /\ plan' = p
      /\ IF exits THEN Track("exit", position)
         ELSE IF qty > 0 THEN Track("entry", qty)
         ELSE UNCHANGED orders
      /\ pc' = IF replaces THEN "exitCancel" ELSE After("decide", p)
      /\ UNCHANGED <<todo, inbox, book, position>>

\* A board of another symbol, a duplicate or one out of order: on_board decides nothing.
IgnoreBoard ==
  /\ At("decide")
  /\ pc' = "board"
  /\ plan' = NoPlan
  /\ UNCHANGED <<todo, inbox, book, orders, position, lollipop>>

\* Mutant: the simulator drops the order without a word.
CancelSilently(s) ==
  /\ orders' = [orders EXCEPT ![s] = MarkCancelPending(@)]
  /\ book' = [book EXCEPT ![s] = NotQueued]
  /\ inbox' = <<>>

\* request_cancel, then DryRunSimulator.cancel, which answers for what it knows.
CancelOrder(s) ==
  /\ orders' = [orders EXCEPT ![s] = MarkCancelPending(@)]
  /\ book' = [book EXCEPT ![s] = NotQueued]
  /\ inbox' = IF s \in InBook THEN <<CancelMessage(s)>> ELSE <<>>

CancelStage(label, s) ==
  /\ At(label)
  /\ IF s \in Active THEN CancelOrder(s) ELSE UNCHANGED <<orders, book, inbox>>
  /\ pc' = After(label, [plan EXCEPT !.entryCancel = @ /\ label # "entryCancel"])
  /\ UNCHANGED <<todo, position, lollipop, plan>>

\* release_deferred_force_exit: the workflow, in TIMEOUT, ticks again.
Release ==
  LET tick == Tick(lollipop, position, FALSE, FALSE)
  IN  /\ At("release")
      /\ IF position <= 0 \/ "exit" \in Active
         THEN UNCHANGED <<lollipop, orders>> /\ pc' = After("release", plan)
         ELSE /\ lollipop' = tick.workflow
              /\ IF tick.action = "force"
                 THEN Track("exit", position) /\ pc' = "deferred"
                 ELSE UNCHANGED orders /\ pc' = After("release", plan)
      /\ UNCHANGED <<todo, inbox, book, position, plan>>

\* _submit_to_simulator: a limit order queues, a market order is over at once.
Send(s, kind, ahead, depth) ==
  IF kind = "limit"
  THEN /\ book' = [book EXCEPT ![s] = Queued(orders[s].qty, ahead)]
       /\ inbox' = <<Ack(s)>>
  ELSE /\ inbox' = MarketMessages(s, orders[s].qty, depth)
       /\ UNCHANGED book

Submit(ahead, depth) ==
  /\ \/ /\ At("entry") /\ Send("entry", plan.entry, ahead, depth)
        /\ pc' = After("entry", [plan EXCEPT !.entry = ""])
     \/ /\ At("exit") /\ Send("exit", plan.exit, ahead, depth)
        /\ pc' = "board"
     \/ /\ At("deferred") /\ Send("exit", "market", ahead, depth)
        /\ pc' = After("release", plan)
     \/ /\ At("flatten") /\ Send("exit", "market", ahead, depth)
        /\ pc' = "halted"
  /\ UNCHANGED <<todo, orders, position, lollipop, plan>>

-------------------------------------------------------------------------------
(***************************************************************************)
(* The hard kill file: _halt_live and _emergency_flatten_simulator.        *)
(***************************************************************************)

HardKill ==
  /\ At("board")
  /\ pc' = "cancelAll"
  /\ UNCHANGED <<todo, inbox, book, orders, position, lollipop, plan>>

CancelAll ==
  /\ At("cancelAll")
  /\ IF "exit" \in Active THEN CancelOrder("exit") /\ UNCHANGED pc
     ELSE IF "entry" \in Active THEN CancelOrder("entry") /\ UNCHANGED pc
     ELSE pc' = "flattenTick" /\ UNCHANGED <<orders, book, inbox>>
  /\ UNCHANGED <<todo, position, lollipop, plan>>

\* Mutant: the workflow ticks without being forced.
PlainTick == Tick(lollipop, position, FALSE, FALSE)

ForcedTick == Tick(ForceExitNextTick(lollipop), position, FALSE, FALSE)

FlattenTick ==
  /\ At("flattenTick")
  /\ IF position > 0 /\ ForcedTick.action = "force"
     THEN Track("exit", position) /\ pc' = "flatten"
     ELSE UNCHANGED orders /\ pc' = "halted"
  /\ lollipop' = IF position > 0 THEN ForcedTick.workflow ELSE lollipop
  /\ UNCHANGED <<todo, inbox, book, position, plan>>

LookAtOne ==
  \E s \in Slots, place \in Places, traded \in 0 .. 2 * MaxQty : LookAt(s, place, traded)

DecideWith(Dues, Expiries) ==
  \E flip, cancelEntry \in BOOLEAN, due \in Dues, expired \in Expiries,
     qty \in 0 .. MaxQty, kind \in {"limit", "market"} :
    Decide(flip, due, expired, cancelEntry, qty, kind)

SubmitInto(Depths) == \E ahead \in 0 .. MaxQty, depth \in Depths : Submit(ahead, depth)

\* What the loop does with the next event of its file.
Loop ==
  \/ Deliver
  \/ Board
  \/ LookAtOne
  \/ DecideWith(BOOLEAN, BOOLEAN)
  \/ IgnoreBoard
  \/ CancelStage("exitCancel", "exit")
  \/ CancelStage("entryCancel", "entry")
  \/ Release
  \/ SubmitInto(0 .. MaxQty)

Next == Loop \/ HardKill \/ CancelAll \/ FlattenTick

Spec == Init /\ [][Next]_vars

\* A file without an end: boards keep coming and some are decided on, delays and hold
\* times pass, and now and then the book is deep enough for the position.
FairSpec ==
  /\ Spec
  /\ WF_vars(Loop)
  /\ SF_vars(DecideWith(BOOLEAN, BOOLEAN))
  /\ SF_vars(DecideWith({TRUE}, BOOLEAN))
  /\ SF_vars(DecideWith(BOOLEAN, {TRUE}))
  /\ SF_vars(SubmitInto({MaxQty}))

-------------------------------------------------------------------------------
(***************************************************************************)
(* The dry run implements Venue.                                           *)
(***************************************************************************)

\* An order is open from the moment it is tracked: its submission comes on this board.
ToSubmit ==
  {s \in Slots : \/ s = "entry" /\ pc \in {"exitCancel", "release", "deferred",
                                             "entryCancel", "entry"} /\ plan.entry # ""
                 \/ s = "exit" /\ pc \in {"deferred", "flatten"}
                 \/ s = "exit" /\ pc \in {"entryCancel", "entry", "exit"} /\ plan.exit # ""}

\* What the inbox still has to say of an order.
PendingFills(s) ==
  LET pending == {i \in DOMAIN inbox : inbox[i].slot = s /\ inbox[i].kind = "fill"}
  IN  IF pending = {} THEN 0 ELSE inbox[CHOOSE i \in pending : TRUE].event.qty

LifeOf(s) ==
  IF s \in InBook \cup ToSubmit THEN "open"
  ELSE IF s \in Active THEN "over"
  ELSE "free"

V == INSTANCE Venue WITH
       life <- [s \in Slots |-> LifeOf(s)],
       qty <- [s \in Slots |-> orders[s].qty],
       told <- [s \in Slots |-> orders[s].cum],
       done <- [s \in Slots |-> orders[s].cum + PendingFills(s)]

-------------------------------------------------------------------------------
(***************************************************************************)
(* Properties.                                                             *)
(***************************************************************************)

\* Between two boards the simulator and the ledger have the same orders with the same
\* rest, an exit never asks for more than the position, and no exit has turned it
\* round (DryRunSimulator, OrderLedger, _apply_position_fill).
BooksAgree ==
  At("board") =>
    /\ InBook = Active
    /\ \A s \in Active : book[s].leaves = LeavesQty(orders[s])
    /\ position \in 0 .. MaxQty
    /\ "exit" \in Active => LeavesQty(orders["exit"]) <= position

\* After a hard kill nothing works any more, and what is left of the position is what
\* one last market order for all of it did not find in the book
\* (_emergency_flatten_simulator).
HaltFlattens ==
  At("halted") =>
    /\ InBook = {} /\ Active = {}
    /\ position > 0 => position = LeavesQty(orders["exit"])

\* A position is closed in the end, unless the hard kill file stops the loop: whatever
\* the book leaves of a forced exit is asked for again (LollipopTPManager,
\* _handle_final_order_state, _handle_exit_cancel_signal).
GetsOut == position > 0 ~> (position = 0 \/ pc \in {"cancelAll", "flattenTick", "halted"})

\* The simulator and the ledger together keep the promises of Venue: no order executes
\* beyond its quantity or after its end, and its executions are told once, completely
\* and before its end is (simulator.py, orders.py).
ImplementsVenue == V!Spec

=============================================================================
