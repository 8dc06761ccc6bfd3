------------------------------- MODULE TradeRisk -------------------------------
(***************************************************************************)
(* What a trade's result does to the next entries: the fills of            *)
(* CombinedMakerTakerStrategy, the daily loss and the loss streak of the   *)
(* risk manager, its circuits, the halt the live runtime answers an opened *)
(* circuit with, and the cleanup of a halt: it ends the process, but for a *)
(* timeout that breaks it off and reconnects.  A fill is priced by its     *)
(* gross gain per lot.                                                     *)
(***************************************************************************)
EXTENDS RiskManager

CONSTANTS
  Gains,     \* gross result of one lot sold
  Kinds,     \* the kinds of requests
  MaxLoss,   \* bound on the daily loss that is explored
  MaxTime    \* bound on the clock

ASSUME TradeAssumption ==
  /\ Gains \subseteq Int /\ Kinds \subseteq RequestKinds
  /\ MaxLoss \in Nat /\ MaxTime \in Nat \ {0}

VARIABLES
  now,
  risk,
  position,  \* position.qty
  realized,  \* _open_trade_realized_pnl
  counted,   \* _partial_loss_counted_for_position
  entering,  \* lots of the working entry not filled yet
  halted,    \* the runtime has halted and its cleanup runs
  apiAt,     \* history: the last error at the limit, 0 once a success follows it
  slowAt,    \* history: when the latency circuit last opened, 0 if it never did
  seen       \* history, see NothingSeen

circuitsAt == <<apiAt, slowAt>>

vars == <<now, risk, position, realized, counted, entering, halted, circuitsAt, seen>>

\* Of the position: adds, its scale-ins; charges, the losses counted against it;
\* total, its result; turnedAt, when it began to lose.  Of all: row and lostAt, the
\* losing positions in a row, none followed by a rest of Cooling, and when the last
\* one began to lose; date and earned, the day's booked result.
NothingSeen ==
  [adds |-> 0, charges |-> 0, total |-> 0, turnedAt |-> 0, row |-> 0, lostAt |-> 0,
   date |-> 0, earned |-> 0]

Date(t) == t \div Day

Init ==
  /\ now = 1
  /\ risk = NewRisk
  /\ position = 0
  /\ realized = 0
  /\ counted = FALSE
  /\ entering = 0
  /\ halted = FALSE
  /\ apiAt = 0 /\ slowAt = 0
  /\ seen = NothingSeen

-------------------------------------------------------------------------------
(***************************************************************************)
(* Entries and fills.                                                      *)
(***************************************************************************)

\* A board on which the policy wants `base' lots; the soft kill file is read first.
TryEnter(base, softKill, t) ==
  LET killed == [risk EXCEPT !.softKill = softKill]
      gate   == CanEnter(killed, t, FALSE, "", position)
      enters == gate.reason = "ok"
  IN  /\ ~halted /\ entering = 0 /\ position = 0
      /\ now' = t
      /\ risk' = gate.risk
      /\ entering' = IF enters THEN OrderQty(base, position, base) ELSE 0
      /\ seen' = IF enters /\ t >= seen.lostAt + Cooling
                 THEN [seen EXCEPT !.row = 0] ELSE seen
      /\ UNCHANGED <<position, realized, counted, halted, circuitsAt>>

\* A cleanup cancels the entry, and fills and answers go on while it runs.
EntryEnds ==
  /\ entering > 0
  /\ entering' = 0
  /\ UNCHANGED <<now, risk, position, realized, counted, halted, circuitsAt, seen>>

\* An entry of an open position scales it in and clears the flag, too.
EntryFill(n) ==
  /\ n <= entering
  /\ entering' = entering - n
  /\ position' = position + n
  /\ counted' = FALSE
  /\ IF position = 0
     THEN /\ realized' = 0
          /\ seen' = [seen EXCEPT !.adds = 0, !.charges = 0, !.total = 0, !.turnedAt = 0]
     ELSE /\ seen' = [seen EXCEPT !.adds = @ + 1]
          /\ UNCHANGED realized
  /\ UNCHANGED <<now, risk, halted, circuitsAt>>

\* What an exit of n lots at g books, in the history.
Booked(n, g) ==
  [seen EXCEPT !.date = Date(now),
               !.earned = (IF seen.date = Date(now) THEN @ ELSE 0) + NetPnl(g * n, n),
               !.total = @ + NetPnl(g * n, n),
               !.turnedAt = IF @ = 0 /\ NetPnl(g * n, n) < 0 THEN now ELSE @]

Charges(next) == IF next.streak > risk.streak THEN 1 ELSE 0

PartialExit(n, g) ==
  LET next == RecordPartialPnl(risk, g * n, n, now, ~counted)
  IN  /\ n < position
      /\ position' = position - n
      /\ risk' = next
      /\ counted' = (counted \/ NetPnl(g * n, n) < 0)
      /\ realized' = realized + NetPnl(g * n, n)
      /\ seen' = [Booked(n, g) EXCEPT !.charges = @ + Charges(next)]
      /\ UNCHANGED <<now, entering, halted, circuitsAt>>

\* Mutant: the result of the whole trade always counts.
AlwaysCounts(total) == TRUE

\* A trade that has been counted as a loss counts again only when it is won.
UpdatesStreak(total) == total > 0 \/ ~counted

FullExit(n, g) ==
  LET total == realized + NetPnl(g * n, n)
      next  == RecordTradeResult(risk, g * n, n, now, total, UpdatesStreak(total))
      s     == Booked(n, g)
  IN  /\ n = position /\ position > 0
      /\ position' = 0
      /\ risk' = next
      /\ counted' = FALSE
      /\ realized' = 0
      /\ seen' = [s EXCEPT !.charges = @ + Charges(next),
                           !.row = IF s.total > 0 THEN 0 ELSE @ + 1,
                           !.lostAt = IF s.total > 0 THEN @
                                      ELSE IF s.turnedAt > 0 THEN s.turnedAt ELSE now]
      /\ UNCHANGED <<now, entering, halted, circuitsAt>>

-------------------------------------------------------------------------------
(***************************************************************************)
(* handle_live_execution: an answer of the REST API.                       *)
(***************************************************************************)

\* An error at the limit opens the API circuit, or keeps it open.
OpensApi(r, failed) == failed /\ ApiErrorLimit > 0 /\ r.apiErrors + 1 >= ApiErrorLimit

OpensLatency(r, slow, kind) ==
  /\ LatencyBreachLimit > 0 /\ slow
  /\ ~LatencyCircuitOpen(r, now)
  /\ AfterLatencyTest(r, now).breaches[kind] + 1 >= LatencyBreachLimit

\* An answer is a success, an error or (HTTP accepted, order not) neither.
Answer(kind, succeeded, failed, slow) ==
  LET counting == IF succeeded THEN RecordApiSuccess(risk)
                  ELSE IF failed THEN RecordApiError(risk, now) ELSE risk
  IN  /\ ~(succeeded /\ failed)
      /\ risk' = RecordLatency(counting, kind, slow, now)
      /\ halted' = (halted \/ OpensApi(risk, failed) \/ OpensLatency(risk, slow, kind))
      /\ apiAt' = IF succeeded THEN 0 ELSE IF OpensApi(risk, failed) THEN now ELSE apiAt
      /\ slowAt' = IF OpensLatency(risk, slow, kind) THEN now ELSE slowAt
      /\ UNCHANGED <<now, position, realized, counted, entering, seen>>

-------------------------------------------------------------------------------
(***************************************************************************)
(* Reconnects and new processes.                                           *)
(***************************************************************************)

\* Only a process without exposure reconnects, after a fault or after a timeout has
\* broken off the cleanup of a halt; the risk manager stays, and the snapshot it
\* reconciles with has a daily result of 0.  (With exposure, and with a snapshot that
\* shows some, the process ends.)
Reconnect ==
  /\ position = 0 /\ entering = 0
  /\ risk' = RestoreDailyPnl(risk, 0, now)
  /\ realized' = 0
  /\ counted' = FALSE
  /\ halted' = FALSE
  /\ seen' = [seen EXCEPT !.earned = 0]
  /\ UNCHANGED <<now, position, entering, circuitsAt>>

\* The new process takes over the position the broker tells of.
Restart ==
  /\ risk' = RestoreDailyPnl(NewRisk, 0, now)
  /\ realized' = 0
  /\ counted' = FALSE
  /\ entering' = 0
  /\ halted' = FALSE
  /\ apiAt' = 0 /\ slowAt' = 0
  /\ seen' = NothingSeen
  /\ position' \in 0 .. MaxInventory
  /\ UNCHANGED now

Halt ==
  /\ ~halted
  /\ halted' = TRUE
  /\ UNCHANGED <<now, risk, position, realized, counted, entering, circuitsAt, seen>>

\* What a cleanup books and records bears the time of the board that halted.
Tick ==
  /\ ~halted /\ now < MaxTime
  /\ now' = now + 1
  /\ UNCHANGED <<risk, position, realized, counted, entering, halted, circuitsAt, seen>>

Trade ==
  \/ \E base \in 1 .. MaxInventory + 1, softKill \in BOOLEAN :
       now < MaxTime /\ TryEnter(base, softKill, now + 1)
  \/ \E n \in 1 .. MaxInventory : EntryFill(n)
  \/ EntryEnds
  \/ /\ risk.pnl > -MaxLoss
     /\ \E n \in 1 .. MaxInventory, g \in Gains : PartialExit(n, g) \/ FullExit(n, g)

\* Bound: of the errors past the limit one is counted.
Next ==
  \/ Trade
  \/ \E kind \in Kinds, succeeded, failed, slow \in BOOLEAN :
       /\ risk.apiErrors <= ApiErrorLimit
       /\ Answer(kind, succeeded, failed, slow)
  \/ Reconnect \/ Restart \/ Halt \/ Tick

Spec == Init /\ [][Next]_vars

-------------------------------------------------------------------------------
(***************************************************************************)
(* Properties.                                                             *)
(***************************************************************************)

\* Every variable holds values of its kind, a flat strategy carries nothing over from
\* its last trade, and position and entry stay within the inventory limit
\* (_apply_position_fill, order_qty).
TypeOK ==
  /\ now \in 1 .. MaxTime
  /\ position \in 0 .. MaxInventory /\ entering \in 0 .. MaxInventory
  /\ position + entering <= MaxInventory
  /\ {counted, halted} \subseteq BOOLEAN
  /\ position = 0 => realized = 0 /\ ~counted
  /\ apiAt \in 0 .. now /\ slowAt \in 0 .. now
  /\ risk.streak \in Nat /\ risk.apiErrors \in Nat
  /\ \A k \in RequestKinds : risk.breaches[k] \in 0 .. LatencyBreachLimit

\* One position is counted as one loss at most, plus one for every fill that scaled
\* it in, however many partial exits lose (_partial_loss_counted_for_position).
LossCountedOnce == seen.charges <= 1 + seen.adds

\* Of any LossLimit losing positions in a row at least one is followed by an entry
\* that comes no sooner than Cooling after that position began to lose
\* (_record_loss_outcome, can_enter).
CoolingAfterLosses ==
  [][ entering = 0 /\ entering' > 0 /\ LossLimit > 0 /\ seen.row >= LossLimit =>
        now' >= seen.lostAt + Cooling ]_vars

\* No entry follows once this day's exits, partial ones and their costs included,
\* have lost the daily limit, as far as one connection of one process has seen them
\* (record_partial_pnl, record_trade_result, can_enter).
DailyLossStops ==
  [][ entering = 0 /\ entering' > 0 /\ DailyLossLimit > 0 /\ seen.date = Date(now') =>
        seen.earned > -DailyLossLimit ]_vars

\* No entry comes within ApiCooling of the answer that opened the latency circuit, nor
\* of an error at the limit that no success has followed: whatever the cleanup of the
\* halt still records, the worker that a broken-off cleanup lets reconnect finds its
\* circuits as they were (record_latency, record_api_error, can_enter).
CircuitsHoldEntries ==
  [][ entering = 0 /\ entering' > 0 =>
        /\ slowAt > 0 => now' >= slowAt + ApiCooling
        /\ apiAt > 0 => now' >= apiAt + ApiCooling ]_vars

=============================================================================
