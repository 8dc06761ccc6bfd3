--------------------------------- MODULE Fleet ---------------------------------
(***************************************************************************)
(* The launcher in real mode and its workers, one process per symbol that  *)
(* share nothing but the exposure files.  Of a worker only what the others *)
(* can see of it is modelled: its position, its entry at work, its daily   *)
(* result and its file; module LiveTrading has the rest.                   *)
(***************************************************************************)
EXTENDS AccountRisk

CONSTANTS
  N,               \* number of symbols, started in the order 1, 2, ...
  Price,           \* price of a lot of each symbol
  TradeQty,        \* the quantity the account gate projects
  ScaledQty,       \* the largest quantity an order is scaled up to
  RestorePosition, \* startup_position_policy = "restore"
  MaxLoss,         \* bound on the daily loss of one worker
  MaxLaunches      \* bound on the launches

ASSUME FleetAssumption ==
  /\ N \in Nat \ {0} /\ Price \in [1 .. N -> Nat]
  /\ {TradeQty, ScaledQty, MaxLoss, MaxLaunches} \subseteq Nat
  /\ TradeQty <= ScaledQty
  /\ RestorePosition \in BOOLEAN

Workers == 1 .. N

VARIABLES
  stage,    \* where launcher.main is
  index,    \* the symbol whose preflight or start is next
  watched,  \* processes in _run_workers
  launches, \* number of launches so far
  worker,   \* state of each process
  position, \* the broker's position in each symbol
  working,  \* lots at work at the broker in each symbol
  pnl,      \* risk.daily_pnl of each worker
  file,     \* the exposure file of each worker
  blind     \* history: a peer's file or entry escaped this worker's last check

launcherVars == <<stage, index, watched, launches>>
tradeVars == <<position, working, pnl, file, blind>>
vars == <<stage, index, watched, launches, worker, position, working, pnl, file, blind>>

Running(w) == worker[w] = "running"

Own(w) == Exposure(position[w], Price[w], pnl[w])

Init ==
  /\ stage = "preflight"
  /\ index = 1
  /\ watched = {}
  /\ launches = 1
  /\ worker = [w \in Workers |-> "none"]
  /\ position = [w \in Workers |-> 0]
  /\ working = [w \in Workers |-> 0]
  /\ pnl = [w \in Workers |-> 0]
  /\ file = [w \in Workers |-> NoExposure]
  /\ blind = [w \in Workers |-> FALSE]

-------------------------------------------------------------------------------
(***************************************************************************)
(* The launcher: _run_preflight, _run_workers, _terminate_remaining.       *)
(***************************************************************************)

\* The preflight of a symbol wants no order of it at the broker (it is taken to see them
\* all) and, unless positions are restored, no position.
PreflightPasses ==
  /\ stage = "preflight"
  /\ working[index] = 0
  /\ RestorePosition \/ position[index] = 0
  /\ IF index < N THEN index' = index + 1 /\ UNCHANGED stage
     ELSE index' = 1 /\ stage' = "starting"
  /\ UNCHANGED <<watched, launches, worker, tradeVars>>

PreflightFails ==
  /\ stage = "preflight"
  /\ stage' = "returned"
  /\ UNCHANGED <<index, watched, launches, worker, tradeVars>>

\* The worker takes over its position and starts with a daily result of 0; its
\* exposure file is not written before the broker tells it something.
StartWorker ==
  /\ stage = "starting"
  /\ worker' = [worker EXCEPT ![index] = "running"]
  /\ pnl' = [pnl EXCEPT ![index] = 0]
  /\ watched' = watched \cup {index}
  /\ IF index < N THEN index' = index + 1 /\ UNCHANGED stage
     ELSE index' = 1 /\ stage' = "watching"
  /\ UNCHANGED <<launches, position, working, file, blind>>

\* An OSError of Popen is not caught: the workers started so far stay.
StartFails ==
  /\ stage = "starting"
  /\ stage' = "crashed"
  /\ UNCHANGED <<index, watched, launches, worker, tradeVars>>

\* Mutant: a worker that has exited is only crossed off.
SeeExitOnly ==
  /\ stage = "watching"
  /\ \E w \in watched : worker[w] = "exited" /\ watched' = watched \ {w}
  /\ stage' = IF watched' = {} THEN "returned" ELSE stage
  /\ UNCHANGED <<index, launches, worker, tradeVars>>

\* The first worker found exited ends the fleet: no live worker returns 0.
SeeExit ==
  /\ stage = "watching"
  /\ \E w \in watched :
       /\ worker[w] = "exited"
       /\ watched' = watched \ {w}
       /\ stage' = "stopping"
  /\ UNCHANGED <<index, launches, worker, tradeVars>>

\* In _terminate_remaining, after an exit or in the handler of Ctrl-C.
Stopping == stage \in {"stopping", "interrupted"}

\* terminate, wait and kill: a worker signalled does not clean up after itself.
Terminate ==
  /\ Stopping
  /\ \E w \in watched : Running(w) /\ worker' = [worker EXCEPT ![w] = "exited"]
  /\ UNCHANGED <<launcherVars, tradeVars>>

\* Mutant: returns without waiting for the workers it has told to stop.
ReturnsEarly ==
  /\ Stopping
  /\ stage' = "returned"
  /\ UNCHANGED <<index, watched, launches, worker, tradeVars>>

Return ==
  /\ Stopping
  /\ \A w \in watched : ~Running(w)
  /\ stage' = "returned"
  /\ UNCHANGED <<index, watched, launches, worker, tradeVars>>

\* Ctrl-C: fatal in a preflight, the end of the fleet after it, and fatal again while
\* its handler waits for the workers.
Interrupt ==
  /\ stage \notin {"returned", "crashed"}
  /\ stage' = IF stage \in {"preflight", "interrupted"} THEN "crashed" ELSE "interrupted"
  /\ UNCHANGED <<index, watched, launches, worker, tradeVars>>

\* The operator starts the launcher again when no worker is left.
Relaunch ==
  /\ stage \in {"returned", "crashed"}
  /\ \A w \in Workers : ~Running(w)
  /\ launches < MaxLaunches
  /\ launches' = launches + 1
  /\ stage' = "preflight"
  /\ index' = 1
  /\ watched' = {}
  /\ worker' = [w \in Workers |-> "none"]
  /\ UNCHANGED tradeVars

LauncherStep == StartWorker \/ SeeExit \/ Terminate \/ Return

-------------------------------------------------------------------------------
(***************************************************************************)
(* The workers and the broker.                                             *)
(***************************************************************************)

\* A halt after its cleanup, a refusal to start, a crash.
WorkerExits(w) ==
  /\ Running(w)
  /\ worker' = [worker EXCEPT ![w] = "exited"]
  /\ UNCHANGED <<launcherVars, tradeVars>>

\* The account gate of on_board and the order that follows it.  A file that cannot
\* be read counts as no exposure.
Enter(w, qty, readable) ==
  LET peers == Workers \ {w}
  IN  /\ Running(w)
      /\ position[w] = 0 /\ working[w] = 0
      /\ Evaluate(peers \cap readable, file, Own(w), TradeQty, Price[w])
      /\ working' = [working EXCEPT ![w] = qty]
      /\ blind' = [blind EXCEPT ![w] = \E p \in peers :
                     \/ p \notin readable
                     \/ file[p].qty # position[p]
                     \/ file[p].pnl # pnl[p]
                     \/ working[p] > 0]
      /\ UNCHANGED <<launcherVars, worker, position, pnl, file>>

\* _write_exposure after every event of the broker; a failed one is swallowed, and
\* nobody writes for a worker that is gone.
WriteExposure(w) ==
  \/ Running(w) /\ file' = [file EXCEPT ![w] = Exposure(position'[w], Price[w], pnl'[w])]
  \/ UNCHANGED file

EntryFill(w, n) ==
  /\ n <= working[w]
  /\ working' = [working EXCEPT ![w] = @ - n]
  /\ position' = [position EXCEPT ![w] = @ + n]
  /\ UNCHANGED pnl
  /\ WriteExposure(w)
  /\ UNCHANGED <<launcherVars, worker, blind>>

ExitFill(w, n, loss) ==
  /\ n <= position[w]
  /\ pnl[w] - loss >= -MaxLoss
  /\ position' = [position EXCEPT ![w] = @ - n]
  /\ pnl' = IF Running(w) THEN [pnl EXCEPT ![w] = @ - loss] ELSE pnl
  /\ UNCHANGED working
  /\ WriteExposure(w)
  /\ UNCHANGED <<launcherVars, worker, blind>>

\* The entry is accepted, or it ends.
OrderEvent(w, ends) ==
  /\ working[w] > 0
  /\ working' = IF ends THEN [working EXCEPT ![w] = 0] ELSE working
  /\ UNCHANGED <<position, pnl>>
  /\ WriteExposure(w)
  /\ UNCHANGED <<launcherVars, worker, blind>>

Next ==
  \/ PreflightPasses \/ PreflightFails \/ StartFails \/ Interrupt \/ Relaunch
  \/ LauncherStep
  \/ \E w \in Workers :
       \/ WorkerExits(w)
       \/ \E qty \in TradeQty .. ScaledQty, readable \in SUBSET Workers :
            Enter(w, qty, readable)
       \/ \E n \in 1 .. ScaledQty :
            EntryFill(w, n) \/ \E loss \in 0 .. 1 : ExitFill(w, n, loss)
       \/ \E ends \in BOOLEAN : OrderEvent(w, ends)

\* The launcher polls its workers until they are gone.
Spec == Init /\ [][Next]_vars /\ WF_vars(LauncherStep)

-------------------------------------------------------------------------------
(***************************************************************************)
(* Properties.                                                             *)
(***************************************************************************)

\* Every variable holds values of its kind; a launcher that has returned leaves no
\* worker behind and one that still runs preflights has none.
TypeOK ==
  /\ index \in Workers /\ watched \subseteq Workers
  /\ \A w \in Workers :
       /\ position[w] \in 0 .. ScaledQty /\ working[w] \in 0 .. ScaledQty
       /\ position[w] + working[w] <= ScaledQty
       /\ file[w].qty \in 0 .. ScaledQty /\ file[w].pnl \in -MaxLoss .. 0
  /\ stage \in {"preflight", "returned"} => \A w \in Workers : ~Running(w)

\* The lots of a worker, held or at work.
Held == [w \in Workers |-> position[w] + working[w]]

Total(f) == SumFunctionOnSet(f, Workers)

\* The account's inventory and notional stay within their limits, but for what the
\* last order was scaled up by, as long as every worker that holds or buys
\* something saw all of its peers when it checked.  Peers with an entry at work,
\* unwritten or unreadable files and restored positions are what it cannot see
\* (evaluate_from_dir, write_exposure, on_board).
AccountLimit ==
  (\A w \in Workers : Held[w] > 0 => ~blind[w]) =>
    /\ MaxTotalInventory > 0 =>
         Total(Held) <= MaxTotalInventory + (ScaledQty - TradeQty)
    /\ MaxTotalNotional > 0 =>
         \E w \in Workers :
           Total([p \in Workers |-> Held[p] * Price[p]])
             <= MaxTotalNotional + (ScaledQty - TradeQty) * Price[w]

\* No worker that sees its peers' results enters when the account, as the processes
\* of this launch count, has lost its daily limit (evaluate, _write_exposure).
AccountLossStops ==
  [][ \A w \in Workers :
        working[w] = 0 /\ working'[w] > 0 /\ ~blind'[w] /\ MaxAccountLoss > 0 =>
          Total(pnl) > -MaxAccountLoss ]_vars

\* A worker that ends while the launcher watches ends the whole fleet, unless a second
\* Ctrl-C breaks the launcher off (_run_workers, _terminate_remaining).
FleetStops ==
  (stage = "watching" /\ \E w \in Workers : worker[w] = "exited") ~>
    (stage = "crashed" \/ \A w \in Workers : ~Running(w))

=============================================================================
