------------------------------ MODULE FleetProofs ------------------------------
(***************************************************************************)
(* For every number of symbols: what the launcher leaves behind, and the   *)
(* bounds of what a worker holds and tells of.                             *)
(***************************************************************************)
EXTENDS Fleet, SumTheorems, TLAPS

Stages ==
  {"preflight", "starting", "watching", "stopping", "interrupted", "returned", "crashed"}

\* A launcher that has not been broken off watches every worker that runs.
Launcher ==
  /\ stage \in Stages /\ index \in Workers /\ watched \subseteq Workers
  /\ worker \in [Workers -> {"none", "running", "exited"}]
  /\ stage \in {"preflight", "returned"} => \A w \in Workers : ~Running(w)
  /\ stage # "crashed" => \A w \in Workers : Running(w) => w \in watched

Trades ==
  /\ position \in [Workers -> Nat] /\ working \in [Workers -> Nat]
  /\ \A w \in Workers : position[w] + working[w] <= ScaledQty
  /\ pnl \in [Workers -> -MaxLoss .. 0]
  /\ file \in [Workers -> [qty : 0 .. ScaledQty, price : Nat, pnl : -MaxLoss .. 0]]

\* What the constants are.
LEMMA Bounds == N \in Nat /\ N > 0 /\ ScaledQty \in Nat /\ TradeQty \in Nat /\ MaxLoss \in Nat
BY FleetAssumption

\* The fleet starts in its invariant.
LEMMA FleetInit == Init => Launcher /\ Trades
BY Bounds DEF Init, Launcher, Trades, Stages, Workers, Running, NoExposure, Exposure

\* The launcher's steps leave the trades alone but for a new worker's daily result.
LEMMA LauncherKeeps ==
  ASSUME Launcher, [Next]_vars
  PROVE  Launcher'
<1>1. CASE PreflightPasses
  BY <1>1, Bounds DEF PreflightPasses, Launcher, Stages, Workers, Running
<1>2. CASE PreflightFails \/ StartFails \/ Interrupt
  BY <1>2 DEF PreflightFails, StartFails, Interrupt, Launcher, Stages, Running
<1>3. CASE Relaunch
  BY <1>3, Bounds DEF Relaunch, Launcher, Stages, Workers, Running
<1>4. CASE StartWorker
  BY <1>4, Bounds DEF StartWorker, Launcher, Stages, Workers, Running
<1>5. CASE SeeExit
  BY <1>5 DEF SeeExit, Launcher, Stages, Running
<1>6. CASE Terminate
  BY <1>6 DEF Terminate, Stopping, launcherVars, Launcher, Stages, Running
<1>7. CASE Return
  BY <1>7 DEF Return, Stopping, Launcher, Stages, Running
<1>8. ASSUME NEW w \in Workers, WorkerExits(w) PROVE Launcher'
  BY <1>8 DEF WorkerExits, launcherVars, Launcher, Running
<1>9. CASE UNCHANGED <<launcherVars, worker>>
  BY <1>9 DEF launcherVars, Launcher, Running
<1> QED
  BY <1>1, <1>2, <1>3, <1>4, <1>5, <1>6, <1>7, <1>8, <1>9
     DEF Next, LauncherStep, Enter, EntryFill, ExitFill, OrderEvent, vars, launcherVars

\* A worker's file is within the bounds of what it tells of.
LEMMA FileKeeps ==
  ASSUME NEW w \in Workers, Trades, WriteExposure(w),
         position'[w] \in 0 .. ScaledQty, pnl'[w] \in -MaxLoss .. 0
  PROVE  file' \in [Workers -> [qty : 0 .. ScaledQty, price : Nat, pnl : -MaxLoss .. 0]]
<1>1. Price[w] \in Nat
  BY FleetAssumption DEF Workers
<1> QED
  BY <1>1 DEF WriteExposure, Exposure, Trades

\* No step leaves the bounds of what is held and told.
LEMMA TradesKeep ==
  ASSUME Launcher, Trades, [Next]_vars
  PROVE  Trades'
<1>1. CASE UNCHANGED tradeVars
  BY <1>1 DEF tradeVars, Trades
<1>2. CASE StartWorker
  BY <1>2, Bounds DEF StartWorker, Launcher, Trades
<1>3. ASSUME NEW w \in Workers, NEW q \in TradeQty .. ScaledQty,
             NEW readable \in SUBSET Workers, Enter(w, q, readable)
      PROVE  Trades'
  <2>1. /\ position[w] = 0 /\ working' = [working EXCEPT ![w] = q]
        /\ UNCHANGED <<position, pnl, file>>
    BY <1>3 DEF Enter
  <2>2. q \in Nat /\ q <= ScaledQty
    BY Bounds
  <2> QED
    BY <2>1, <2>2 DEF Trades
<1>4. ASSUME NEW w \in Workers, NEW n \in 1 .. ScaledQty, EntryFill(w, n) PROVE Trades'
  <2>1. /\ n <= working[w] /\ working' = [working EXCEPT ![w] = @ - n]
        /\ position' = [position EXCEPT ![w] = @ + n] /\ pnl' = pnl
        /\ WriteExposure(w)
    BY <1>4 DEF EntryFill
  <2>2. /\ position' \in [Workers -> Nat] /\ working' \in [Workers -> Nat]
        /\ \A v \in Workers : position'[v] + working'[v] <= ScaledQty
    BY <2>1, Bounds DEF Trades
  <2>3. position'[w] \in 0 .. ScaledQty /\ pnl'[w] \in -MaxLoss .. 0
    BY <2>1, <2>2, Bounds DEF Trades
  <2> QED
    BY <2>1, <2>2, <2>3, FileKeeps DEF Trades
<1>5. ASSUME NEW w \in Workers, NEW n \in 1 .. ScaledQty, NEW loss \in 0 .. 1,
             ExitFill(w, n, loss)
      PROVE  Trades'
  <2>1. /\ n <= position[w] /\ position' = [position EXCEPT ![w] = @ - n]
        /\ pnl[w] - loss >= -MaxLoss
        /\ pnl' = IF Running(w) THEN [pnl EXCEPT ![w] = @ - loss] ELSE pnl
        /\ working' = working /\ WriteExposure(w)
    BY <1>5 DEF ExitFill
  <2>2. /\ position' \in [Workers -> Nat]
        /\ \A v \in Workers : position'[v] + working'[v] <= ScaledQty
    BY <2>1, Bounds DEF Trades
  <2>3. pnl' \in [Workers -> -MaxLoss .. 0]
    BY <2>1, Bounds DEF Trades
  <2>4. position'[w] \in 0 .. ScaledQty /\ pnl'[w] \in -MaxLoss .. 0
    BY <2>1, <2>2, <2>3, Bounds DEF Trades
  <2> QED
    BY <2>1, <2>2, <2>3, <2>4, FileKeeps DEF Trades
<1>6. ASSUME NEW w \in Workers, NEW ends \in BOOLEAN, OrderEvent(w, ends) PROVE Trades'
  <2>1. /\ working' = IF ends THEN [working EXCEPT ![w] = 0] ELSE working
        /\ position' = position /\ pnl' = pnl /\ WriteExposure(w)
    BY <1>6 DEF OrderEvent
  <2>2. /\ working' \in [Workers -> Nat]
        /\ \A v \in Workers : position'[v] + working'[v] <= ScaledQty
    BY <2>1, Bounds DEF Trades
  <2>3. position'[w] \in 0 .. ScaledQty /\ pnl'[w] \in -MaxLoss .. 0
    BY <2>1, Bounds DEF Trades
  <2> QED
    BY <2>1, <2>2, <2>3, FileKeeps DEF Trades
<1> QED
  BY <1>1, <1>2, <1>3, <1>4, <1>5, <1>6
     DEF Next, LauncherStep, PreflightPasses, PreflightFails, StartFails, Interrupt,
         Relaunch, SeeExit, Terminate, Return, WorkerExits, vars, tradeVars

\* For every number of symbols and all limits: a launcher that has returned leaves no
\* worker behind, and what workers hold and tell of stays in its bounds.
THEOREM FleetBounds == Spec => []TypeOK
<1>1. Launcher /\ Trades => TypeOK
  BY Bounds DEF Launcher, Trades, TypeOK
<1>2. Launcher /\ Trades /\ [Next]_vars => (Launcher /\ Trades)'
  BY LauncherKeeps, TradesKeep
<1> QED
  BY <1>1, <1>2, FleetInit, PTL DEF Spec

-------------------------------------------------------------------------------
(***************************************************************************)
(* The limits of the account.  What the workers that saw their peers hold  *)
(* or buy stays within the limits, whatever the others hold: the last of   *)
(* them to enter counted at least as much as there is of it.               *)
(***************************************************************************)

\* What the workers hold or buy that saw all of their peers, in lots and in notional.
Seen == [w \in Workers |-> IF blind[w] THEN 0 ELSE Held[w]]

SeenWorth == [w \in Workers |-> Seen[w] * Price[w]]

Limits ==
  /\ blind \in [Workers -> BOOLEAN]
  /\ \A w \in Workers : file[w].qty > 0 => file[w].price = Price[w]
  /\ MaxTotalInventory > 0 => Total(Seen) <= MaxTotalInventory + (ScaledQty - TradeQty)
  /\ MaxTotalNotional > 0 =>
       \E w \in Workers :
         Total(SeenWorth) <= MaxTotalNotional + (ScaledQty - TradeQty) * Price[w]

\* What the constants are, and that the workers are finitely many.
LEMMA AccountNumbers ==
  /\ MaxTotalInventory \in Nat /\ MaxTotalNotional \in Nat /\ MaxAccountLoss \in Nat
  /\ \A w \in Workers : Price[w] \in Nat
  /\ IsFiniteSet(Workers) /\ TradeQty <= ScaledQty
<1>1. IsFiniteSet(Workers)
  BY Bounds, FS_Interval DEF Workers
<1> QED
  BY <1>1, AccountAssumption, FleetAssumption DEF Workers

\* A product of naturals is a natural and grows with its factors.
LEMMA ProductGrows ==
  ASSUME NEW a \in Nat, NEW b \in Nat, NEW c \in Nat, a <= b
  PROVE  a * c \in Nat /\ b * c \in Nat /\ a * c <= b * c
OBVIOUS

\* What is seen of a worker is what it holds or nothing.
LEMMA SeenIsNatural ==
  ASSUME Trades, blind \in [Workers -> BOOLEAN], NEW w \in Workers
  PROVE  /\ Held[w] \in Nat /\ Seen[w] \in Nat /\ SeenWorth[w] \in Nat
         /\ Seen[w] \in {0, Held[w]}
<1>1. Held[w] \in Nat
  BY DEF Held, Trades
<1>2. Seen[w] \in Nat /\ Seen[w] \in {0, Held[w]}
  BY <1>1 DEF Seen
<1>3. SeenWorth[w] = Seen[w] * Price[w]
  BY DEF SeenWorth
<1>4. Seen[w] * Price[w] \in Nat
  BY <1>2, AccountNumbers
<1> QED
  BY <1>1, <1>2, <1>3, <1>4

BlindTyped == blind \in [Workers -> BOOLEAN]

SeenNatural ==
  \A w \in Workers : Seen[w] \in Nat /\ SeenWorth[w] \in Nat /\ Seen[w] \in {0, Held[w]}

\* The same of all workers, now and in the next state.
LEMMA AllSeenNatural == Trades /\ BlindTyped => SeenNatural
BY SeenIsNatural DEF BlindTyped, SeenNatural

\* The next state is like this one.
LEMMA AllSeenNaturalNext == Trades' /\ BlindTyped' => SeenNatural'
BY AllSeenNatural, PTL

\* As long as nothing is added to what is seen, the limits hold.
LEMMA LimitsKept ==
  ASSUME Trades, Trades', Limits, blind' \in [Workers -> BOOLEAN],
         \A w \in Workers : file'[w].qty > 0 => file'[w].price = Price[w],
         \A w \in Workers : Seen'[w] <= Seen[w]
  PROVE  Limits'
<1>1. blind \in [Workers -> BOOLEAN]
  BY DEF Limits
<1>2. /\ \A w \in Workers : Seen[w] \in Nat /\ SeenWorth[w] \in Nat
      /\ \A w \in Workers : Seen'[w] \in Nat /\ SeenWorth'[w] \in Nat
  BY <1>1, AllSeenNatural, AllSeenNaturalNext DEF BlindTyped, SeenNatural
<1>3. Total(Seen) \in Int /\ Total(Seen') \in Int /\ Total(Seen') <= Total(Seen)
  BY <1>2, AccountNumbers, SumAtMost, SumIsInt DEF Total
<1>4. \A w \in Workers : SeenWorth'[w] <= SeenWorth[w]
  <2> SUFFICES ASSUME NEW w \in Workers PROVE SeenWorth'[w] <= SeenWorth[w]
    OBVIOUS
  <2>1. SeenWorth'[w] = Seen'[w] * Price[w] /\ SeenWorth[w] = Seen[w] * Price[w]
    BY DEF SeenWorth
  <2>2. Seen'[w] * Price[w] <= Seen[w] * Price[w]
    BY <1>2, AccountNumbers, ProductGrows
  <2> QED
    BY <2>1, <2>2
<1>5. /\ Total(SeenWorth) \in Int /\ Total(SeenWorth') \in Int
      /\ Total(SeenWorth') <= Total(SeenWorth)
  BY <1>2, <1>4, AccountNumbers, SumAtMost, SumIsInt DEF Total
<1>6. Total(Seen)' = Total(Seen') /\ Total(SeenWorth)' = Total(SeenWorth')
  BY DEF Total
<1>7. MaxTotalInventory > 0 => Total(Seen)' <= MaxTotalInventory + (ScaledQty - TradeQty)
  BY <1>3, <1>6, AccountNumbers, Bounds DEF Limits
<1>8. ASSUME MaxTotalNotional > 0
      PROVE  \E w \in Workers :
               Total(SeenWorth)' <= MaxTotalNotional + (ScaledQty - TradeQty) * Price[w]
  <2>1. PICK w \in Workers :
          Total(SeenWorth) <= MaxTotalNotional + (ScaledQty - TradeQty) * Price[w]
    BY <1>8 DEF Limits
  <2>2. (ScaledQty - TradeQty) * Price[w] \in Nat
    <3>1. ScaledQty - TradeQty \in Nat
      BY Bounds, AccountNumbers
    <3> QED
      BY <3>1, AccountNumbers
  <2> QED
    BY <1>5, <1>6, <2>1, <2>2, AccountNumbers
<1> QED
  BY <1>7, <1>8 DEF Limits

\* A worker that saw all of its peers enters within the limits, but for the scaling.
LEMMA EnterSeen ==
  ASSUME Trades, Trades', Limits, NEW w \in Workers, NEW qty \in TradeQty .. ScaledQty,
         NEW readable \in SUBSET Workers, Enter(w, qty, readable), ~blind'[w]
  PROVE  Limits'
<1> DEFINE peers == Workers \ {w}
           told  == [p \in peers |-> file[p].qty]
           worth == [p \in peers |-> file[p].qty * file[p].price]
<1>1. /\ position[w] = 0 /\ working[w] = 0
      /\ working' = [working EXCEPT ![w] = qty]
      /\ position' = position /\ file' = file
      /\ Evaluate(peers \cap readable, file, Own(w), TradeQty, Price[w])
      /\ blind' = [blind EXCEPT ![w] = \E p \in peers :
                     \/ p \notin readable
                     \/ file[p].qty # position[p]
                     \/ file[p].pnl # pnl[p]
                     \/ working[p] > 0]
  BY DEF Enter
<1>2. blind' \in [Workers -> BOOLEAN] /\ \A p \in peers : blind'[p] = blind[p]
  BY <1>1 DEF Limits
<1>3. \A p \in peers : p \in readable /\ file[p].qty = position[p] /\ ~(working[p] > 0)
  BY <1>1 DEF Limits
<1>4. peers \cap readable = peers
  BY <1>3
<1>5. IsFiniteSet(peers)
  BY AccountNumbers, FS_RemoveElement
<1>6. qty \in Nat /\ qty <= ScaledQty /\ TradeQty \in Nat /\ ScaledQty \in Nat
  BY Bounds
<1>7. /\ \A p \in peers : told[p] \in Nat /\ worth[p] \in Nat
      /\ \A p \in peers : told[p] = file[p].qty /\ worth[p] = file[p].qty * file[p].price
  <2>1. ASSUME NEW p \in peers PROVE file[p].qty \in Nat /\ file[p].price \in Nat
    <3>1. file[p] \in [qty : 0 .. ScaledQty, price : Nat, pnl : -MaxLoss .. 0]
      BY DEF Trades
    <3> QED
      BY <1>6, <3>1
  <2>2. ASSUME NEW p \in peers PROVE file[p].qty * file[p].price \in Nat
    BY <2>1
  <2> QED
    BY <2>1, <2>2
<1>8. /\ TotalQty(peers, file) = SumFunctionOnSet(told, peers)
      /\ TotalNotional(peers, file) = SumFunctionOnSet(worth, peers)
  BY DEF TotalQty, TotalNotional
<1> HIDE DEF told, worth
<1>9. /\ \A p \in Workers : Seen'[p] \in Nat /\ SeenWorth'[p] \in Nat
      /\ \A p \in Workers : Seen'[p] \in {0, Held'[p]}
  BY <1>2, AllSeenNaturalNext DEF BlindTyped, SeenNatural
<1>10. Held'[w] = qty /\ \A p \in peers : Held'[p] = position[p]
  <2>1. Held'[w] = qty
    BY <1>1, <1>6 DEF Held, Trades
  <2>2. ASSUME NEW p \in peers PROVE Held'[p] = position[p]
    <3>1. working[p] = 0
      BY <1>3 DEF Trades
    <3>2. position'[p] = position[p] /\ working'[p] = 0 /\ position[p] \in Nat
      BY <1>1, <3>1 DEF Trades
    <3>3. Held'[p] = position'[p] + working'[p]
      BY DEF Held
    <3> QED
      BY <3>2, <3>3
  <2> QED
    BY <2>1, <2>2
<1>11. Seen'[w] = qty /\ SeenWorth'[w] = qty * Price[w]
  <2>1. Seen'[w] = qty
    BY <1>10 DEF Seen
  <2> QED
    BY <2>1 DEF SeenWorth
<1>12. \A p \in peers : Seen'[p] <= told[p] /\ SeenWorth'[p] <= worth[p]
  <2> SUFFICES ASSUME NEW p \in peers
               PROVE  Seen'[p] <= told[p] /\ SeenWorth'[p] <= worth[p]
    OBVIOUS
  <2>1. Seen'[p] \in {0, told[p]} /\ told[p] \in Nat /\ worth[p] \in Nat
    BY <1>3, <1>7, <1>9, <1>10
  <2>2. SeenWorth'[p] = Seen'[p] * Price[p]
    BY DEF SeenWorth
  <2>3. CASE Seen'[p] = 0
    <3>1. 0 * Price[p] = 0
      BY AccountNumbers
    <3> QED
      BY <2>1, <2>2, <2>3, <3>1
  <2>4. CASE Seen'[p] # 0
    <3>1. file[p].qty > 0
      BY <1>7, <2>1, <2>4
    <3>2. file[p].price = Price[p]
      BY <3>1 DEF Limits
    <3>3. SeenWorth'[p] = worth[p]
      BY <1>7, <2>1, <2>2, <2>4, <3>2
    <3> QED
      BY <2>1, <2>4, <3>3
  <2> QED
    BY <2>3, <2>4
<1>13. /\ Total(Seen') = qty + SumFunctionOnSet(Seen', peers)
       /\ SumFunctionOnSet(Seen', peers) <= SumFunctionOnSet(told, peers)
       /\ SumFunctionOnSet(Seen', peers) \in Int /\ SumFunctionOnSet(told, peers) \in Int
  <2>1. Total(Seen') = Seen'[w] + SumFunctionOnSet(Seen', peers)
    BY <1>9, AccountNumbers, SumWithout DEF Total
  <2>2. SumFunctionOnSet(Seen', peers) <= SumFunctionOnSet(told, peers)
    BY <1>5, <1>7, <1>9, <1>12, SumAtMost
  <2>3. SumFunctionOnSet(Seen', peers) \in Int /\ SumFunctionOnSet(told, peers) \in Int
    BY <1>5, <1>7, <1>9, SumIsInt
  <2> QED
    BY <1>11, <2>1, <2>2, <2>3
<1>14. /\ Total(SeenWorth') = qty * Price[w] + SumFunctionOnSet(SeenWorth', peers)
       /\ SumFunctionOnSet(SeenWorth', peers) <= SumFunctionOnSet(worth, peers)
       /\ SumFunctionOnSet(SeenWorth', peers) \in Int
       /\ SumFunctionOnSet(worth, peers) \in Int
  <2>1. Total(SeenWorth') = SeenWorth'[w] + SumFunctionOnSet(SeenWorth', peers)
    BY <1>9, AccountNumbers, SumWithout DEF Total
  <2>2. SumFunctionOnSet(SeenWorth', peers) <= SumFunctionOnSet(worth, peers)
    BY <1>5, <1>7, <1>9, <1>12, SumAtMost
  <2>3. SumFunctionOnSet(SeenWorth', peers) \in Int /\ SumFunctionOnSet(worth, peers) \in Int
    BY <1>5, <1>7, <1>9, SumIsInt
  <2> QED
    BY <1>11, <2>1, <2>2, <2>3
<1>15. /\ MaxTotalInventory > 0 =>
            0 + SumFunctionOnSet(told, peers) + TradeQty <= MaxTotalInventory
       /\ MaxTotalNotional > 0 =>
            0 * Price[w] + SumFunctionOnSet(worth, peers) + TradeQty * Price[w]
              <= MaxTotalNotional
  <2>1. Own(w).qty = 0 /\ Own(w).price = Price[w]
    BY <1>1 DEF Own, Exposure
  <2> QED
    BY <1>1, <1>4, <1>8, <2>1 DEF Evaluate
<1>16. Total(Seen)' = Total(Seen') /\ Total(SeenWorth)' = Total(SeenWorth')
  BY DEF Total
<1>17. MaxTotalInventory > 0 => Total(Seen)' <= MaxTotalInventory + (ScaledQty - TradeQty)
  BY <1>6, <1>13, <1>15, <1>16, AccountNumbers
<1>18. MaxTotalNotional > 0 =>
         Total(SeenWorth)' <= MaxTotalNotional + (ScaledQty - TradeQty) * Price[w]
  <2>1. PICK a \in Nat, b \in Nat, c \in Nat :
          a = qty * Price[w] /\ b = ScaledQty * Price[w] /\ c = TradeQty * Price[w]
    BY <1>6, AccountNumbers
  <2>2. a <= b /\ (ScaledQty - TradeQty) * Price[w] = b - c /\ 0 * Price[w] = 0
    BY <1>6, <2>1, AccountNumbers, ProductGrows
  <2> QED
    BY <1>14, <1>15, <1>16, <2>1, <2>2, AccountNumbers
<1> QED
  BY <1>1, <1>2, <1>17, <1>18 DEF Limits

\* A worker that did not see its peers adds nothing to what is seen.
LEMMA EnterBlind ==
  ASSUME Trades, Trades', Limits, NEW w \in Workers, NEW qty \in TradeQty .. ScaledQty,
         NEW readable \in SUBSET Workers, Enter(w, qty, readable), blind'[w]
  PROVE  Limits'
<1>1. /\ position[w] = 0 /\ working[w] = 0
      /\ working' = [working EXCEPT ![w] = qty]
      /\ position' = position /\ file' = file
  BY DEF Enter
<1>2. blind' \in [Workers -> BOOLEAN] /\ \A p \in Workers \ {w} : blind'[p] = blind[p]
  BY DEF Enter, Limits
<1>3. \A p \in Workers : Seen'[p] <= Seen[p]
  <2>1. Seen'[w] = 0 /\ Seen[w] \in Nat
    BY SeenIsNatural DEF Seen, Limits
  <2>2. ASSUME NEW p \in Workers \ {w} PROVE Seen'[p] = Seen[p] /\ Seen[p] \in Nat
    <3>1. Held'[p] = Held[p]
      BY <1>1 DEF Held, Trades
    <3> QED
      BY <1>2, <3>1, SeenIsNatural DEF Seen, Limits
  <2> QED
    BY <2>1, <2>2
<1> QED
  BY <1>1, <1>2, <1>3, LimitsKept DEF Limits

\* No step of the launcher, the broker or a worker breaks the limits.
LEMMA LimitsStep ==
  ASSUME Trades, Trades', Limits, [Next]_vars
  PROVE  Limits'
<1>1. ASSUME blind' = blind, file' = file, \A w \in Workers : Held'[w] <= Held[w]
      PROVE  Limits'
  <2>1. \A w \in Workers : Seen'[w] <= Seen[w]
    BY <1>1, SeenIsNatural DEF Seen, Limits
  <2> QED
    BY <1>1, <2>1, LimitsKept DEF Limits
<1>2. CASE UNCHANGED <<position, working, file, blind>>
  <2>1. \A w \in Workers : Held'[w] <= Held[w]
    BY <1>2, SeenIsNatural DEF Held, Limits
  <2> QED
    BY <1>1, <1>2, <2>1
<1>3. ASSUME NEW w \in Workers, NEW qty \in TradeQty .. ScaledQty,
             NEW readable \in SUBSET Workers, Enter(w, qty, readable)
      PROVE  Limits'
  BY <1>3, EnterSeen, EnterBlind
<1>4. ASSUME NEW w \in Workers, blind' = blind, WriteExposure(w),
             \A v \in Workers : Held'[v] <= Held[v]
      PROVE  Limits'
  <2>1. \A v \in Workers : Seen'[v] <= Seen[v]
    BY <1>4, SeenIsNatural DEF Seen, Limits
  <2>2. \A v \in Workers : file'[v].qty > 0 => file'[v].price = Price[v]
    BY <1>4 DEF WriteExposure, Exposure, Trades, Limits
  <2> QED
    BY <1>4, <2>1, <2>2, LimitsKept DEF Limits
<1>5. ASSUME NEW w \in Workers, NEW n \in 1 .. ScaledQty, EntryFill(w, n) PROVE Limits'
  <2>1. \A v \in Workers : Held'[v] <= Held[v]
    BY <1>5, Bounds DEF EntryFill, Held, Trades
  <2> QED
    BY <1>4, <1>5, <2>1 DEF EntryFill
<1>6. ASSUME NEW w \in Workers, NEW n \in 1 .. ScaledQty, NEW loss \in 0 .. 1,
             ExitFill(w, n, loss)
      PROVE  Limits'
  <2>1. \A v \in Workers : Held'[v] <= Held[v]
    BY <1>6, Bounds DEF ExitFill, Held, Trades
  <2> QED
    BY <1>4, <1>6, <2>1 DEF ExitFill
<1>7. ASSUME NEW w \in Workers, NEW ends \in BOOLEAN, OrderEvent(w, ends) PROVE Limits'
  <2>1. \A v \in Workers : Held'[v] <= Held[v]
    BY <1>7, Bounds DEF OrderEvent, Held, Trades
  <2> QED
    BY <1>4, <1>7, <2>1 DEF OrderEvent
<1> QED
  BY <1>2, <1>3, <1>5, <1>6, <1>7
     DEF Next, LauncherStep, PreflightPasses, PreflightFails, StartWorker, StartFails,
         Interrupt, Relaunch, SeeExit, Terminate, Return, WorkerExits, vars, tradeVars

\* Nobody holds anything at first.
LEMMA LimitsInit == Init => Limits
<1> SUFFICES ASSUME Init PROVE Limits
  OBVIOUS
<1>1. /\ blind \in [Workers -> BOOLEAN]
      /\ \A w \in Workers : ~(file[w].qty > 0)
  BY DEF Init, NoExposure, Exposure
<1>2. \A w \in Workers : Seen[w] = 0
  BY DEF Init, Seen, Held
<1>3. \A w \in Workers : SeenWorth[w] = 0
  <2> SUFFICES ASSUME NEW w \in Workers PROVE SeenWorth[w] = 0
    OBVIOUS
  <2>1. 0 * Price[w] = 0
    BY AccountNumbers
  <2> QED
    BY <1>2, <2>1 DEF SeenWorth
<1>4. Total(Seen) = 0 /\ Total(SeenWorth) = 0
  BY <1>2, <1>3, AccountNumbers, SumOfZeros DEF Total
<1>5. 1 \in Workers
  BY Bounds DEF Workers
<1>6. ScaledQty - TradeQty \in Nat
  BY Bounds, AccountNumbers
<1>7. (ScaledQty - TradeQty) * Price[1] \in Nat
  BY <1>5, <1>6, AccountNumbers
<1> QED
  BY <1>1, <1>4, <1>5, <1>6, <1>7, AccountNumbers DEF Limits

\* Where all who hold something saw their peers, what is seen is all there is.
LEMMA LimitsSuffice == Trades /\ Limits => AccountLimit
<1> SUFFICES ASSUME Trades, Limits, \A w \in Workers : Held[w] > 0 => ~blind[w]
             PROVE  /\ MaxTotalInventory > 0 =>
                         Total(Held) <= MaxTotalInventory + (ScaledQty - TradeQty)
                    /\ MaxTotalNotional > 0 =>
                         \E w \in Workers :
                           Total([p \in Workers |-> Held[p] * Price[p]])
                             <= MaxTotalNotional + (ScaledQty - TradeQty) * Price[w]
  BY DEF AccountLimit
<1> DEFINE worth == [p \in Workers |-> Held[p] * Price[p]]
<1>1. \A w \in Workers : Held[w] = Seen[w]
  BY SeenIsNatural DEF Seen, Limits
<1>2. \A w \in Workers : worth[w] = SeenWorth[w]
  BY <1>1 DEF SeenWorth
<1> HIDE DEF worth
<1>3. Total(Held) = Total(Seen) /\ Total(worth) = Total(SeenWorth)
  BY <1>1, <1>2, AccountNumbers, SumOfEqual DEF Total
<1> QED
  BY <1>3 DEF Limits, worth

\* For every number of symbols, all prices, limits and quantities: as long as those who
\* hold something saw their peers, the account stays within its limits.
THEOREM AccountStaysInLimits == Spec => []AccountLimit
<1>1. Launcher /\ Trades /\ Limits /\ [Next]_vars => (Launcher /\ Trades /\ Limits)'
  BY LauncherKeeps, TradesKeep, LimitsStep
<1> QED
  BY <1>1, FleetInit, LimitsInit, LimitsSuffice, PTL DEF Spec

\* For every number of symbols and all limits: a worker that sees its peers' results does
\* not enter after the account's daily loss.
THEOREM LossStopsEntries == Spec => AccountLossStops
<1>1. ASSUME Trades, [Next]_vars, NEW w \in Workers, working[w] = 0, working'[w] > 0,
             ~blind'[w], MaxAccountLoss > 0, blind \in [Workers -> BOOLEAN]
      PROVE  Total(pnl) > -MaxAccountLoss
  <2> DEFINE peers == Workers \ {w}
             told  == [p \in peers |-> file[p].pnl]
  <2>1. \E qty, readable : Enter(w, qty, readable)
    <3>1. \E v \in Workers :
            \/ \E qty, readable : Enter(v, qty, readable)
            \/ \E n \in 1 .. ScaledQty : EntryFill(v, n)
            \/ \E ends \in BOOLEAN : OrderEvent(v, ends)
      BY <1>1 DEF Next, LauncherStep, PreflightPasses, PreflightFails, StartWorker,
         StartFails, Interrupt, Relaunch, SeeExit, Terminate, Return, WorkerExits, vars,
         tradeVars, ExitFill
    <3>2. PICK v \in Workers :
            \/ \E qty, readable : Enter(v, qty, readable)
            \/ \E n \in 1 .. ScaledQty : EntryFill(v, n)
            \/ \E ends \in BOOLEAN : OrderEvent(v, ends)
      BY <3>1
    <3>3. working \in [Workers -> Nat] /\ working[w] = 0 /\ working'[w] # 0
      BY <1>1 DEF Trades
    <3>4. ASSUME NEW n \in 1 .. ScaledQty, EntryFill(v, n) PROVE FALSE
      BY <3>3, <3>4, Bounds DEF EntryFill
    <3>5. ASSUME NEW ends \in BOOLEAN, OrderEvent(v, ends) PROVE FALSE
      BY <3>3, <3>5 DEF OrderEvent
    <3>6. \E qty, readable : Enter(v, qty, readable)
      BY <3>2, <3>4, <3>5
    <3>7. v = w
      BY <3>3, <3>6 DEF Enter
    <3> QED
      BY <3>6, <3>7
  <2>2. PICK qty, readable : Enter(w, qty, readable)
    BY <2>1
  <2>3. \A p \in peers : p \in readable /\ file[p].pnl = pnl[p]
    BY <1>1, <2>2 DEF Enter
  <2>4. peers \cap readable = peers
    BY <2>3
  <2>5. Own(w).pnl + TotalPnl(peers, file) > -MaxAccountLoss
    BY <1>1, <2>2, <2>4 DEF Enter, Evaluate
  <2>6. Own(w).pnl = pnl[w]
    BY DEF Own, Exposure
  <2>7. TotalPnl(peers, file) = SumFunctionOnSet(told, peers)
    BY DEF TotalPnl
  <2>8. \A p \in peers : told[p] = pnl[p]
    BY <2>3
  <2> HIDE DEF told
  <2>9. IsFiniteSet(peers)
    BY AccountNumbers, FS_RemoveElement
  <2>10. SumFunctionOnSet(told, peers) = SumFunctionOnSet(pnl, peers)
    BY <2>8, <2>9, SumOfEqual
  <2>11. \A p \in Workers : pnl[p] \in Int
    BY <1>1, Bounds DEF Trades
  <2>12. Total(pnl) = pnl[w] + SumFunctionOnSet(pnl, peers)
    BY <2>11, AccountNumbers, SumWithout DEF Total
  <2> QED
    BY <2>5, <2>6, <2>7, <2>10, <2>12
<1>2. Trades /\ Limits /\ [Next]_vars =>
        [ \A w \in Workers :
            working[w] = 0 /\ working'[w] > 0 /\ ~blind'[w] /\ MaxAccountLoss > 0 =>
              Total(pnl) > -MaxAccountLoss ]_vars
  BY <1>1 DEF Limits
<1>3. Launcher /\ Trades /\ Limits /\ [Next]_vars => (Launcher /\ Trades /\ Limits)'
  BY LauncherKeeps, TradesKeep, LimitsStep
<1> QED
  BY <1>2, <1>3, FleetInit, LimitsInit, PTL DEF Spec, AccountLossStops

===============================================================================
