------------------------------ MODULE AccountRisk ------------------------------
(***************************************************************************)
(* AccountRiskController.evaluate: the account gate before an entry, from  *)
(* what the peers' exposure files say.  Quantities are in lots.            *)
(***************************************************************************)
EXTENDS Integers, Functions

CONSTANTS
  MaxTotalInventory, \* max_total_long_inventory
  MaxTotalNotional,  \* max_total_notional
  MaxAccountLoss     \* max_daily_loss

ASSUME AccountAssumption ==
  {MaxTotalInventory, MaxTotalNotional, MaxAccountLoss} \subseteq Nat

\* AccountExposure without its symbol and its time, which nothing reads.
Exposure(qty, price, pnl) == [qty |-> qty, price |-> price, pnl |-> pnl]

NoExposure == Exposure(0, 0, 0)

TotalQty(peers, told) == SumFunctionOnSet([p \in peers |-> told[p].qty], peers)

TotalNotional(peers, told) ==
  SumFunctionOnSet([p \in peers |-> told[p].qty * told[p].price], peers)

TotalPnl(peers, told) == SumFunctionOnSet([p \in peers |-> told[p].pnl], peers)

\* Mutant: what the entry adds is left out.
EvaluateHeld(peers, told, own, qty, price) ==
  /\ MaxTotalInventory > 0 => own.qty + TotalQty(peers, told) <= MaxTotalInventory
  /\ MaxTotalNotional > 0 =>
       own.qty * own.price + TotalNotional(peers, told) <= MaxTotalNotional
  /\ MaxAccountLoss > 0 => own.pnl + TotalPnl(peers, told) > -MaxAccountLoss

\* Mutant: only the peers' losses count.
EvaluatePeers(peers, told, own, qty, price) ==
  /\ MaxTotalInventory > 0 => own.qty + TotalQty(peers, told) + qty <= MaxTotalInventory
  /\ MaxTotalNotional > 0 =>
       own.qty * own.price + TotalNotional(peers, told) + qty * price <= MaxTotalNotional
  /\ MaxAccountLoss > 0 => TotalPnl(peers, told) > -MaxAccountLoss

\* Whether the entry of qty at price is let through; a limit of 0 is none.
Evaluate(peers, told, own, qty, price) ==
  /\ MaxTotalInventory > 0 => own.qty + TotalQty(peers, told) + qty <= MaxTotalInventory
  /\ MaxTotalNotional > 0 =>
       own.qty * own.price + TotalNotional(peers, told) + qty * price <= MaxTotalNotional
  /\ MaxAccountLoss > 0 => own.pnl + TotalPnl(peers, told) > -MaxAccountLoss

=============================================================================
