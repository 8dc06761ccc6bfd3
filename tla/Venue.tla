--------------------------------- MODULE Venue ---------------------------------
(***************************************************************************)
(* What a venue promises the ledger, whoever it is: an order executes at   *)
(* most its quantity, ends once, and what is told of it only grows, is     *)
(* never ahead of what has happened and is complete when the end is told.  *)
(***************************************************************************)
EXTENDS Integers

CONSTANTS
  Slots,  \* where an order can be
  MaxQty  \* bound on the quantity of an order

VARIABLES
  life, \* "free", "open" at the venue, or "over" there and not yet told
  qty,  \* the order's quantity
  done, \* executed
  told  \* executions the ledger knows of

venueVars == <<life, qty, done, told>>

Init ==
  /\ life = [s \in Slots |-> "free"]
  /\ qty = [s \in Slots |-> 0]
  /\ done = [s \in Slots |-> 0]
  /\ told = [s \in Slots |-> 0]

Send(s, n) ==
  /\ life[s] = "free"
  /\ life' = [life EXCEPT ![s] = "open"]
  /\ qty' = [qty EXCEPT ![s] = n]
  /\ done' = [done EXCEPT ![s] = 0]
  /\ told' = [told EXCEPT ![s] = 0]

\* n lots execute; the order is over when it is complete, or may end with the rest.
Execute(s, n, ends) ==
  /\ life[s] = "open"
  /\ done[s] + n <= qty[s]
  /\ done[s] + n = qty[s] => ends
  /\ done' = [done EXCEPT ![s] = @ + n]
  /\ life' = IF ends THEN [life EXCEPT ![s] = "over"] ELSE life
  /\ UNCHANGED <<qty, told>>

Tell(s, n, closes) ==
  /\ life[s] # "free"
  /\ told[s] + n <= done[s]
  /\ closes => life[s] = "over" /\ told[s] + n = done[s]
  /\ told' = [told EXCEPT ![s] = @ + n]
  /\ life' = IF closes THEN [life EXCEPT ![s] = "free"] ELSE life
  /\ UNCHANGED <<qty, done>>

Next ==
  \E s \in Slots :
    \/ \E n \in 1 .. MaxQty : Send(s, n)
    \/ \E n \in 0 .. MaxQty, b \in BOOLEAN : Execute(s, n, b) \/ Tell(s, n, b)

Spec == Init /\ [][Next]_venueVars

\* What that amounts to: nothing is told that has not happened, no order executes beyond
\* its quantity, one that is complete is not open, and where an order has been
\* everything is told.
Promise ==
  /\ life \in [Slots -> {"free", "open", "over"}]
  /\ qty \in [Slots -> Nat] /\ done \in [Slots -> Nat] /\ told \in [Slots -> Nat]
  /\ \A s \in Slots :
       /\ told[s] <= done[s] /\ done[s] <= qty[s]
       /\ life[s] = "free" => told[s] = done[s]
       /\ life[s] = "open" => done[s] < qty[s]

=============================================================================
