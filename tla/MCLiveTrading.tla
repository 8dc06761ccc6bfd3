---------------------------- MODULE MCLiveTrading ----------------------------
EXTENDS LiveTrading

MCSlots == 1 .. 5

\* No action and no invariant tells one open status from another, or reads the exit
\* workflow between a fault and the next ledger, which starts a workflow of its own.
MCView ==
  LET open(o) == IF IsFinal(orders[o]) THEN orders[o]
                 ELSE [orders[o] EXCEPT !.status = "working"]
      workflow == IF Flattening \/ pc \in HandlerPcs THEN <<>>
                  ELSE <<lollipop, uncovered>>
  IN  <<broker, [o \in Slots |-> open(o)], role, position, workflow, control, cleanup>>

=============================================================================
