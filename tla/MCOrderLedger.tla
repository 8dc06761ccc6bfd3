---------------------------- MODULE MCOrderLedger ----------------------------
(***************************************************************************)
(* A ledger of two orders of at most two shares that remembers one         *)
(* finished order, two broker ids and one execution id.                    *)
(***************************************************************************)
EXTENDS OrderLedger, TLC

CONSTANTS b1, b2

MCBrokerIds == {b1, b2}

Symmetry == Permutations(MCBrokerIds)

=============================================================================
