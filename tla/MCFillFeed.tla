------------------------------ MODULE MCFillFeed ------------------------------
(***************************************************************************)
(* One order of five shares, with complete or with lagging details.        *)
(***************************************************************************)
EXTENDS FillFeed

ASSUME IdsAssumption == FeedIds /\ NoBroker \notin BrokerIds

===============================================================================
