---------------------------- MODULE MCRestClient ----------------------------
(***************************************************************************)
(* Entries and exits in cash and margin mode, on the Tokyo exchanges, on   *)
(* another one and on the old code of Tokyo, and lots that fit, are on     *)
(* several exchanges, of the other side, too few or not told.              *)
(***************************************************************************)
EXTENDS RestClient

MCCalls ==
  [exit : BOOLEAN, margin : BOOLEAN, exchange : {1, 3}, qty : {1, 3}, long : {TRUE}]

Lot(exchange, long, closable) ==
  [exchange |-> exchange, long |-> long, closable |-> closable]

MCLotBooks ==
  {<<>>,
   <<Lot(3, TRUE, 2), Lot(3, FALSE, 3), Lot(3, TRUE, 2)>>,
   <<Lot(1, TRUE, 2), Lot(3, TRUE, 2)>>,
   <<Lot(27, TRUE, 1), Lot(0, TRUE, 2)>>,
   <<Lot(1, TRUE, 0), Lot(1, TRUE, 4)>>}

=============================================================================
