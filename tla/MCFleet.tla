------------------------------- MODULE MCFleet -------------------------------
(***************************************************************************)
(* Two workers, the second with the dearer lots.                           *)
(***************************************************************************)
EXTENDS Fleet

MCPrice == [w \in 1 .. 2 |-> w]

=============================================================================
