------------------------------- MODULE MCYard -------------------------------
(***************************************************************************)
(* A yard of three roads and three trains.                                 *)
(***************************************************************************)
EXTENDS Yard, TLC

CONSTANTS t1, t2, t3

Roads == <<"A", "B", "C">>

Rakes == t1 :> 3 @@ t2 :> 1 @@ t3 :> 2
=============================================================================
