---------------------------- MODULE MCDiscovery ----------------------------
(***************************************************************************)
(* A ring a, b, and a siding that leads from a terminus d into it at a; *)
(* two trains.                                                             *)
(***************************************************************************)
EXTENDS Discovery

CONSTANTS t1, t2, a, b, d

Rails == [p \in {a, b, d} |-> IF p = a THEN {b} ELSE {a}]

FirstPut == (t1 :> b @@ t2 :> d)

DeadEnd == {d}
=============================================================================
