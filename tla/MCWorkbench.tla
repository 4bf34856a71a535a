---------------------------- MODULE MCWorkbench ----------------------------
(* A table with two rails, a turnout, a lift bridge, a gate and a train.    *)
EXTENDS Workbench

CONSTANTS near, siding, points, bridge, barrier, train

OnNear == [t \in Train |-> near]
=============================================================================
