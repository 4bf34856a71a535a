---------------------------- MODULE MCScheduler ----------------------------
(* Small railways for TLC, and the values its configurations give to the   *)
(* constants of Scheduler.                                                 *)
EXTENDS Scheduler

CONSTANTS a, b, c, d, p, q, gate

Route == INSTANCE Planner

(* The planner's answers, for every graph that discovery can lead to. *)
Routes ==
    [learned \in SUBSET (Block \ Declared), from \in Marker, to \in Marker,
     heading \in Block \cup {None} |->
        Route!PlanTransit(Declared \cup learned, from, to, heading)]

MCPlan(edges, from, to, heading) == Routes[edges \ Declared, from, to, heading]

BothWays(tracks) == tracks \cup {<<e[2], e[1]>> : e \in tracks}

NoPoints == <<>>
NoPosition == [m \in Marker |-> None]
UnitLength == [e \in Marker \X Marker |-> IF e \in Declared THEN 1 ELSE None]
Equal == [t \in Train |-> 0]
Point == [t \in Train |-> 0]
NoMarkers == [x \in Device |-> {}]

(* Nothing tells the trains apart: their priorities and lengths are equal. *)
Alike == Permutations(Train)

-----------------------------------------------------------------------------
(* A single line of four markers, run both ways, with points at b that lead *)
(* on to c; a reader may skip c. Two trains that meet at b, both on their way *)
(* to d, stand off: one yields or backs out for the other.                    *)
Line == BothWays({<<a, b>>, <<b, c>>, <<c, d>>})
LinePoints == <<b, c>> :> "main"
LineReports == {<<b, d>>}
LineRequests == {<<a, b>>, <<c, d>>}
LineSchedules == {<<b, d>>}

(* A ring of three with a gate and the points at b, and a zone behind c. *)
Ring == {<<a, b>>, <<b, c>>, <<c, a>>}
AskForBC == {<<b, c>>}
RingSchedules == {<<a, c>>}
GateAtB == [x \in Device |-> {b}]
ZoneAtC == [x \in Device |-> {c}]
=============================================================================
