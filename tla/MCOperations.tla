---------------------------- MODULE MCOperations ---------------------------
(* Small railways on which trains run their timetables.                    *)
EXTENDS Operations, Orderly

CONSTANTS a, b, c, d, f, g, p, q

Route == INSTANCE Planner

(* The planner's answers; nothing is learned here. *)
Routes ==
    [from \in Marker, to \in Marker, heading \in Block \cup {None} |->
        Route!PlanTransit(Declared, from, to, heading)]

MCPlan(edges, from, to, heading) == Routes[from, to, heading]

BothWays(tracks) == tracks \cup {<<e[2], e[1]>> : e \in tracks}

NoPoints == <<>>
NoPosition == [m \in Marker |-> None]
TwoLong == [e \in EdgeRef |-> IF e \in Declared THEN 2 ELSE None]
Equal == [t \in Train |-> 0]
Short == [t \in Train |-> 1]
Long == [t \in Train |-> 2]
NoMarkers == [x \in Device |-> {}]

-----------------------------------------------------------------------------
(* A single line, run both ways, and two trains bound for opposite ends. *)
Line == BothWays({<<a, b>>, <<b, c>>, <<c, d>>, <<d, f>>})
LineTimetable == (p :> <<a, f>>) @@ (q :> <<f, a>>)

(* A ring with a passing loop: at b the points lead to c or to d.  A stop  *)
(* given twice sends planning on to the one after it.                      *)
Loop == {<<a, b>>, <<b, c>>, <<b, d>>, <<c, f>>, <<d, f>>, <<f, g>>, <<g, a>>}
LoopPoints == (<<b, c>> :> "main") @@ (<<b, d>> :> "diverging")
LoopPosition == [m \in Marker |-> IF m = b THEN "main" ELSE None]
LoopTimetable == (p :> <<a, a, c>>) @@ (q :> <<f, d>>)

-----------------------------------------------------------------------------
(* The stop lists that are assigned. *)
Timetables == {Timetable[t] : t \in Train}

(* What the theorems of OperationsProofs ask of a railway is so on these,  *)
(* but for the trains of the single line, which are longer than the        *)
(* farthest that they report to be on a block.                             *)
ASSUME OrderlyRailways ==
    /\ \A t \in Train : Timetable[t] \in Schedules
    /\ PlansAreWays
    /\ LongTrainsOffJunctions
    /\ ShortTrains <=> TrainLength = Short
=============================================================================
