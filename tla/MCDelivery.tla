----------------------------- MODULE MCDelivery -----------------------------
(* Two trains on a ring with a branch, both bound for a stop on the main.  *)
EXTENDS Delivery, Orderly

CONSTANTS a, b, c, d, f, g, p, q

Route == INSTANCE Planner

Routes ==
    [from \in Marker, to \in Marker, heading \in Block \cup {None} |->
        Route!PlanTransit(Declared, from, to, heading)]

MCPlan(edges, from, to, heading) == Routes[from, to, heading]

(* At b the points lead to c or, as they lie at first, to d. *)
Ring == {<<a, b>>, <<b, c>>, <<b, d>>, <<c, f>>, <<d, f>>, <<f, g>>, <<g, a>>}
RingPoints == (<<b, c>> :> "main") @@ (<<b, d>> :> "diverging")
RingPosition == [m \in Marker |-> IF m = b THEN "diverging" ELSE None]
RingTimetable == (p :> <<a, c>>) @@ (q :> <<f, c>>)

(* What a train reports after one report was lost. *)
Skipping == {r \in Marker \X Marker : \E m \in Marker : <<r[1], m>> \in Ring /\ <<m, r[2]>> \in Ring}
RingReports == Ring \cup Skipping

TwoLong == [e \in EdgeRef |-> IF e \in Declared THEN 2 ELSE None]
Equal == [t \in Train |-> 0]
Short == [t \in Train |-> 1]
NoMarkers == [x \in Device |-> {}]
Timetables == {Timetable[t] : t \in Train}

(* What MessagesMayBeLate of DeliveryProofs asks of a railway is so on this one. *)
ASSUME PunctualRailway ==
    /\ \A t \in Train : Timetable[t] \in Schedules
    /\ PlansAreWays
    /\ LongTrainsOffJunctions
    /\ PointsDecide
    /\ TrainsFitBlocks
=============================================================================
