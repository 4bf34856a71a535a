------------------------------ MODULE Orderly -------------------------------
(***************************************************************************)
(* The scheduler in an orderly world: no train is ever held, revoked or    *)
(* forgotten, each reports the blocks it crosses in the order in which it  *)
(* holds them, and every switch says where it was told to go.  Trains      *)
(* whose messages all arrive, and which are shorter than a block, bring    *)
(* about nothing else.                                                     *)
(***************************************************************************)
EXTENDS Scheduler

-----------------------------------------------------------------------------
(* What is asked of the railway.                                           *)

(* A way: blocks that run on from one to the next and come back to no      *)
(* marker.                                                                 *)
IsWay(R) ==
    /\ R \in Seq(Declared)
    /\ \A i \in DOMAIN R : i + 1 \in DOMAIN R => From(R[i + 1]) = To(R[i])
    /\ \A i, j \in DOMAIN R : To(R[i]) = To(R[j]) => i = j
    /\ \A i \in DOMAIN R : To(R[i]) # From(R[1])

IsWayBetween(from, to, R) ==
    R # <<>> /\ IsWay(R) /\ From(R[1]) = from /\ To(R[Len(R)]) = to

(* What is asked of the planner: that a route is a way from where the      *)
(* train is to where it shall go.  planTransit answers with one that       *)
(* starts with the heading only if the heading starts where the train is.  *)
PlansAreWays ==
    \A from, to \in Marker : \A heading \in Block \cup {None} :
        from # to /\ (heading = None \/ From(heading) # from) =>
            LET R == Plan(Declared, from, to, heading)
            IN  R = <<>> \/ IsWayBetween(from, to, R)

(* Every train announces a length, and no timetable starts at a junction:  *)
(* who stands at a junction got there, and has its tail behind it.         *)
LongTrainsOffJunctions ==
    /\ \A t \in Train : TrainLength[t] > 0
    /\ \A stops \in Schedules : stops[1] \notin Junction

(* No train is longer than a block, and every train reports at least once  *)
(* on each block when all of it is on that block.                          *)
ShortTrains ==
    /\ \A e \in Declared : EdgeLength[e] # None
    /\ \A t \in Train, e \in Declared : TrainLength[t] <= EdgeLength[e]
    /\ \E far \in Distances :
          /\ \A mm \in Distances : mm <= far
          /\ \A t \in Train : TrainLength[t] <= far

(* Track is run one way, and branches at points only, each position of     *)
(* which leads on to one block.                                            *)
PointsDecide ==
    \A e, f \in Declared :
        From(e) = From(f) /\ e # f =>
            /\ e \in DOMAIN Switched /\ f \in DOMAIN Switched
            /\ Switched[e] # Switched[f]

(* There is an end to the track, and any train is shorter than any block.  *)
TrainsFitBlocks ==
    /\ IsFiniteSet(Declared)
    /\ \A t \in Train, e \in Declared : TrainLength[t] < EdgeLength[e]

-----------------------------------------------------------------------------
(* Orderly events.                                                         *)

(* The blocks from the head of a train on, as its record r has them.       *)
UnderWay(r) == r.progress \in DOMAIN r.transit
AheadOf(r) == {r.transit[i] : i \in {k \in DOMAIN r.transit : k >= r.progress}}

(* A train passes the marker at the end of a block it holds, when all that *)
(* it holds lies ahead of it.                                              *)
PassesOn(t) ==
    /\ InTransit(t) /\ NextEdge(t) \in cleared[t]
    /\ cleared[t] \subseteq AheadOf(trains[t])
    /\ HandleTrainAtMarker(t, To(NextEdge(t)))

(* A train says which block its head is on: a block that does not start at *)
(* its last marker, or its next one, beyond the length of the train only   *)
(* if it holds it.                                                         *)
OrderlyStatus(t, edge, distance, dwellOver) ==
    /\ \/ edge = None
       \/ trains[t].last # None /\ From(edge) # trains[t].last
       \/ /\ InTransit(t) /\ edge = NextEdge(t)
          /\ trains[t].length = 0 \/ distance < trains[t].length \/ edge \in cleared[t]
    /\ HandleTrainStatus(t, edge, distance, dwellOver)

OrderlyNext ==
    \/ Step
    \/ \E t \in Train :
          \/ t \notin Registered /\ RegisterTrain(t)
          \/ \E stops \in Schedules : trains[t].stops = <<>> /\ AssignSchedule(t, stops)
          \/ PassesOn(t)
          \/ \E edge \in Block \cup {None}, mm \in Distances, dwellOver \in BOOLEAN :
                 OrderlyStatus(t, edge, mm, dwellOver)
    \/ \E j \in Junction :
          \/ RecordSwitchPairing(j)
          \/ requested[j] \notin {None, position[j]} /\ HandleSwitchStateChanged(j, requested[j])

OrderlySpec == Safety /\ [][OrderlyNext]_vars
=============================================================================
