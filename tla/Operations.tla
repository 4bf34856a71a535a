---------------------------- MODULE Operations -----------------------------
(***************************************************************************)
(* The scheduler at work in an orderly world: trains keep to their         *)
(* clearance and report truthfully, operators assign each train its        *)
(* timetable once, switches do as they are told.  Only the order in which  *)
(* things happen is free.  What goes wrong here is the scheduler's doing.  *)
(*                                                                         *)
(* Commands reach a device at once.  A train's device drives its route and *)
(* obeys its limit as scheduled-train-device.ts does.                      *)
(***************************************************************************)
EXTENDS Scheduler

CONSTANTS
    Timetable,    \* the stops of each train; it starts out at the first
    MemoryLength  \* bound: how many crossed blocks are remembered

ASSUME TimetableAssumption ==
    /\ Timetable \in [Train -> Seq(Marker) \ {<<>>}]
    /\ MemoryLength \in Nat
    /\ Distances # {}

VARIABLES
    behind,   \* the blocks each train has crossed, latest last
    ahead,    \* the blocks it has backed out of and must cross again
    offset    \* how far its head is past its last marker

worldVars == <<behind, ahead, offset>>
opsVars == <<vars, worldVars>>

OpsInit ==
    /\ Init
    /\ behind = [t \in Train |-> <<>>]
    /\ ahead = [t \in Train |-> <<>>]
    /\ offset = [t \in Train |-> 0]

-----------------------------------------------------------------------------
(* The train.                                                              *)

(* Its clearance limit lies ahead: the route's next edge has been granted, *)
(* and not revoked since.                                                  *)
MayMove(t) == InTransit(t) /\ ~held[t] /\ NextEdge(t) \in cleared[t]

NextTrack(t) == IF ahead[t] = <<>> THEN NextEdge(t) ELSE Head(ahead[t])

(* The edge the device believes its head is on: it takes its route for a   *)
(* cycle, and after the last edge it is on the first again (advanceEdge).  *)
CurrentEdge(t) ==
    LET route == trains[t].transit IN
    IF route = <<>> THEN None ELSE route[1 + ((trains[t].progress - 1) % Len(route))]

Remember(t, e) ==
    LET crossed == Append(behind[t], e) IN
    behind' = [behind EXCEPT ![t] =
                  SubSeq(crossed, 1 + Max({0, Len(crossed) - MemoryLength}), Len(crossed))]

(* The device reports all along the edge: no marker comes before the last  *)
(* of those reports.                                                       *)
Drive(t) ==
    /\ MayMove(t)
    /\ offset[t] = Max(Distances)
    /\ MarkerReport(t, To(NextTrack(t)))
    /\ Remember(t, NextTrack(t))
    /\ ahead' = [ahead EXCEPT ![t] = IF @ = <<>> THEN @ ELSE Tail(@)]
    /\ offset' = [offset EXCEPT ![t] = 0]

Status(t, mm, dwellOver) ==
    /\ IF MayMove(t) THEN mm > offset[t] ELSE mm = 0
    /\ HandleTrainStatus(t, CurrentEdge(t), mm, dwellOver)
    /\ offset' = [offset EXCEPT ![t] = mm]
    /\ UNCHANGED <<behind, ahead>>

(* A step of the scheduler; a train that can obeys grant_reverse.          *)
Schedule ==
    /\ Step
    /\ LET backed == {t \in CanReverse : trains'[t].last # trains[t].last}
           from(t) == Max({i \in DOMAIN behind[t] : From(behind[t][i]) = trains'[t].last} \cup {1})
       IN  /\ behind' = [t \in Train |-> IF t \notin backed THEN behind[t]
                                         ELSE SubSeq(behind[t], 1, from(t) - 1)]
           /\ ahead' = [t \in Train |-> IF t \notin backed THEN ahead[t]
                                        ELSE SubSeq(behind[t], from(t), Len(behind[t])) \o ahead[t]]
    /\ UNCHANGED offset

-----------------------------------------------------------------------------
(* Everybody else.                                                         *)

Arrive(t) == t \notin Registered /\ RegisterTrain(t)

(* Timetables wait until every switch is there. *)
Assign(t) ==
    /\ trains[t].stops = <<>>
    /\ paired = Junction
    /\ AssignSchedule(t, Timetable[t])

Pair(j) == j \notin paired /\ RecordSwitchPairing(j)

(* The switch moves to where it was last told, and says so. *)
Confirm(j) ==
    /\ j \in paired
    /\ requested[j] \notin {None, position[j]}
    /\ HandleSwitchStateChanged(j, requested[j])

OpsNext ==
    \/ Schedule
    \/ \E t \in Train :
          \/ Drive(t)
          \/ \E mm \in Distances, dwellOver \in BOOLEAN : Status(t, mm, dwellOver)
          \/ (Arrive(t) \/ Assign(t)) /\ UNCHANGED worldVars
    \/ \E j \in Junction : (Pair(j) \/ Confirm(j)) /\ UNCHANGED worldVars

(* Handlers run to completion.  Every event that keeps on being there to   *)
(* be taken is taken in the end, although handlers run in between: events  *)
(* are queued in order, and nobody's are dropped.                          *)
Fairness ==
    /\ WF_opsVars(Schedule)
    /\ \A t \in Train :
          /\ SF_opsVars(Arrive(t) /\ UNCHANGED worldVars)
          /\ SF_opsVars(Assign(t) /\ UNCHANGED worldVars)
          /\ SF_opsVars(Drive(t))
          /\ SF_opsVars(\E mm \in Distances : Status(t, mm, TRUE))
    /\ \A j \in Junction :
          /\ SF_opsVars(Pair(j) /\ UNCHANGED worldVars)
          /\ SF_opsVars(Confirm(j) /\ UNCHANGED worldVars)

OpsSpec == OpsInit /\ [][OpsNext]_opsVars /\ Fairness

-----------------------------------------------------------------------------
(* The blocks under train t: the one its head has entered, and those that  *)
(* its length reaches back over.                                           *)
DistanceBehind(t, i) ==
    offset[t] + MapThenSumSet(LAMBDA k : EdgeLength[behind[t][k]], (i + 1)..Len(behind[t]))

Occupied(t) ==
    {behind[t][i] : i \in {k \in DOMAIN behind[t] : DistanceBehind(t, k) < trains[t].length}}
    \cup (IF offset[t] > 0 /\ InTransit(t) THEN {NextTrack(t)} ELSE {})

(* A train stands on no track but its own (ADR-012): every block under it  *)
(* is one it holds, so that block exclusivity keeps the others away.  Tail *)
(* releases, planning, yields and reverses must all respect it.            *)
TrackUnderTrainIsHeld == Idle => \A t \in Train : Occupied(t) \subseteq cleared[t]

(* The points stay as they are under a train (maybeActuateSwitch): as long *)
(* as a train holds an edge it has yet to cross, the junction's points are *)
(* set for it.                                                             *)
PointsSetForHolder ==
    \A t \in Train : \A i \in DOMAIN trains[t].transit :
        LET e == trains[t].transit[i] IN
        (i >= trains[t].progress /\ e \in cleared[t] /\ e \in DOMAIN Switched)
            => position[From(e)] = Switched[e]

(* Held clearance has no holes (extendClearanceHorizon): what a train      *)
(* holds of the way ahead of it starts at its head.                        *)
ContiguousAhead ==
    \A t \in Train : \A i \in DOMAIN trains[t].transit :
        (i >= trains[t].progress /\ trains[t].transit[i] \in cleared[t]) =>
            \A k \in trains[t].progress..i : trains[t].transit[k] \in cleared[t]

(* No lost wakeup (retryBlockedClearances): when no handler is running, no *)
(* train waits for an edge it could have.  Whatever frees an edge, or      *)
(* makes one passable, must lead to a pass over the trains.                *)
NobodyForgotten ==
    Idle => \A t \in CollectWaitingTrains : ~Grantable(t, NextEdge(t))

(* Everybody gets there: each train calls at a stop of its timetable again *)
(* and again.                                                              *)
KeepsCalling == \A t \in Train : []<>(trains[t].dwelling)
=============================================================================
