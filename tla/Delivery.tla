------------------------------ MODULE Delivery ------------------------------
(***************************************************************************)
(* The scheduler and the trains and switches it commands, with the message *)
(* broker between them: commands and events wait in one queue per sender   *)
(* and receiver, arrive in order, late, or, where a connection fails, not  *)
(* at all.  A train whose battery dies falls silent where it stands.       *)
(*                                                                         *)
(* The scheduler acts on what it was told; the railway is where it is.     *)
(* What is asked here is whether the two may differ without harm.          *)
(*                                                                         *)
(* Track is run one way: no train of this module obeys grant_reverse.      *)
(* A train reads every marker it passes and its odometry is exact; it      *)
(* stops where it means to.                                                *)
(***************************************************************************)
EXTENDS Scheduler

CONSTANTS
    Timetable,    \* the stops of each train; it starts out at the first
    Room,         \* bound: messages waiting in one queue
    MaxFaults     \* bound: messages lost and batteries dead, all told

ASSUME RailwayAssumption ==
    /\ CanReverse = {}
    /\ Timetable \in [Train -> Seq(Marker) \ {<<>>}]
    /\ Room \in Nat \ {0}
    /\ MaxFaults \in Nat
    /\ \A e \in Declared : EdgeLength[e] \in Nat \ {0}
    /\ \A t \in Train, e \in Declared : TrainLength[t] <= EdgeLength[e]

VARIABLES
    loco,        \* what each train's device believes and does
    body,        \* where each train is
    points,      \* where each junction's points are
    toTrain,     \* commands on their way to each train
    fromTrain,   \* events on their way from each train
    toSwitch,    \* positions on their way to each junction's switch device
    fromSwitch,  \* positions it has confirmed, on their way back
    faults       \* how many faults there were

railVars == <<loco, body, points>>
queueVars == <<toTrain, fromTrain, toSwitch, fromSwitch>>
deliveryVars == <<vars, railVars, queueVars, faults>>

Device0 == [route |-> <<>>, progress |-> 1, distance |-> 0, limit |-> None,
            motion |-> "stopped", powered |-> TRUE]

(* A body spans the block its head is in and the one behind: trains are no *)
(* longer than a block.  The one behind a train that has yet to move is    *)
(* off the map.                                                            *)
DeliveryInit ==
    /\ Init
    /\ loco = [t \in Train |-> Device0]
    /\ body = [t \in Train |-> [at |-> Timetable[t][1], on |-> None, offset |-> 0, rear |-> None]]
    /\ points = InitialPosition
    /\ toTrain = [t \in Train |-> <<>>]
    /\ fromTrain = [t \in Train |-> <<>>]
    /\ toSwitch = [j \in Marker |-> <<>>]
    /\ fromSwitch = [j \in Marker |-> <<>>]
    /\ faults = 0

-----------------------------------------------------------------------------
(* The train's device (ScheduledTrainDevice).                              *)

AssignRoute(route) == [command |-> "assign_route", route |-> route, limit |-> None]
GrantClearance(m)  == [command |-> "grant_clearance", route |-> <<>>, limit |-> m]
Revoke             == [command |-> "revoke_clearance", route |-> <<>>, limit |-> None]

TagObserved(m)     == [event |-> "tag_observed", marker |-> m, edge |-> None, distance |-> 0]
TrainStatus(l)     ==
    [event |-> "train_status", marker |-> None, distance |-> l.distance,
     edge |-> IF l.route = <<>> THEN None ELSE l.route[l.progress]]

(* headIsAtMarker: the head is at m, so far as the device knows. *)
HeadIsAtMarker(l, m) ==
    l.route # <<>> /\ From(l.route[l.progress]) = m /\ l.distance = 0

Stopped(l) == [l EXCEPT !.motion = "stopped"]

(* onGrantClearance *)
OnGrantClearance(l, m) ==
    [l EXCEPT !.limit = m,
              !.motion = IF HeadIsAtMarker(l, m) THEN "stopped" ELSE "forward"]

(* What a command does to a device that has power. *)
Obeyed(l, c) ==
    CASE c.command = "assign_route" ->
            [Stopped(l) EXCEPT !.route = c.route, !.progress = 1, !.distance = 0, !.limit = None]
      [] c.command = "grant_clearance" -> OnGrantClearance(l, c.limit)
      [] c.command = "revoke_clearance" -> [Stopped(l) EXCEPT !.limit = None]

(* Mutant: the train does not stop at the marker it is cleared to.        *)
OnMarkerRunsOn(l, m) ==
    IF l.route # <<>> /\ To(l.route[l.progress]) = m
    THEN [l EXCEPT !.progress = 1 + (@ % Len(l.route)), !.distance = 0]
    ELSE l

(* onMarker: the route is taken for a cycle; a marker that is neither end  *)
(* of the edge the device thinks it is on tells it nothing.                *)
OnMarker(l, m) ==
    LET advanced ==
            IF l.route # <<>> /\ To(l.route[l.progress]) = m
            THEN [l EXCEPT !.progress = 1 + (@ % Len(l.route)), !.distance = 0]
            ELSE IF l.route # <<>> /\ From(l.route[l.progress]) = m
            THEN [l EXCEPT !.distance = 0]
            ELSE l
    IN  IF l.limit = m THEN Stopped(advanced) ELSE advanced

(* The distance driven, never more than the length of the edge, if known. *)
Reckoned(l) ==
    LET length == IF l.route = <<>> THEN None ELSE EdgeLength[l.route[l.progress]] IN
    IF length = None THEN l.distance + 1 ELSE Min({l.distance + 1, length})

(* The way on from marker m, as the points lie, if there is one. *)
WaysOn(m) ==
    {e \in Declared : From(e) = m /\ (e \in DOMAIN Switched => Switched[e] = points[m])}
WayOn(m) == CHOOSE e \in WaysOn(m) : TRUE

(* One turn of step() with the motor running: the head moves on by one     *)
(* unit of length, and at the end of the block a marker is read.           *)
Run(t) ==
    LET l == loco[t]
        block == IF body[t].on = None THEN WayOn(body[t].at) ELSE body[t].on
        m == To(block)
        onward == [l EXCEPT !.distance = Reckoned(l)]
        arrived == OnMarker(l, m)
    IN  /\ l.powered /\ l.motion = "forward"
        /\ body[t].on # None \/ WaysOn(body[t].at) # {}
        /\ Len(fromTrain[t]) + 2 <= Room
        /\ \/ /\ body[t].offset + 1 < EdgeLength[block]
              /\ body' = [body EXCEPT ![t].on = block, ![t].offset = @ + 1]
              /\ loco' = [loco EXCEPT ![t] = onward]
              /\ fromTrain' = [fromTrain EXCEPT ![t] = Append(@, TrainStatus(onward))]
           \/ /\ body[t].offset + 1 = EdgeLength[block]
              /\ body' = [body EXCEPT ![t] = [at |-> m, on |-> None, offset |-> 0, rear |-> block]]
              /\ loco' = [loco EXCEPT ![t] = arrived]
              /\ fromTrain' = [fromTrain EXCEPT
                                  ![t] = @ \o <<TagObserved(m), TrainStatus(arrived)>>]
        /\ UNCHANGED <<vars, points, toTrain, toSwitch, fromSwitch, faults>>

(* The same with the motor stopped: a train that has a route reports all   *)
(* the time.  A repetition of what is still on its way is left out.        *)
Stand(t) ==
    /\ loco[t].powered /\ loco[t].motion = "stopped" /\ loco[t].route # <<>>
    /\ fromTrain[t] = <<>>
    /\ fromTrain' = [fromTrain EXCEPT ![t] = <<TrainStatus(loco[t])>>]
    /\ UNCHANGED <<vars, railVars, toTrain, toSwitch, fromSwitch, faults>>

(* A device without power ignores its commands. *)
Obey(t) ==
    /\ toTrain[t] # <<>>
    /\ toTrain' = [toTrain EXCEPT ![t] = Tail(@)]
    /\ \/ /\ loco[t].powered
          /\ loco' = [loco EXCEPT ![t] = Obeyed(@, Head(toTrain[t]))]
       \/ /\ ~loco[t].powered
          /\ UNCHANGED loco
    /\ UNCHANGED <<vars, body, points, fromTrain, toSwitch, fromSwitch, faults>>

(* The switch throws the points, and says that it did. *)
Throw(j) ==
    /\ toSwitch[j] # <<>>
    /\ toSwitch' = [toSwitch EXCEPT ![j] = Tail(@)]
    /\ points' = [points EXCEPT ![j] = Head(toSwitch[j])]
    /\ fromSwitch' = [fromSwitch EXCEPT ![j] = Append(@, Head(toSwitch[j]))]
    /\ UNCHANGED <<vars, loco, body, toTrain, fromTrain, faults>>

-----------------------------------------------------------------------------
(* The scheduler's end of the queues.                                      *)

(* Where the blocks that train t was granted lie in its route, in order. *)
GrantedAt(t) ==
    LET got == {i \in DOMAIN trains[t].transit : trains[t].transit[i] \in cleared'[t] \ cleared[t]}
    IN  [n \in 1..Cardinality(got) |-> CHOOSE i \in got : Cardinality({k \in got : k <= i}) = n]

(* What a step of the scheduler told train t: its new route, one grant for *)
(* each block it got, in the order of the route, or that a block is taken  *)
(* back.                                                                   *)
Told(t) ==
    LET at == GrantedAt(t)
    IN  (IF ~Idle /\ Head(agenda) = PlanTask(t) /\ agenda' # <<>> /\ Head(agenda') = ExtendTask(t)
         THEN <<AssignRoute(trains'[t].transit)>> ELSE <<>>)
        \o [n \in DOMAIN at |-> GrantClearance(To(trains[t].transit[at[n]]))]
        \o (IF Resolving /\ cleared'[t] # cleared[t] THEN <<Revoke>> ELSE <<>>)

Schedule ==
    /\ Step
    /\ toTrain' = [t \in Train |-> toTrain[t] \o Told(t)]
    /\ toSwitch' = [j \in Marker |-> IF requested'[j] = requested[j] THEN toSwitch[j]
                                     ELSE Append(toSwitch[j], requested'[j])]
    /\ UNCHANGED <<railVars, fromTrain, fromSwitch, faults>>

(* An event is taken from the front of a queue.  A report that contradicts *)
(* the graph revokes the train's clearance.                                *)
Receive(t, dwellOver) ==
    /\ fromTrain[t] # <<>>
    /\ LET e == Head(fromTrain[t]) IN
        \/ /\ e.event = "tag_observed"
           /\ HandleTopologyViolation(t, e.marker)
           /\ toTrain' = [toTrain EXCEPT ![t] = Append(@, Revoke)]
        \/ /\ e.event = "tag_observed"
           /\ HandleTrainAtMarker(t, e.marker)
           /\ UNCHANGED toTrain
        \/ /\ e.event = "train_status"
           /\ HandleTrainStatus(t, e.edge, e.distance, dwellOver)
           /\ UNCHANGED toTrain
    /\ fromTrain' = [fromTrain EXCEPT ![t] = Tail(@)]
    /\ UNCHANGED <<railVars, toSwitch, fromSwitch, faults>>

Confirmed(j) ==
    /\ fromSwitch[j] # <<>>
    /\ HandleSwitchStateChanged(j, Head(fromSwitch[j]))
    /\ fromSwitch' = [fromSwitch EXCEPT ![j] = Tail(@)]
    /\ UNCHANGED <<railVars, toTrain, fromTrain, toSwitch, faults>>

(* Trains and switches arrive, and each train is given its timetable once. *)
Start ==
    /\ \/ \E t \in Train : t \notin Registered /\ RegisterTrain(t)
       \/ \E j \in Junction : j \notin paired /\ RecordSwitchPairing(j)
       \/ \E t \in Train : trains[t].stops = <<>> /\ paired = Junction
                           /\ AssignSchedule(t, Timetable[t])
    /\ UNCHANGED <<railVars, queueVars, faults>>

-----------------------------------------------------------------------------
(* Faults.                                                                 *)

Fault == faults < MaxFaults /\ faults' = faults + 1

(* Trains and switches subscribe, and publish, at most once per message. *)
Lose ==
    /\ Fault
    /\ \/ \E t \in Train :
            /\ toTrain[t] # <<>>
            /\ toTrain' = [toTrain EXCEPT ![t] = Tail(@)]
            /\ UNCHANGED <<fromTrain, toSwitch, fromSwitch>>
       \/ \E t \in Train :
            /\ fromTrain[t] # <<>>
            /\ fromTrain' = [fromTrain EXCEPT ![t] = Tail(@)]
            /\ UNCHANGED <<toTrain, toSwitch, fromSwitch>>
       \/ \E j \in Junction :
            /\ toSwitch[j] # <<>>
            /\ toSwitch' = [toSwitch EXCEPT ![j] = Tail(@)]
            /\ UNCHANGED <<toTrain, fromTrain, fromSwitch>>
       \/ \E j \in Junction :
            /\ fromSwitch[j] # <<>>
            /\ fromSwitch' = [fromSwitch EXCEPT ![j] = Tail(@)]
            /\ UNCHANGED <<toTrain, fromTrain, toSwitch>>
    /\ UNCHANGED <<vars, railVars>>

(* power(false) *)
PowerOff(t) ==
    /\ Fault
    /\ loco[t].powered
    /\ loco' = [loco EXCEPT ![t] = [Stopped(@) EXCEPT !.powered = FALSE]]
    /\ UNCHANGED <<vars, body, points, queueVars>>

(* power(true): the train resumes toward the limit it last heard of. *)
PowerOn(t) ==
    /\ ~loco[t].powered
    /\ LET l == [loco[t] EXCEPT !.powered = TRUE] IN
        loco' = [loco EXCEPT
            ![t] = IF l.limit = None \/ HeadIsAtMarker(l, l.limit) THEN l
                   ELSE [l EXCEPT !.motion = "forward"]]
    /\ UNCHANGED <<vars, body, points, queueVars, faults>>

-----------------------------------------------------------------------------
DeliveryNext ==
    \/ Schedule
    \/ \E t \in Train :
          \/ Run(t) \/ Stand(t) \/ Obey(t)
          \/ \E dwellOver \in BOOLEAN : Receive(t, dwellOver)
    \/ \E j \in Junction : Throw(j) \/ Confirmed(j)
    \/ Start
    \/ Lose
    \/ \E t \in Train : PowerOff(t)

DeliverySpec == DeliveryInit /\ [][DeliveryNext]_deliveryVars

(* The same with batteries that are changed. *)
PowerCycleSpec ==
    DeliveryInit /\ [][DeliveryNext \/ \E t \in Train : PowerOn(t)]_deliveryVars

-----------------------------------------------------------------------------
(* The blocks under train t: the one its head is in, and the one behind,   *)
(* until it has drawn clear of it.                                         *)
Under(t) ==
    ({body[t].on} \cup IF body[t].offset < TrainLength[t] THEN {body[t].rear} ELSE {}) \ {None}

(* The first n blocks of the way from marker m, as the points lie. *)
WayFrom(m, n) ==
    LET way[i \in 1..n] == IF i = 1 THEN WayOn(m) ELSE WayOn(To(way[i - 1])) IN way

(* Marker x is reached from m, as the points lie, over blocks held for t. *)
HeldAllTheWay(t, m, x) ==
    \E n \in 0..Cardinality(Declared) :
        LET way == WayFrom(m, n) IN
        /\ x = IF n = 0 THEN m ELSE To(way[n])
        /\ Range(way) \subseteq cleared[t]

(* Every train stays on its own track, however late the scheduler learns   *)
(* where it is and however late the train learns what it may do (ADR-002,  *)
(* ADR-012): the blocks under it, from its head to its tail, are held for  *)
(* it.  A lost message, or a train that has died, costs time, never ground. *)
StaysOnItsTrack == \A t \in Train : Under(t) \subseteq cleared[t]

(* Clearance, not commands (scheduled-train-device.ts): a train whose      *)
(* motor runs is on its way to a limit, and the points lead there over     *)
(* blocks that are all held for it.                                        *)
LimitIsBacked ==
    \A t \in Train : loco[t].motion = "forward" =>
        /\ loco[t].limit # None
        /\ HeldAllTheWay(t, IF body[t].on = None THEN body[t].at ELSE To(body[t].on), loco[t].limit)

(* What a train has crossed unreported stays held (ADR-019): between the   *)
(* marker the scheduler last had from it and the marker its head has       *)
(* really passed lies nothing that another train could be granted.         *)
UncertainRegionHeld ==
    \A t \in Train : trains[t].last # None =>
        HeldAllTheWay(t, trains[t].last, body[t].at)
=============================================================================
