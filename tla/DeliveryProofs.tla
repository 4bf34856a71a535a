--------------------------- MODULE DeliveryProofs ---------------------------
(***************************************************************************)
(* With a broker between scheduler and railway, and whatever it loses, the *)
(* scheduler still only meets events it must be able to meet: everything   *)
(* proved of it holds of the railway that runs by message.  If what is     *)
(* lost is never a report or a route, trains are besides where they may    *)
(* be: on blocks that are held for them, however late messages are.        *)
(***************************************************************************)
EXTENDS Delivery, OrderlyProofs

(* What trains are given for a timetable, and how far they may say to have *)
(* come, is among what the scheduler is modelled to be told.               *)
InputsCovered ==
    /\ Nat \subseteq Distances
    /\ \A t \in Train : Timetable[t] \in Schedules

-----------------------------------------------------------------------------
(* What is on the rails, in the devices and in the queues.  Limits are     *)
(* left open: what a train makes of one does not get back to the scheduler. *)

LocoOK(l) ==
    /\ l \in [route : Seq(Block), progress : Nat, distance : Nat, limit : {l.limit},
              motion : {"stopped", "forward"}, powered : BOOLEAN]
    /\ l.route # <<>> => l.progress \in DOMAIN l.route

CommandOK(c) ==
    c \in [command : {"assign_route", "grant_clearance", "revoke_clearance"},
           route : Seq(Block), limit : {c.limit}]

Commands(q) ==
    /\ q \in Seq(Range(q))
    /\ \A i \in DOMAIN q : CommandOK(q[i])

Report ==
    [event : {"tag_observed"}, marker : Marker, edge : {None}, distance : {0}]
    \cup [event : {"train_status"}, marker : {None}, edge : Block \cup {None}, distance : Nat]

TrainsTyped ==
    /\ loco = [t \in Train |-> loco[t]] /\ \A t \in Train : LocoOK(loco[t])
    /\ toTrain = [t \in Train |-> toTrain[t]] /\ \A t \in Train : Commands(toTrain[t])
    /\ fromTrain \in [Train -> Seq(Report)]

Body == [at : Marker, on : Declared \cup {None}, offset : Nat, rear : Declared \cup {None}]

RailsTyped ==
    /\ body \in [Train -> Body]
    /\ toSwitch \in [Marker -> Seq(Position)]
    /\ fromSwitch \in [Marker -> Seq(Position)]

DeliveryTypeOK == TrainsTyped /\ RailsTyped

-----------------------------------------------------------------------------
(* Queues.                                                                 *)

(* A sequence is one of its own values. *)
LEMMA OwnValues ==
    ASSUME NEW S, NEW q \in Seq(S)
    PROVE  q \in Seq(Range(q))
<1>1. PICK n \in Nat : q \in [1..n -> S]
  BY SeqDef
<1>2. q \in [1..n -> Range(q)]
  BY <1>1 DEF Range
<1> QED
  BY <1>2, SeqDef

(* Commands on top of commands are commands. *)
LEMMA CommandsJoin ==
    ASSUME NEW q, NEW r, Commands(q), Commands(r)
    PROVE  Commands(q \o r)
<1> DEFINE S == Range(q) \cup Range(r)
<1>1. q \in Seq(S) /\ r \in Seq(S)
  BY SeqMonotonic DEF Commands
<1>2. /\ q \o r \in Seq(S)
      /\ DOMAIN (q \o r) = 1..Len(q) + Len(r)
      /\ \A i \in DOMAIN (q \o r) : (q \o r)[i] = IF i <= Len(q) THEN q[i] ELSE r[i - Len(q)]
  BY <1>1, ConcatProperties
<1>3. ASSUME NEW i \in DOMAIN (q \o r)
      PROVE  CommandOK((q \o r)[i])
  <2>1. CASE i <= Len(q)
    BY <1>1, <1>2, <2>1 DEF Commands
  <2>2. CASE i > Len(q)
    <3>1. i - Len(q) \in DOMAIN r
      BY <1>1, <1>2, <2>2
    <3> QED
      BY <1>1, <1>2, <2>2, <3>1 DEF Commands
  <2> QED
    BY <1>1, <1>2, <2>1, <2>2
<1>4. q \o r \in Seq(Range(q \o r))
  BY <1>2, OwnValues
<1> QED
  BY <1>3, <1>4 DEF Commands

(* What is left of them is. *)
LEMMA CommandsLeft ==
    ASSUME NEW q, Commands(q), q # <<>>
    PROVE  CommandOK(Head(q)) /\ Commands(Tail(q))
<1>1. q \in Seq(Range(q)) /\ Len(q) > 0 /\ 1 \in DOMAIN q /\ Head(q) = q[1]
  BY DEF Commands
<1>2. /\ Tail(q) \in Seq(Range(q)) /\ DOMAIN Tail(q) = 1..Len(q) - 1
      /\ \A i \in DOMAIN Tail(q) : Tail(q)[i] = q[i + 1] /\ i + 1 \in DOMAIN q
  BY <1>1
<1>3. Tail(q) \in Seq(Range(Tail(q)))
  BY <1>2, OwnValues
<1> QED
  BY <1>1, <1>2, <1>3 DEF Commands

(* Each command by itself. *)
LEMMA OneCommand ==
    /\ Commands(<<>>)
    /\ \A route \in Seq(Block) : Commands(<<AssignRoute(route)>>)
    /\ Commands(<<Revoke>>)
<1>1. Commands(<<>>)
  BY DEF Commands, Range
<1>2. ASSUME NEW c, CommandOK(c)
      PROVE  Commands(<<c>>)
  BY <1>2 DEF Commands, Range
<1>3. CommandOK(Revoke)
  BY DEF CommandOK, Revoke
<1>4. \A route \in Seq(Block) : CommandOK(AssignRoute(route))
  BY DEF CommandOK, AssignRoute
<1> QED
  BY <1>1, <1>2, <1>3, <1>4

(* The grants of a step are commands. *)
LEMMA GrantsAreCommands ==
    ASSUME TypeOK, NEW t \in Train
    PROVE  Commands([n \in DOMAIN GrantedAt(t) |->
                        GrantClearance(To(trains[t].transit[GrantedAt(t)[n]]))])
<1> DEFINE got == {i \in DOMAIN trains[t].transit :
                      trains[t].transit[i] \in cleared'[t] \ cleared[t]}
           q == [n \in DOMAIN GrantedAt(t) |->
                    GrantClearance(To(trains[t].transit[GrantedAt(t)[n]]))]
<1>1. trains[t].transit \in Seq(Block)
  BY DEF TypeOK, TrainsOK, TrainState
<1>2. IsFiniteSet(got)
  <2>1. IsFiniteSet(1..Len(trains[t].transit))
    BY <1>1, FS_Interval
  <2> QED
    BY <1>1, <2>1, FS_Subset
<1>3. Cardinality(got) \in Nat
  BY <1>2, FS_CardinalityType
<1>4. DOMAIN GrantedAt(t) = 1..Cardinality(got)
  BY DEF GrantedAt
<1>5. q \in [1..Cardinality(got) -> Range(q)]
  BY <1>4 DEF Range
<1>6. \A n \in DOMAIN q : CommandOK(q[n])
  BY DEF CommandOK, GrantClearance
<1> HIDE DEF got, q
<1>7. q \in Seq(Range(q))
  BY <1>3, <1>5, SeqDef
<1>8. Commands(q)
  BY <1>6, <1>7 DEF Commands
<1> QED
  BY <1>8 DEF q

-----------------------------------------------------------------------------
(* The devices.                                                            *)

(* The edge that a device believes its head is on is a block. *)
LEMMA BelievedBlock ==
    ASSUME NEW l, LocoOK(l), l.route # <<>>
    PROVE  l.route[l.progress] \in Block
  BY DEF LocoOK

(* What it reports is a report. *)
LEMMA StatusIsReport ==
    ASSUME NEW l, LocoOK(l)
    PROVE  TrainStatus(l) \in Report
<1>1. l.distance \in Nat
  BY DEF LocoOK
<1> QED
  BY <1>1, BelievedBlock DEF TrainStatus, Report

(* Stopping changes nothing else. *)
LEMMA StoppedTyped ==
    ASSUME NEW l, LocoOK(l)
    PROVE  LocoOK(Stopped(l)) /\ Stopped(l).route = l.route /\ Stopped(l).progress = l.progress
  BY DEF LocoOK, Stopped

(* Dead reckoning and markers keep a device's record in shape. *)
LEMMA ReckonedTyped ==
    ASSUME NEW l, LocoOK(l)
    PROVE  LocoOK([l EXCEPT !.distance = Reckoned(l)])
<1>1. Reckoned(l) \in Nat
  <2> DEFINE length == IF l.route = <<>> THEN None ELSE EdgeLength[l.route[l.progress]]
  <2>1. l.distance \in Nat
    BY DEF LocoOK
  <2>2. length = None \/ length \in Nat
    BY BelievedBlock, LayoutAssumption
  <2>3. \A m, n \in Nat : Min({m, n}) \in Nat
    BY DEF Min
  <2> QED
    BY <2>1, <2>2, <2>3 DEF Reckoned
<1> QED
  BY <1>1 DEF LocoOK

(* A marker moves the device on to a block of its route, or leaves it.     *)
LEMMA OnMarkerTyped ==
    ASSUME NEW l, LocoOK(l), NEW m
    PROVE  LocoOK(OnMarker(l, m))
<1> DEFINE next == 1 + (l.progress % Len(l.route))
<1>1. l.route # <<>> => next \in DOMAIN l.route /\ next \in Nat
  BY DEF LocoOK
<1>2. l.route # <<>> => LocoOK([l EXCEPT !.progress = next, !.distance = 0])
  BY <1>1 DEF LocoOK
<1>3. LocoOK([l EXCEPT !.distance = 0])
  BY DEF LocoOK
<1> HIDE DEF next
<1>4. \A k : LocoOK(k) => LocoOK(Stopped(k))
  BY StoppedTyped
<1> QED
  BY <1>2, <1>3, <1>4 DEF OnMarker, next

(* So does obeying a command. *)
LEMMA ObeyedTyped ==
    ASSUME NEW l, LocoOK(l), NEW c, CommandOK(c)
    PROVE  LocoOK(Obeyed(l, c))
<1>1. CASE c.command = "assign_route"
  <2>1. c.route \in Seq(Block) /\ (c.route # <<>> => 1 \in DOMAIN c.route)
    BY DEF CommandOK
  <2> QED
    BY <1>1, <2>1 DEF Obeyed, LocoOK, Stopped
<1>2. CASE c.command = "grant_clearance"
  BY <1>2 DEF Obeyed, LocoOK, OnGrantClearance
<1>3. CASE c.command = "revoke_clearance"
  BY <1>3 DEF Obeyed, LocoOK, Stopped
<1> QED
  BY <1>1, <1>2, <1>3 DEF CommandOK

-----------------------------------------------------------------------------
(* Every step keeps the types of what is under way.                        *)

(* A train's queue and its device's record may change, for the better. *)
LEMMA OneTrainTyped ==
    ASSUME TrainsTyped, NEW t \in Train,
           NEW l, LocoOK(l), NEW c, Commands(c), NEW e \in Seq(Report),
           loco' = [loco EXCEPT ![t] = l],
           toTrain' = [toTrain EXCEPT ![t] = c],
           fromTrain' = [fromTrain EXCEPT ![t] = e]
    PROVE  TrainsTyped'
  BY DEF TrainsTyped

(* A head that moves on within a block is still somewhere. *)
LEMMA HeadMoves ==
    ASSUME NEW b \in Body, NEW x \in Declared
    PROVE  [b EXCEPT !.on = x, !.offset = @ + 1] \in Body
<1>1. \A n \in Nat : [b EXCEPT !.on = x, !.offset = n] \in Body
  BY DEF Body
<1>2. b.offset + 1 \in Nat
  BY DEF Body
<1> QED
  BY <1>1, <1>2

(* A train that runs enters declared track, and reports what is in shape.  *)
LEMMA RunTyped ==
    ASSUME DeliveryTypeOK, NEW t \in Train, Run(t)
    PROVE  DeliveryTypeOK'
<1> DEFINE l == loco[t]
           block == IF body[t].on = None THEN WayOn(body[t].at) ELSE body[t].on
           onward == [l EXCEPT !.distance = Reckoned(l)]
           arrived == OnMarker(l, To(block))
<1>1. LocoOK(l) /\ Commands(toTrain[t]) /\ fromTrain[t] \in Seq(Report)
  BY DEF DeliveryTypeOK, TrainsTyped
<1>2. block \in Declared /\ To(block) \in Marker
  <2>1. body[t].on \in Declared \cup {None}
    BY DEF DeliveryTypeOK, RailsTyped, Body
  <2>2. WaysOn(body[t].at) # {} => WayOn(body[t].at) \in Declared
    BY DEF WayOn, WaysOn
  <2> QED
    BY <2>1, <2>2, BlockEnds DEF Run, Block
<1>3. LocoOK(onward) /\ LocoOK(arrived)
  BY <1>1, ReckonedTyped, OnMarkerTyped
<1>4. /\ TrainStatus(onward) \in Report /\ TrainStatus(arrived) \in Report
      /\ TagObserved(To(block)) \in Report
  BY <1>2, <1>3, StatusIsReport DEF TagObserved, Report
<1> HIDE DEF l, block, onward, arrived
<1>5. CASE /\ body' = [body EXCEPT ![t].on = block, ![t].offset = @ + 1]
           /\ loco' = [loco EXCEPT ![t] = onward]
           /\ fromTrain' = [fromTrain EXCEPT ![t] = Append(@, TrainStatus(onward))]
  <2>1. Append(fromTrain[t], TrainStatus(onward)) \in Seq(Report)
    BY <1>1, <1>4
  <2>2. fromTrain' = [fromTrain EXCEPT ![t] = Append(fromTrain[t], TrainStatus(onward))]
    BY <1>5
  <2>3. toTrain' = [toTrain EXCEPT ![t] = toTrain[t]] /\ UNCHANGED <<toSwitch, fromSwitch>>
    BY DEF Run, DeliveryTypeOK, TrainsTyped
  <2>4. TrainsTyped'
    BY <1>1, <1>3, <1>5, <2>1, <2>2, <2>3, OneTrainTyped DEF DeliveryTypeOK
  <2>5. RailsTyped'
    <3>1. body \in [Train -> Body] /\ body[t] \in Body
      BY DEF DeliveryTypeOK, RailsTyped
    <3>2. [body[t] EXCEPT !.on = block, !.offset = @ + 1] \in Body
      BY <1>2, <3>1, HeadMoves
    <3>3. body' = [body EXCEPT ![t] = [body[t] EXCEPT !.on = block, !.offset = @ + 1]]
      BY <1>5, <3>1
    <3>4. body' \in [Train -> Body]
      BY <3>1, <3>2, <3>3
    <3> QED
      BY <2>3, <3>4 DEF DeliveryTypeOK, RailsTyped
  <2> QED
    BY <2>4, <2>5 DEF DeliveryTypeOK
<1>6. CASE /\ body' = [body EXCEPT ![t] =
                          [at |-> To(block), on |-> None, offset |-> 0, rear |-> block]]
           /\ loco' = [loco EXCEPT ![t] = arrived]
           /\ fromTrain' = [fromTrain EXCEPT
                              ![t] = @ \o <<TagObserved(To(block)), TrainStatus(arrived)>>]
  <2> DEFINE said == <<TagObserved(To(block)), TrainStatus(arrived)>>
  <2>1. said \in Seq(Report)
    BY <1>4
  <2>2. fromTrain[t] \o said \in Seq(Report)
    BY <1>1, <2>1, ConcatProperties
  <2>3. fromTrain' = [fromTrain EXCEPT ![t] = fromTrain[t] \o said]
    BY <1>6
  <2>4. toTrain' = [toTrain EXCEPT ![t] = toTrain[t]] /\ UNCHANGED <<toSwitch, fromSwitch>>
    BY DEF Run, DeliveryTypeOK, TrainsTyped
  <2> HIDE DEF said
  <2>5. TrainsTyped'
    BY <1>1, <1>3, <1>6, <2>2, <2>3, <2>4, OneTrainTyped DEF DeliveryTypeOK
  <2>6. RailsTyped'
    BY <1>2, <1>6, <2>4 DEF DeliveryTypeOK, RailsTyped, Body
  <2> QED
    BY <2>5, <2>6 DEF DeliveryTypeOK
<1> QED
  BY <1>5, <1>6 DEF Run, l, block, onward, arrived

(* A train that stands, or obeys. *)
LEMMA StandTyped ==
    ASSUME DeliveryTypeOK, NEW t \in Train, Stand(t)
    PROVE  DeliveryTypeOK'
<1>1. TrainStatus(loco[t]) \in Report
  BY StatusIsReport DEF DeliveryTypeOK, TrainsTyped
<1> QED
  BY <1>1 DEF Stand, railVars, DeliveryTypeOK, TrainsTyped, RailsTyped

(* A train that takes a command off its queue.                             *)
LEMMA ObeyTyped ==
    ASSUME DeliveryTypeOK, NEW t \in Train, Obey(t)
    PROVE  DeliveryTypeOK'
<1>1. LocoOK(loco[t]) /\ Commands(toTrain[t]) /\ toTrain[t] # <<>>
  BY DEF DeliveryTypeOK, TrainsTyped, Obey
<1>2. CommandOK(Head(toTrain[t])) /\ Commands(Tail(toTrain[t]))
  BY <1>1, CommandsLeft
<1>3. LocoOK(Obeyed(loco[t], Head(toTrain[t])))
  BY <1>1, <1>2, ObeyedTyped
<1>4. PICK l : LocoOK(l) /\ loco' = [loco EXCEPT ![t] = l]
  BY <1>1, <1>3 DEF Obey, DeliveryTypeOK, TrainsTyped
<1>5. TrainsTyped'
  BY <1>2, <1>4 DEF Obey, DeliveryTypeOK, TrainsTyped
<1> QED
  BY <1>5 DEF Obey, DeliveryTypeOK, RailsTyped

(* The points are thrown, which sends positions back. *)
LEMMA ThrowTyped ==
    ASSUME DeliveryTypeOK, NEW j \in Junction, Throw(j)
    PROVE  DeliveryTypeOK'
<1>1. j \in Marker
  BY BlockEnds, LayoutAssumption DEF Junction, Block
<1>2. Head(toSwitch[j]) \in Position /\ Tail(toSwitch[j]) \in Seq(Position)
  BY <1>1 DEF Throw, DeliveryTypeOK, RailsTyped
<1>3. RailsTyped'
  BY <1>1, <1>2 DEF Throw, DeliveryTypeOK, RailsTyped
<1> QED
  BY <1>3 DEF Throw, DeliveryTypeOK, TrainsTyped

-----------------------------------------------------------------------------
(* The scheduler's end.                                                    *)

(* What it asks of a switch is a position. *)
LEMMA AskedPositions ==
    ASSUME TypeOK, Step, NEW j \in Marker, requested'[j] # requested[j]
    PROVE  requested'[j] \in Position
<1>1. PICK t \in Train : ExtendClearanceHorizon(t)
  BY WalksThrow
<1>2. PICK h \in HORIZON_EDGES..HORIZON_MAX_EDGES :
        requested' = [m \in Marker |->
                        IF \E e \in SwitchesToThrow(t, h) : From(e) = m
                        THEN Switched[CHOOSE e \in SwitchesToThrow(t, h) : From(e) = m]
                        ELSE requested[m]]
  BY <1>1 DEF ExtendClearanceHorizon
<1> DEFINE x == CHOOSE e \in SwitchesToThrow(t, h) : From(e) = j
<1>3. x \in SwitchesToThrow(t, h) /\ requested'[j] = Switched[x]
  BY <1>2
<1> HIDE DEF x
<1> QED
  BY <1>3 DEF SwitchesToThrow, MustThrowSwitch, EdgeRequiresMismatchedSwitch, Position, Range

(* What the scheduler sends are commands and positions.                    *)
LEMMA ScheduleTyped ==
    ASSUME TypeOK, TypeOK', DeliveryTypeOK, Schedule
    PROVE  DeliveryTypeOK'
<1>1. ASSUME NEW t \in Train
      PROVE  Commands(toTrain'[t])
  <2>1. trains'[t].transit \in Seq(Block)
    BY DEF TypeOK, TrainsOK, TrainState
  <2> DEFINE route == IF ~Idle /\ Head(agenda) = PlanTask(t) /\ agenda' # <<>>
                            /\ Head(agenda') = ExtendTask(t)
                      THEN <<AssignRoute(trains'[t].transit)>> ELSE <<>>
             grants == [n \in DOMAIN GrantedAt(t) |->
                          GrantClearance(To(trains[t].transit[GrantedAt(t)[n]]))]
             back == IF Resolving /\ cleared'[t] # cleared[t] THEN <<Revoke>> ELSE <<>>
  <2>2. Commands(route)
    BY <2>1, OneCommand
  <2>3. Commands(grants)
    BY GrantsAreCommands
  <2>4. Commands(back)
    BY OneCommand
  <2>5. Told(t) = (route \o grants) \o back
    BY DEF Told
  <2> HIDE DEF route, grants, back
  <2>6. Commands(Told(t))
    BY <2>2, <2>3, <2>4, <2>5, CommandsJoin
  <2>7. Commands(toTrain[t]) /\ toTrain'[t] = toTrain[t] \o Told(t)
    BY DEF Schedule, DeliveryTypeOK, TrainsTyped
  <2> QED
    BY <2>6, <2>7, CommandsJoin
<1>2. TrainsTyped'
  BY <1>1 DEF Schedule, DeliveryTypeOK, TrainsTyped, railVars
<1>3. ASSUME NEW j \in Marker
      PROVE  toSwitch'[j] \in Seq(Position)
  BY AskedPositions DEF Schedule, DeliveryTypeOK, RailsTyped
<1>4. RailsTyped'
  BY <1>3 DEF Schedule, DeliveryTypeOK, RailsTyped, railVars
<1> QED
  BY <1>2, <1>4 DEF DeliveryTypeOK

(* An event is taken in, and may be answered by a revocation.              *)
LEMMA ReceiveTyped ==
    ASSUME DeliveryTypeOK, NEW t \in Train, NEW over, Receive(t, over)
    PROVE  DeliveryTypeOK'
<1>1. LocoOK(loco[t]) /\ Commands(toTrain[t]) /\ fromTrain[t] \in Seq(Report) /\ fromTrain[t] # <<>>
  BY DEF DeliveryTypeOK, TrainsTyped, Receive
<1>2. Append(toTrain[t], Revoke) = toTrain[t] \o <<Revoke>>
  <2>1. toTrain[t] \in Seq(Range(toTrain[t]) \cup {Revoke})
    BY <1>1, SeqMonotonic DEF Commands
  <2> QED
    BY <2>1, AppendIsConcat
<1>3. Commands(Append(toTrain[t], Revoke))
  BY <1>1, <1>2, OneCommand, CommandsJoin
<1>4. PICK c : Commands(c) /\ toTrain' = [toTrain EXCEPT ![t] = c]
  BY <1>1, <1>3 DEF Receive, DeliveryTypeOK, TrainsTyped
<1>5. Tail(fromTrain[t]) \in Seq(Report)
  BY <1>1
<1>6. fromTrain' = [fromTrain EXCEPT ![t] = Tail(fromTrain[t])]
  BY DEF Receive
<1>7. loco' = [loco EXCEPT ![t] = loco[t]] /\ UNCHANGED <<body, toSwitch, fromSwitch>>
  BY DEF Receive, railVars, DeliveryTypeOK, TrainsTyped
<1>8. TrainsTyped'
  BY <1>1, <1>4, <1>5, <1>6, <1>7, OneTrainTyped DEF DeliveryTypeOK
<1>9. RailsTyped'
  BY <1>7 DEF DeliveryTypeOK, RailsTyped
<1> QED
  BY <1>8, <1>9 DEF DeliveryTypeOK

(* A confirmed position is taken in.                                       *)
LEMMA ConfirmedTyped ==
    ASSUME DeliveryTypeOK, NEW j \in Junction, Confirmed(j)
    PROVE  DeliveryTypeOK'
<1>1. j \in Marker
  BY BlockEnds, LayoutAssumption DEF Junction, Block
<1>2. RailsTyped'
  BY <1>1 DEF Confirmed, DeliveryTypeOK, RailsTyped, railVars
<1> QED
  BY <1>2 DEF Confirmed, DeliveryTypeOK, TrainsTyped, railVars

-----------------------------------------------------------------------------
(* Faults.                                                                 *)

(* A queue that loses its first message is still a queue of such messages. *)
LEMMA LoseTyped == DeliveryTypeOK /\ Lose => DeliveryTypeOK'
<1> SUFFICES ASSUME DeliveryTypeOK, Lose
             PROVE  DeliveryTypeOK'
  OBVIOUS
<1>1. UNCHANGED <<loco, body>>
  BY DEF Lose, railVars
<1>2. ASSUME NEW t \in Train, toTrain[t] # <<>>, toTrain' = [toTrain EXCEPT ![t] = Tail(@)],
             UNCHANGED <<fromTrain, toSwitch, fromSwitch>>
      PROVE  DeliveryTypeOK'
  <2>1. Commands(Tail(toTrain[t]))
    BY <1>2, CommandsLeft DEF DeliveryTypeOK, TrainsTyped
  <2> QED
    BY <1>1, <1>2, <2>1 DEF DeliveryTypeOK, TrainsTyped, RailsTyped
<1>3. ASSUME NEW t \in Train, fromTrain[t] # <<>>, fromTrain' = [fromTrain EXCEPT ![t] = Tail(@)],
             UNCHANGED <<toTrain, toSwitch, fromSwitch>>
      PROVE  DeliveryTypeOK'
  <2>1. Tail(fromTrain[t]) \in Seq(Report)
    BY <1>3 DEF DeliveryTypeOK, TrainsTyped
  <2> QED
    BY <1>1, <1>3, <2>1 DEF DeliveryTypeOK, TrainsTyped, RailsTyped
<1>4. ASSUME NEW j \in Junction
      PROVE  /\ j \in Marker
             /\ toSwitch[j] # <<>> => Tail(toSwitch[j]) \in Seq(Position)
             /\ fromSwitch[j] # <<>> => Tail(fromSwitch[j]) \in Seq(Position)
  <2>1. j \in Marker
    BY BlockEnds, LayoutAssumption DEF Junction, Block
  <2>2. toSwitch[j] \in Seq(Position) /\ fromSwitch[j] \in Seq(Position)
    BY <2>1 DEF DeliveryTypeOK, RailsTyped
  <2> QED
    BY <2>1, <2>2
<1>5. ASSUME NEW j \in Junction, toSwitch[j] # <<>>,
             toSwitch' = [toSwitch EXCEPT ![j] = Tail(@)],
             UNCHANGED <<toTrain, fromTrain, fromSwitch>>
      PROVE  DeliveryTypeOK'
  BY <1>1, <1>4, <1>5 DEF DeliveryTypeOK, TrainsTyped, RailsTyped
<1>6. ASSUME NEW j \in Junction, fromSwitch[j] # <<>>,
             fromSwitch' = [fromSwitch EXCEPT ![j] = Tail(@)],
             UNCHANGED <<toTrain, fromTrain, toSwitch>>
      PROVE  DeliveryTypeOK'
  BY <1>1, <1>4, <1>6 DEF DeliveryTypeOK, TrainsTyped, RailsTyped
<1> QED
  BY <1>2, <1>3, <1>5, <1>6 DEF Lose

(* Power lost or restored changes a device's motion and nothing else.      *)
LEMMA PowerTyped ==
    ASSUME DeliveryTypeOK, NEW t \in Train, PowerOff(t) \/ PowerOn(t)
    PROVE  DeliveryTypeOK'
<1>1. LocoOK(loco[t])
  BY DEF DeliveryTypeOK, TrainsTyped
<1>2. PICK l : LocoOK(l) /\ loco' = [loco EXCEPT ![t] = l]
  <2>1. CASE PowerOff(t)
    <3>1. LocoOK([Stopped(loco[t]) EXCEPT !.powered = FALSE])
      BY <1>1 DEF LocoOK, Stopped
    <3> QED
      BY <2>1, <3>1 DEF PowerOff
  <2>2. CASE PowerOn(t)
    <3>1. /\ LocoOK([loco[t] EXCEPT !.powered = TRUE])
          /\ LocoOK([[loco[t] EXCEPT !.powered = TRUE] EXCEPT !.motion = "forward"])
      BY <1>1 DEF LocoOK
    <3> QED
      BY <2>2, <3>1 DEF PowerOn
  <2> QED
    BY <2>1, <2>2
<1>3. UNCHANGED <<body, toTrain, fromTrain, toSwitch, fromSwitch>>
  BY DEF PowerOff, PowerOn, queueVars
<1> QED
  BY <1>2, <1>3 DEF DeliveryTypeOK, TrainsTyped, RailsTyped

-----------------------------------------------------------------------------
(* Taken together.                                                         *)

(* Nothing is on its way to begin with, and the trains stand at their stops. *)
LEMMA DeliveryStart == DeliveryInit => DeliveryTypeOK
<1> SUFFICES ASSUME DeliveryInit
             PROVE  DeliveryTypeOK
  OBVIOUS
<1>1. LocoOK(Device0)
  BY DEF LocoOK, Device0
<1>2. Commands(<<>>)
  BY OneCommand
<1>3. TrainsTyped
  BY <1>1, <1>2 DEF DeliveryInit, TrainsTyped
<1>4. \A t \in Train : Timetable[t][1] \in Marker
  BY RailwayAssumption
<1>5. RailsTyped
  BY <1>4 DEF DeliveryInit, RailsTyped, Body
<1> QED
  BY <1>3, <1>5 DEF DeliveryTypeOK

(* A step of the railway by message, batteries changed or not.             *)
AnyNext == DeliveryNext \/ \E t \in Train : PowerOn(t)

(* Every such step keeps the types of what is under way.                   *)
LEMMA DeliveryTypes ==
    TypeOK /\ TypeOK' /\ DeliveryTypeOK /\ [AnyNext]_deliveryVars => DeliveryTypeOK'
<1> SUFFICES ASSUME TypeOK, TypeOK', DeliveryTypeOK, [AnyNext]_deliveryVars
             PROVE  DeliveryTypeOK'
  OBVIOUS
<1>1. CASE Schedule
  BY <1>1, ScheduleTyped
<1>2. ASSUME NEW t \in Train, Run(t) \/ Stand(t) \/ Obey(t) \/ PowerOff(t) \/ PowerOn(t)
      PROVE  DeliveryTypeOK'
  BY <1>2, RunTyped, StandTyped, ObeyTyped, PowerTyped
<1>3. ASSUME NEW t \in Train, NEW dwellOver \in BOOLEAN, Receive(t, dwellOver)
      PROVE  DeliveryTypeOK'
  BY <1>3, ReceiveTyped
<1>4. ASSUME NEW j \in Junction, Throw(j) \/ Confirmed(j)
      PROVE  DeliveryTypeOK'
  BY <1>4, ThrowTyped, ConfirmedTyped
<1>5. CASE Start
  BY <1>5 DEF Start, railVars, queueVars, DeliveryTypeOK, TrainsTyped, RailsTyped
<1>6. CASE Lose
  BY <1>6, LoseTyped
<1>7. CASE UNCHANGED deliveryVars
  BY <1>7 DEF deliveryVars, railVars, queueVars, DeliveryTypeOK, TrainsTyped, RailsTyped
<1> QED
  BY <1>1, <1>2, <1>3, <1>4, <1>5, <1>6, <1>7 DEF AnyNext, DeliveryNext

(* What a train reports, the scheduler is modelled to receive.             *)
LEMMA ReceivedIsAnEvent ==
    ASSUME InputsCovered, DeliveryTypeOK,
           NEW t \in Train, NEW dwellOver \in BOOLEAN, Receive(t, dwellOver)
    PROVE  TrainEvent(t)
<1> DEFINE e == Head(fromTrain[t])
<1>1. e \in Report
  BY DEF Receive, DeliveryTypeOK, TrainsTyped
<1>2. CASE e.event = "tag_observed"
  <2>1. e.marker \in Marker
    BY <1>1, <1>2 DEF Report
  <2>2. HandleTopologyViolation(t, e.marker) \/ HandleTrainAtMarker(t, e.marker)
    BY <1>2 DEF Receive
  <2> QED
    BY <2>1, <2>2 DEF TrainEvent, MarkerReport
<1>3. CASE e.event = "train_status"
  <2>1. e.edge \in Block \cup {None} /\ e.distance \in Distances
    BY <1>1, <1>3 DEF Report, InputsCovered
  <2>2. HandleTrainStatus(t, e.edge, e.distance, dwellOver)
    BY <1>3 DEF Receive
  <2> QED
    BY <2>1, <2>2 DEF TrainEvent
<1> QED
  BY <1>1, <1>2, <1>3 DEF Report

(* Each step of the railway is one step of the scheduler, or none.         *)
LEMMA DeliverySimulates ==
    InputsCovered /\ DeliveryTypeOK /\ [AnyNext]_deliveryVars => [Next]_vars
<1> SUFFICES ASSUME InputsCovered, DeliveryTypeOK, [AnyNext]_deliveryVars
             PROVE  [Next]_vars
  OBVIOUS
<1>1. CASE Schedule
  BY <1>1 DEF Schedule, Next
<1>2. ASSUME NEW t \in Train, Run(t) \/ Stand(t) \/ Obey(t) \/ PowerOff(t) \/ PowerOn(t)
      PROVE  UNCHANGED vars
  BY <1>2 DEF Run, Stand, Obey, PowerOff, PowerOn
<1>3. ASSUME NEW t \in Train, NEW dwellOver \in BOOLEAN, Receive(t, dwellOver)
      PROVE  Next
  BY <1>3, ReceivedIsAnEvent DEF Next
<1>4. ASSUME NEW j \in Junction, Throw(j)
      PROVE  UNCHANGED vars
  BY <1>4 DEF Throw
<1>5. ASSUME NEW j \in Junction, Confirmed(j)
      PROVE  Next
  <2>1. j \in Marker
    BY BlockEnds, LayoutAssumption DEF Junction, Block
  <2>2. Head(fromSwitch[j]) \in Position
    BY <1>5, <2>1 DEF Confirmed, DeliveryTypeOK, RailsTyped
  <2> QED
    BY <1>5, <2>2 DEF Confirmed, SwitchEvent, Next
<1>6. CASE Start
  BY <1>6 DEF Start, InputsCovered, TrainEvent, SwitchEvent, OperatorCommand, Next
<1>7. CASE Lose
  BY <1>7 DEF Lose
<1>8. CASE UNCHANGED deliveryVars
  BY <1>8 DEF deliveryVars
<1> QED
  BY <1>1, <1>2, <1>3, <1>4, <1>5, <1>6, <1>7, <1>8 DEF AnyNext, DeliveryNext

(* The railway run by message implements the scheduler, whatever is late,  *)
(* whatever is lost and whichever train dies.                              *)
THEOREM DeliveryIsScheduling == InputsCovered /\ PowerCycleSpec => Safety
<1> SUFFICES ASSUME InputsCovered
             PROVE  PowerCycleSpec => Safety
  OBVIOUS
<1>1. DeliveryInit => Init /\ TypeOK /\ DeliveryTypeOK
  BY DeliveryStart, InitTypes DEF DeliveryInit
<1>2. TypeOK /\ DeliveryTypeOK /\ [AnyNext]_deliveryVars => (TypeOK /\ DeliveryTypeOK)' /\ [Next]_vars
  BY DeliveryTypes, DeliverySimulates, StepTypes
<1> QED
  BY <1>1, <1>2, PTL DEF PowerCycleSpec, AnyNext, Safety

(* Messages lost, late or answered by a dead train give no block to two,   *)
(* and grant none that a gate, a zone or a hold denies.                    *)
THEOREM DeliveryKeepsGuarantees ==
    InputsCovered /\ (DeliverySpec \/ PowerCycleSpec) =>
        /\ []TypeOK /\ []Exclusive /\ []PassLeavesNobodyBehind
        /\ ImplementsClearance
        /\ NoGrantAgainstDenial /\ NoGrantAcrossGap
        /\ HeldKeepsItsGround /\ SwitchNotThrownUnderPeer /\ ResolutionVacates
<1>1. DeliverySpec => PowerCycleSpec
  <2>1. [DeliveryNext]_deliveryVars => [AnyNext]_deliveryVars
    BY DEF AnyNext
  <2> QED
    BY <2>1, PTL DEF DeliverySpec, PowerCycleSpec, AnyNext
<1> QED
  BY <1>1, DeliveryIsScheduling, TypeCorrect, Exclusivity, Implementation, DenialBinds,
     GrantsLeaveNoGap, SuspicionStaysGuarded, PointsAreThrownForOne, NobodyIsLeftBehind,
     ResolutionIsSafe, PTL

-----------------------------------------------------------------------------
(* Where trains are when messages are late.                                *)

(* What is asked of the broker: however late, reports and routes arrive.   *)
(* Grants, positions and confirmations may be lost, and batteries die.     *)
ReportsAndRoutesArrive ==
    Lose => /\ UNCHANGED fromTrain
            /\ \A t \in Train : \/ toTrain'[t] = toTrain[t]
                                \/ Head(toTrain[t]).command = "grant_clearance"

ArrivingNext == DeliveryNext /\ ReportsAndRoutesArrive
ArrivingSpec == DeliverySpec /\ [][ReportsAndRoutesArrive]_deliveryVars

(* The place of a train with record r, once it has crossed all of its way  *)
(* before its block i.                                                     *)
PlaceAt(r, i) == IF i = r.progress THEN r.last ELSE To(r.transit[i - 1])

(* By event e, the train has drawn its length L onto block i of its way.   *)
SaysClear(r, i, e, L) ==
    /\ e.event = "train_status" /\ i \in DOMAIN r.transit
    /\ e.edge = r.transit[i] /\ e.distance >= L

(* When the events Q before the x-th, sent from the places idx, have been  *)
(* received, the scheduler has nothing more behind the train.              *)
Clear(r, S, Q, idx, x, L) ==
    \/ idx[x] = r.progress /\ S \subseteq AheadOf(r)
    \/ \E y \in 1..(x - 1) : idx[y] = idx[x] /\ SaysClear(r, idx[x], Q[y], L)

(* An event is the report of the marker at the end of the block the train  *)
(* was on, or says how far on that block it was.                           *)
TagFits(r, S, Q, idx, x, L) ==
    /\ idx[x + 1] = idx[x] + 1 /\ idx[x] \in DOMAIN r.transit
    /\ Q[x].marker = To(r.transit[idx[x]])
    /\ Clear(r, S, Q, idx, x, L)

ReportFits(r, S, b, P, i, e) ==
    \/ e.edge = None
    \/ From(e.edge) # PlaceAt(r, i)
    \/ /\ i \in DOMAIN r.transit /\ e.edge = r.transit[i]
       /\ e.distance > 0 => r.transit[i] \in S
       /\ i = P => e.distance <= b.offset

(* What is on its way to the scheduler.                                    *)
EventsFit(r, S, b, Q, idx, P, L) ==
    /\ idx \in [1..(Len(Q) + 1) -> r.progress..P]
    /\ idx[1] = r.progress /\ idx[Len(Q) + 1] = P
    /\ \A x, y \in 1..(Len(Q) + 1) : x <= y => idx[x] <= idx[y]
    /\ \A x \in 1..Len(Q) :
          \/ Q[x].event = "tag_observed" /\ TagFits(r, S, Q, idx, x, L)
          \/ /\ Q[x].event = "train_status"
             /\ idx[x + 1] = idx[x] /\ ReportFits(r, S, b, P, idx[x], Q[x])
    /\ b.offset >= L => Clear(r, S, Q, idx, Len(Q) + 1, L)

(* Where the train is: before block P of its way, or on it.                *)
BodyFits(r, S, b, P, L) ==
    /\ P \in r.progress..(Len(r.transit) + 1)
    /\ b.at = PlaceAt(r, P)
    /\ b.on # None => P \in DOMAIN r.transit /\ b.on = r.transit[P] /\ r.transit[P] \in S
    /\ b.on = None => b.offset = 0
    /\ P > r.progress => b.rear = r.transit[P - 1] /\ r.transit[P - 1] \in S
    /\ P = r.progress /\ b.rear # None /\ b.offset < L => b.rear \in S

(* The commands C extend the limit from block k to block after block that  *)
(* is held.                                                                *)
GrantsFit(r, S, k, C) ==
    \E g \in [DOMAIN C -> DOMAIN r.transit] :
        \A x \in DOMAIN C :
            /\ C[x] = GrantClearance(To(r.transit[g[x]]))
            /\ r.transit[g[x]] \in S /\ g[x] > k
            /\ \A y \in DOMAIN C : x < y => g[x] < g[y]

(* The device knows its route, and its limit is the end of block k.        *)
FollowsTo(r, S, b, l, C, P, k) ==
    /\ l.route = r.transit /\ r.transit # <<>>
    /\ P \in DOMAIN r.transit => l.progress = P /\ l.distance = b.offset
    /\ P \notin DOMAIN r.transit => l.progress = 1 /\ l.distance = 0
    /\ IF k = 0 THEN l.limit = None ELSE l.limit = To(r.transit[k])
    /\ P - 1 <= k /\ (k >= r.progress => r.transit[k] \in S)
    /\ l.motion = "forward" => k >= P
    /\ GrantsFit(r, S, k, C)

Follows(r, S, b, l, C, P) ==
    \E k \in 0..Len(r.transit) : FollowsTo(r, S, b, l, C, P, k)

(* The device stands at the end of its last route, if any, and has no      *)
(* other, or has yet to hear of it.                                        *)
Parked(r, S, b, l, C, P) ==
    /\ l.motion = "stopped" /\ l.distance = 0 /\ b.on = None
    /\ l.route # <<>> => From(l.route[l.progress]) # b.at
    /\ \/ r.transit = <<>> /\ C = <<>>
       \/ /\ r.transit # <<>> /\ P = 1 /\ C # <<>>
          /\ Head(C) = AssignRoute(r.transit) /\ GrantsFit(r, S, 0, Tail(C))

(* A dead device does not move, and is not heard of again.                 *)
DeviceFits(r, S, b, l, C, P) ==
    IF l.powered THEN Follows(r, S, b, l, C, P) \/ Parked(r, S, b, l, C, P)
    ELSE l.motion = "stopped"

InLineAt(r, S, b, l, C, Q, L, idx, P) ==
    EventsFit(r, S, b, Q, idx, P, L) /\ BodyFits(r, S, b, P, L) /\ DeviceFits(r, S, b, l, C, P)

InLine(r, S, b, l, C, Q, L) == \E idx, P : InLineAt(r, S, b, l, C, Q, L, idx, P)

(* A train without a schedule has not moved.                               *)
Unmoved(t, b, l, C, Q) ==
    /\ C = <<>> /\ Q = <<>>
    /\ l.motion = "stopped" /\ l.route = <<>> /\ l.distance = 0
    /\ b = [at |-> Timetable[t][1], on |-> None, offset |-> 0, rear |-> None]

TrainInLine(t) ==
    IF trains[t].stops = <<>>
    THEN Unmoved(t, body[t], loco[t], toTrain[t], fromTrain[t])
    ELSE InLine(trains[t], cleared[t], body[t], loco[t], toTrain[t], fromTrain[t], TrainLength[t])

TrainsInLine == \A t \in Train : TrainInLine(t)

(* Between a switch and its device there is one message at most, and the   *)
(* points lie as confirmed, or as asked for.                               *)
SwitchInStep(j) ==
    /\ requested[j] \in {None, position[j]} =>
          toSwitch[j] = <<>> /\ fromSwitch[j] = <<>> /\ points[j] = position[j]
    /\ requested[j] \notin {None, position[j]} =>
          /\ \/ toSwitch[j] = <<>> /\ fromSwitch[j] = <<>>
             \/ toSwitch[j] = <<requested[j]>> /\ fromSwitch[j] = <<>>
             \/ toSwitch[j] = <<>> /\ fromSwitch[j] = <<requested[j]>>
          /\ points[j] \in {position[j], requested[j]}
          /\ fromSwitch[j] # <<>> => points[j] = requested[j]

SwitchesInStep ==
    points \in [Marker -> Position \cup {None}] /\ \A j \in Junction : SwitchInStep(j)

-----------------------------------------------------------------------------
(* What moves nobody.                                                      *)

(* Nothing of this is lost when a train is granted more of its way.        *)
LEMMA LineStays ==
    ASSUME NEW r, NEW s, NEW S, NEW H, NEW b, NEW l, NEW C, NEW Q, NEW L, NEW idx, NEW P,
           s.transit = r.transit, s.progress = r.progress, s.last = r.last,
           S \subseteq H, H \subseteq S \cup AheadOf(r),
           InLineAt(r, S, b, l, C, Q, L, idx, P)
    PROVE  InLineAt(s, H, b, l, C, Q, L, idx, P)
<1>1. /\ AheadOf(s) = AheadOf(r)
      /\ \A i : PlaceAt(s, i) = PlaceAt(r, i)
      /\ \A i, e : SaysClear(s, i, e, L) <=> SaysClear(r, i, e, L)
  BY DEF AheadOf, PlaceAt, SaysClear
<1>2. \A x : Clear(r, S, Q, idx, x, L) => Clear(s, H, Q, idx, x, L)
  BY <1>1 DEF Clear
<1>3. \A x : TagFits(r, S, Q, idx, x, L) => TagFits(s, H, Q, idx, x, L)
  BY <1>2 DEF TagFits
<1>4. \A i, e : ReportFits(r, S, b, P, i, e) => ReportFits(s, H, b, P, i, e)
  BY <1>1 DEF ReportFits
<1>5. EventsFit(s, H, b, Q, idx, P, L)
  BY <1>2, <1>3, <1>4 DEF InLineAt, EventsFit
<1>6. BodyFits(s, H, b, P, L)
  BY <1>1 DEF InLineAt, BodyFits
<1>7. \A k, D : GrantsFit(r, S, k, D) => GrantsFit(s, H, k, D)
  BY DEF GrantsFit
<1>8. Follows(r, S, b, l, C, P) => Follows(s, H, b, l, C, P)
  BY <1>7 DEF Follows, FollowsTo
<1>9. Parked(r, S, b, l, C, P) => Parked(s, H, b, l, C, P)
  BY <1>7 DEF Parked
<1> QED
  BY <1>5, <1>6, <1>8, <1>9 DEF InLineAt, DeviceFits

(* Grants of blocks beyond what is held come on top of the others.         *)
LEMMA GrantsJoin ==
    ASSUME NEW r, r.transit \in Seq(Block), r.progress \in Nat, NEW S, NEW H, S \subseteq H,
           HoldsInOrder(r, S), NEW k \in Nat, k <= Len(r.transit),
           k >= r.progress => r.transit[k] \in S,
           NEW C, C \in Seq(Range(C)), GrantsFit(r, S, k, C),
           \A x \in DOMAIN r.transit : r.transit[x] \in S /\ x > k => x >= r.progress,
           NEW D, D \in Seq(Range(D)), NEW h \in [DOMAIN D -> DOMAIN r.transit],
           \A x \in DOMAIN D :
              /\ D[x] = GrantClearance(To(r.transit[h[x]]))
              /\ r.transit[h[x]] \in H \ S /\ h[x] >= r.progress
              /\ \A y \in DOMAIN D : x < y => h[x] < h[y]
    PROVE  GrantsFit(r, H, k, C \o D)
<1> DEFINE T == r.transit
           p == r.progress
           n == Len(C)
<1>1. /\ T \in Seq(Block) /\ DOMAIN T = 1..Len(T) /\ Len(T) \in Nat /\ p \in Nat
      /\ n \in Nat /\ DOMAIN C = 1..n /\ Len(D) \in Nat /\ DOMAIN D = 1..Len(D)
  OBVIOUS
<1>2. PICK g \in [DOMAIN C -> DOMAIN T] :
        \A x \in DOMAIN C :
            /\ C[x] = GrantClearance(To(T[g[x]]))
            /\ T[g[x]] \in S /\ g[x] > k
            /\ \A y \in DOMAIN C : x < y => g[x] < g[y]
  BY DEF GrantsFit
<1>3. /\ DOMAIN (C \o D) = 1..(n + Len(D))
      /\ \A x \in 1..(n + Len(D)) : (C \o D)[x] = IF x <= n THEN C[x] ELSE D[x - n]
  <2>1. C \in Seq(Range(C) \cup Range(D)) /\ D \in Seq(Range(C) \cup Range(D))
    BY SeqMonotonic
  <2> QED
    BY <2>1, ConcatProperties
<1>4. ASSUME NEW i \in DOMAIN T, T[i] \in S, i >= p, NEW j \in DOMAIN T, T[j] \notin S, j >= p
      PROVE  i < j
  <2>1. i \in Nat /\ j \in Nat
    BY <1>1
  <2>2. j <= i => j \in p..i
    BY <1>1, <1>4, <2>1
  <2>3. \A m \in p..i : T[m] \in S
    BY <1>4 DEF HoldsInOrder
  <2> QED
    BY <1>4, <2>1, <2>2, <2>3
<1>5. ASSUME NEW j \in DOMAIN T, T[j] \notin S, j >= p
      PROVE  j > k
  <2>1. CASE k >= p /\ k # 0
    <3>1. k \in DOMAIN T /\ T[k] \in S
      BY <1>1, <2>1
    <3> QED
      BY <1>4, <1>5, <2>1, <3>1
  <2>2. CASE k < p \/ k = 0
    BY <1>1, <1>5, <2>2
  <2> QED
    BY <1>1, <2>1, <2>2
<1> DEFINE f == [x \in 1..(n + Len(D)) |-> IF x <= n THEN g[x] ELSE h[x - n]]
<1>6. ASSUME NEW x \in 1..(n + Len(D))
      PROVE  /\ x <= n => x \in DOMAIN C
             /\ x > n => x - n \in DOMAIN D
  BY <1>1
<1>7. f \in [DOMAIN (C \o D) -> DOMAIN T]
  BY <1>1, <1>3, <1>6
<1>8. ASSUME NEW x \in 1..(n + Len(D))
      PROVE  /\ (C \o D)[x] = GrantClearance(To(T[f[x]]))
             /\ T[f[x]] \in H /\ f[x] > k
  <2>1. CASE x <= n
    BY <1>2, <1>3, <1>6, <2>1
  <2>2. CASE x > n
    <3>0. ~(x <= n) /\ x - n \in DOMAIN D
      BY <1>1, <1>6, <2>2
    <3>1. f[x] = h[x - n] /\ (C \o D)[x] = D[x - n] /\ x - n \in DOMAIN D /\ h[x - n] \in DOMAIN T
      BY <1>3, <3>0
    <3> QED
      BY <1>5, <3>1
  <2> QED
    BY <1>1, <2>1, <2>2
<1>9. ASSUME NEW x \in 1..(n + Len(D)), NEW y \in 1..(n + Len(D)), x < y
      PROVE  f[x] < f[y]
  <2>0. x \in Nat /\ y \in Nat
    BY <1>1
  <2>1. CASE y <= n
    <3>1. x <= n /\ x \in DOMAIN C /\ y \in DOMAIN C
      BY <1>1, <1>6, <1>9, <2>0, <2>1
    <3> QED
      BY <1>2, <1>9, <2>1, <3>1
  <2>2. CASE x > n
    <3>1. x - n \in DOMAIN D /\ y - n \in DOMAIN D /\ x - n < y - n /\ y > n
      BY <1>1, <1>6, <1>9, <2>0, <2>2
    <3>2. h[x - n] < h[y - n]
      BY <3>1
    <3> QED
      BY <1>1, <2>0, <2>2, <3>1, <3>2
  <2>3. CASE x <= n /\ y > n
    <3>1. x \in DOMAIN C /\ y - n \in DOMAIN D /\ f[x] = g[x] /\ f[y] = h[y - n]
      BY <1>1, <1>6, <2>0, <2>3
    <3>2. g[x] \in DOMAIN T /\ T[g[x]] \in S /\ g[x] > k
      BY <1>2, <3>1
    <3>3. g[x] >= p
      BY <3>2
    <3>4. h[y - n] \in DOMAIN T /\ T[h[y - n]] \notin S /\ h[y - n] >= p
      BY <3>1
    <3> QED
      BY <1>4, <3>1, <3>2, <3>3, <3>4
  <2> QED
    BY <1>1, <2>0, <2>1, <2>2, <2>3
<1> HIDE DEF f
<1> QED
  BY <1>3, <1>7, <1>8, <1>9 DEF GrantsFit

(* Grants that are obeyed or lost leave the others.                        *)
LEMMA GrantsLeft ==
    ASSUME NEW r, r.transit \in Seq(Block), NEW S, NEW k \in Nat,
           NEW C, C \in Seq(Range(C)), C # <<>>, GrantsFit(r, S, k, C)
    PROVE  \E j \in DOMAIN r.transit :
              /\ Head(C) = GrantClearance(To(r.transit[j])) /\ j > k /\ r.transit[j] \in S
              /\ GrantsFit(r, S, j, Tail(C)) /\ GrantsFit(r, S, k, Tail(C))
<1>1. /\ 1 \in DOMAIN C /\ Head(C) = C[1] /\ Tail(C) \in Seq(Range(C))
      /\ \A x \in DOMAIN Tail(C) : /\ Tail(C)[x] = C[x + 1] /\ x + 1 \in DOMAIN C
                                   /\ x \in Nat /\ 1 < x + 1
  OBVIOUS
<1>2. PICK g \in [DOMAIN C -> DOMAIN r.transit] :
        \A x \in DOMAIN C :
            /\ C[x] = GrantClearance(To(r.transit[g[x]]))
            /\ r.transit[g[x]] \in S /\ g[x] > k
            /\ \A y \in DOMAIN C : x < y => g[x] < g[y]
  BY DEF GrantsFit
<1> DEFINE f == [x \in DOMAIN Tail(C) |-> g[x + 1]]
<1>3. f \in [DOMAIN Tail(C) -> DOMAIN r.transit]
  BY <1>1
<1>4. ASSUME NEW x \in DOMAIN Tail(C)
      PROVE  /\ Tail(C)[x] = GrantClearance(To(r.transit[f[x]]))
             /\ r.transit[f[x]] \in S /\ f[x] > g[1] /\ f[x] > k
             /\ \A y \in DOMAIN Tail(C) : x < y => f[x] < f[y]
  <2>1. /\ f[x] = g[x + 1] /\ x + 1 \in DOMAIN C /\ Tail(C)[x] = C[x + 1] /\ 1 < x + 1
        /\ x \in Nat
    BY <1>1
  <2>2. ASSUME NEW y \in DOMAIN Tail(C), x < y
        PROVE  f[x] < f[y]
    <3>1. f[y] = g[y + 1] /\ y + 1 \in DOMAIN C /\ y \in Nat /\ x + 1 < y + 1
      BY <1>1, <2>1, <2>2
    <3> QED
      BY <1>2, <2>1, <3>1
  <2> QED
    BY <1>1, <1>2, <2>1, <2>2
<1> HIDE DEF f
<1>5. GrantsFit(r, S, k, Tail(C))
  BY <1>3, <1>4 DEF GrantsFit
<1>6. GrantsFit(r, S, g[1], Tail(C))
  BY <1>3, <1>4 DEF GrantsFit
<1> QED
  BY <1>1, <1>2, <1>5, <1>6

-----------------------------------------------------------------------------
(* What a train reports.                                                   *)

(* A queue that grows at its end.                                          *)
LEMMA OneMore ==
    ASSUME NEW V, NEW Q \in Seq(V), NEW e \in V
    PROVE  /\ Append(Q, e) \in Seq(V) /\ Len(Append(Q, e)) = Len(Q) + 1 /\ Len(Q) \in Nat
           /\ \A x \in 1..Len(Q) : Append(Q, e)[x] = Q[x]
           /\ Append(Q, e)[Len(Q) + 1] = e
           /\ \A x \in 1..(Len(Q) + 1) : x \in 1..Len(Q) \/ x = Len(Q) + 1
  OBVIOUS

(* The events sent so far are as clear as they were.                       *)
LEMMA ClearStays ==
    ASSUME NEW r, NEW S, NEW Q, NEW D, NEW idx, NEW jdx, NEW L, NEW n \in Nat, NEW x \in 1..(n + 1),
           \A y \in 1..n : D[y] = Q[y], \A y \in 1..(n + 1) : jdx[y] = idx[y],
           Clear(r, S, Q, idx, x, L)
    PROVE  Clear(r, S, D, jdx, x, L)
<1>1. CASE idx[x] = r.progress /\ S \subseteq AheadOf(r)
  BY <1>1 DEF Clear
<1>2. CASE \E y \in 1..(x - 1) : idx[y] = idx[x] /\ SaysClear(r, idx[x], Q[y], L)
  <2>1. PICK y \in 1..(x - 1) : idx[y] = idx[x] /\ SaysClear(r, idx[x], Q[y], L)
    BY <1>2
  <2>2. y \in 1..n /\ y \in 1..(n + 1)
    OBVIOUS
  <2>3. jdx[y] = jdx[x] /\ SaysClear(r, jdx[x], D[y], L)
    BY <2>1, <2>2
  <2> QED
    BY <2>3 DEF Clear
<1> QED
  BY <1>1, <1>2 DEF Clear

(* A train that has got no farther than where it was reports how far on    *)
(* its block it is.                                                        *)
LEMMA OneMoreReport ==
    ASSUME NEW r, r.progress \in Nat, NEW S, NEW b, NEW c, NEW V, NEW Q \in Seq(V), NEW e \in V,
           NEW idx, NEW P \in Nat, NEW L \in Nat,
           EventsFit(r, S, b, Q, idx, P, L),
           e.event = "train_status", ReportFits(r, S, c, P, P, e),
           \A d \in Nat : d <= b.offset => d <= c.offset,
           \A x \in 1..Len(Q) : Q[x].event = "train_status" => Q[x].distance \in Nat,
           c.offset >= L => b.offset >= L \/ SaysClear(r, P, e, L)
    PROVE  \E jdx : EventsFit(r, S, c, Append(Q, e), jdx, P, L)
<1> DEFINE D == Append(Q, e)
           n == Len(Q)
           p == r.progress
           jdx == [x \in 1..(n + 2) |-> IF x <= n + 1 THEN idx[x] ELSE P]
<1>1. /\ Len(D) = n + 1 /\ n \in Nat /\ D[n + 1] = e
      /\ \A x \in 1..n : D[x] = Q[x]
      /\ \A x \in 1..(n + 1) : x \in 1..n \/ x = n + 1
  BY OneMore
<1>2. /\ idx \in [1..(n + 1) -> p..P] /\ idx[1] = p /\ idx[n + 1] = P
      /\ \A x, y \in 1..(n + 1) : x <= y => idx[x] <= idx[y]
      /\ \A x \in 1..n :
          \/ Q[x].event = "tag_observed" /\ TagFits(r, S, Q, idx, x, L)
          \/ /\ Q[x].event = "train_status"
             /\ idx[x + 1] = idx[x] /\ ReportFits(r, S, b, P, idx[x], Q[x])
      /\ b.offset >= L => Clear(r, S, Q, idx, n + 1, L)
  BY DEF EventsFit
<1> HIDE DEF D
<1>3. /\ \A x \in 1..(n + 1) : jdx[x] = idx[x] /\ x \in 1..(n + 2)
      /\ jdx[n + 2] = P /\ P \in p..P /\ n + 2 \in 1..(n + 2) /\ 1 \in 1..(n + 1)
      /\ \A x \in 1..(n + 2) : x \in 1..(n + 1) \/ x = n + 2
  <2>1. n + 1 \in 1..(n + 1)
    BY <1>1
  <2>2. P \in p..P
    BY <1>2, <2>1
  <2> QED
    BY <1>1, <2>2
<1>4. jdx \in [1..(n + 2) -> p..P] /\ jdx[1] = p
  BY <1>2, <1>3
<1> HIDE DEF jdx
<1>5. ASSUME NEW x \in 1..(n + 2), NEW y \in 1..(n + 2), x <= y
      PROVE  jdx[x] <= jdx[y]
  <2>1. CASE y = n + 2
    <3>1. jdx[x] \in p..P
      BY <1>4
    <3> QED
      BY <1>3, <2>1, <3>1
  <2>2. CASE y \in 1..(n + 1)
    <3>1. x \in 1..(n + 1)
      BY <1>1, <1>5, <2>2
    <3> QED
      BY <1>2, <1>3, <1>5, <2>2, <3>1
  <2> QED
    BY <1>3, <2>1, <2>2
<1>6. \A x \in 1..(n + 1) : Clear(r, S, Q, idx, x, L) => Clear(r, S, D, jdx, x, L)
  BY <1>1, <1>3, ClearStays
<1>7. ASSUME NEW x \in 1..n
      PROVE  \/ D[x].event = "tag_observed" /\ TagFits(r, S, D, jdx, x, L)
             \/ /\ D[x].event = "train_status"
                /\ jdx[x + 1] = jdx[x] /\ ReportFits(r, S, c, P, jdx[x], D[x])
  <2>1. x \in 1..(n + 1) /\ x + 1 \in 1..(n + 1) /\ D[x] = Q[x]
    BY <1>1
  <2>2. jdx[x] = idx[x] /\ jdx[x + 1] = idx[x + 1]
    BY <1>3, <2>1
  <2>3. CASE Q[x].event = "tag_observed" /\ TagFits(r, S, Q, idx, x, L)
    BY <1>6, <2>1, <2>2, <2>3 DEF TagFits
  <2>4. CASE /\ Q[x].event = "train_status"
             /\ idx[x + 1] = idx[x] /\ ReportFits(r, S, b, P, idx[x], Q[x])
    <3>1. ReportFits(r, S, c, P, idx[x], Q[x])
      BY <2>4 DEF ReportFits
    <3> QED
      BY <2>1, <2>2, <2>4, <3>1
  <2> QED
    BY <1>2, <2>3, <2>4
<1>8. jdx[n + 1 + 1] = jdx[n + 1] /\ ReportFits(r, S, c, P, jdx[n + 1], D[n + 1])
  <2>1. jdx[n + 1] = P /\ n + 1 + 1 = n + 2
    BY <1>1, <1>2, <1>3
  <2> QED
    BY <1>1, <1>3, <2>1
<1>9. c.offset >= L => Clear(r, S, D, jdx, n + 2, L)
  <2> HAVE c.offset >= L
  <2>1. jdx[n + 1] = P /\ jdx[n + 2] = P /\ n + 1 \in 1..(n + 1) /\ n + 1 \in 1..(n + 2 - 1)
    BY <1>1, <1>2, <1>3
  <2>2. CASE SaysClear(r, P, e, L)
    BY <1>1, <2>1, <2>2 DEF Clear
  <2>3. CASE Clear(r, S, D, jdx, n + 1, L)
    <3>1. CASE jdx[n + 1] = r.progress /\ S \subseteq AheadOf(r)
      BY <2>1, <3>1 DEF Clear
    <3>2. CASE \E y \in 1..(n + 1 - 1) : jdx[y] = jdx[n + 1] /\ SaysClear(r, jdx[n + 1], D[y], L)
      <4>1. PICK y \in 1..(n + 1 - 1) : jdx[y] = jdx[n + 1] /\ SaysClear(r, jdx[n + 1], D[y], L)
        BY <3>2
      <4>2. y \in 1..(n + 2 - 1)
        BY <1>1
      <4> QED
        BY <2>1, <4>1, <4>2 DEF Clear
    <3> QED
      BY <2>3, <3>1, <3>2 DEF Clear
  <2> QED
    BY <1>2, <1>6, <2>1, <2>2, <2>3
<1>10. Len(D) + 1 = n + 2
  BY <1>1
<1>11. ASSUME NEW x \in 1..(n + 1)
       PROVE  \/ D[x].event = "tag_observed" /\ TagFits(r, S, D, jdx, x, L)
              \/ /\ D[x].event = "train_status"
                 /\ jdx[x + 1] = jdx[x] /\ ReportFits(r, S, c, P, jdx[x], D[x])
  <2>1. CASE x \in 1..n
    BY <1>7, <2>1
  <2>2. CASE x = n + 1
    BY <1>1, <1>8, <2>2
  <2> QED
    BY <1>1, <2>1, <2>2
<1>12. EventsFit(r, S, c, D, jdx, P, L)
  BY <1>1, <1>3, <1>4, <1>5, <1>9, <1>10, <1>11 DEF EventsFit
<1> QED
  BY <1>12 DEF D

(* A train that is clear of what is behind it reports the marker at the    *)
(* end of its block, and is at the start of the next.                      *)
LEMMA OneMoreTag ==
    ASSUME NEW r, r.progress \in Nat, NEW S, NEW b, NEW c, NEW V, NEW Q \in Seq(V), NEW e \in V,
           NEW idx, NEW P \in Nat, NEW L \in Nat,
           EventsFit(r, S, b, Q, idx, P, L), b.offset >= L,
           P \in DOMAIN r.transit, e.event = "tag_observed", e.marker = To(r.transit[P]),
           c.offset < L, c.offset \in Nat
    PROVE  \E jdx : EventsFit(r, S, c, Append(Q, e), jdx, P + 1, L)
<1> DEFINE D == Append(Q, e)
           n == Len(Q)
           p == r.progress
           jdx == [x \in 1..(n + 2) |-> IF x <= n + 1 THEN idx[x] ELSE P + 1]
<1>1. /\ Len(D) = n + 1 /\ n \in Nat /\ D[n + 1] = e
      /\ \A x \in 1..n : D[x] = Q[x]
      /\ \A x \in 1..(n + 1) : x \in 1..n \/ x = n + 1
  BY OneMore
<1>2. /\ idx \in [1..(n + 1) -> p..P] /\ idx[1] = p /\ idx[n + 1] = P
      /\ \A x, y \in 1..(n + 1) : x <= y => idx[x] <= idx[y]
      /\ \A x \in 1..n :
          \/ Q[x].event = "tag_observed" /\ TagFits(r, S, Q, idx, x, L)
          \/ /\ Q[x].event = "train_status"
             /\ idx[x + 1] = idx[x] /\ ReportFits(r, S, b, P, idx[x], Q[x])
      /\ Clear(r, S, Q, idx, n + 1, L)
  BY DEF EventsFit
<1> HIDE DEF D
<1>3. /\ \A x \in 1..(n + 1) : jdx[x] = idx[x] /\ x \in 1..(n + 2) /\ idx[x] \in p..P
      /\ jdx[n + 2] = P + 1 /\ n + 2 \in 1..(n + 2) /\ 1 \in 1..(n + 1) /\ n + 1 \in 1..(n + 1)
      /\ \A x \in 1..(n + 2) : x \in 1..(n + 1) \/ x = n + 2
  <2>1. \A x \in 1..(n + 1) : idx[x] \in p..P
    BY <1>2
  <2> QED
    BY <1>1, <2>1
<1>4. p <= P
  BY <1>2, <1>3
<1>5. jdx \in [1..(n + 2) -> p..(P + 1)] /\ jdx[1] = p
  BY <1>2, <1>3, <1>4
<1> HIDE DEF jdx
<1>6. ASSUME NEW x \in 1..(n + 2), NEW y \in 1..(n + 2), x <= y
      PROVE  jdx[x] <= jdx[y]
  <2>1. CASE y = n + 2
    <3>1. jdx[x] \in p..(P + 1)
      BY <1>5
    <3> QED
      BY <1>3, <2>1, <3>1
  <2>2. CASE y \in 1..(n + 1)
    <3>1. x \in 1..(n + 1)
      BY <1>1, <1>6, <2>2
    <3> QED
      BY <1>2, <1>3, <1>6, <2>2, <3>1
  <2> QED
    BY <1>3, <2>1, <2>2
<1>7. \A x \in 1..(n + 1) : Clear(r, S, Q, idx, x, L) => Clear(r, S, D, jdx, x, L)
  BY <1>1, <1>3, ClearStays
<1>8. ASSUME NEW x \in 1..n
      PROVE  \/ D[x].event = "tag_observed" /\ TagFits(r, S, D, jdx, x, L)
             \/ /\ D[x].event = "train_status"
                /\ jdx[x + 1] = jdx[x] /\ ReportFits(r, S, c, P + 1, jdx[x], D[x])
  <2>1. x \in 1..(n + 1) /\ x + 1 \in 1..(n + 1) /\ D[x] = Q[x]
    BY <1>1
  <2>2. jdx[x] = idx[x] /\ jdx[x + 1] = idx[x + 1] /\ idx[x] # P + 1
    BY <1>3, <2>1
  <2>3. CASE Q[x].event = "tag_observed" /\ TagFits(r, S, Q, idx, x, L)
    BY <1>7, <2>1, <2>2, <2>3 DEF TagFits
  <2>4. CASE /\ Q[x].event = "train_status"
             /\ idx[x + 1] = idx[x] /\ ReportFits(r, S, b, P, idx[x], Q[x])
    <3>1. ReportFits(r, S, c, P + 1, idx[x], Q[x])
      BY <2>2, <2>4 DEF ReportFits
    <3> QED
      BY <2>1, <2>2, <2>4, <3>1
  <2> QED
    BY <1>2, <2>3, <2>4
<1>9. TagFits(r, S, D, jdx, n + 1, L) /\ D[n + 1].event = "tag_observed"
  <2>1. jdx[n + 1] = P /\ n + 1 + 1 = n + 2
    BY <1>1, <1>2, <1>3
  <2> QED
    BY <1>1, <1>2, <1>3, <1>7, <2>1 DEF TagFits
<1>10. Len(D) + 1 = n + 2
  BY <1>1
<1>11. ASSUME NEW x \in 1..(n + 1)
       PROVE  \/ D[x].event = "tag_observed" /\ TagFits(r, S, D, jdx, x, L)
              \/ /\ D[x].event = "train_status"
                 /\ jdx[x + 1] = jdx[x] /\ ReportFits(r, S, c, P + 1, jdx[x], D[x])
  <2>1. CASE x \in 1..n
    BY <1>8, <2>1
  <2>2. CASE x = n + 1
    BY <1>9, <2>2
  <2> QED
    BY <1>1, <2>1, <2>2
<1>12. ~(c.offset >= L)
  OBVIOUS
<1>13. EventsFit(r, S, c, D, jdx, P + 1, L)
  BY <1>1, <1>3, <1>5, <1>6, <1>10, <1>11, <1>12 DEF EventsFit
<1> QED
  BY <1>13 DEF D

(* The events left when the first has been received.                       *)
LEMMA EventsLeft ==
    ASSUME NEW r, r.progress \in Nat, NEW s, NEW S, NEW H, NEW b, NEW V, NEW Q \in Seq(V),
           Q # <<>>, NEW idx, NEW P \in Nat, NEW L, EventsFit(r, S, b, Q, idx, P, L),
           s.transit = r.transit, s.progress = idx[2],
           \A i \in idx[2]..P : PlaceAt(s, i) = PlaceAt(r, i),
           \A i \in DOMAIN r.transit : i >= idx[2] /\ r.transit[i] \in S => r.transit[i] \in H,
           idx[2] = r.progress /\ (S \subseteq AheadOf(r) \/ SaysClear(r, r.progress, Q[1], L))
               => H \subseteq AheadOf(s)
    PROVE  \E jdx : EventsFit(s, H, b, Tail(Q), jdx, P, L)
<1> DEFINE D == Tail(Q)
           n == Len(D)
           p == r.progress
           q == idx[2]
           jdx == [x \in 1..(n + 1) |-> idx[x + 1]]
<1>1. /\ D \in Seq(V) /\ n \in Nat /\ Len(Q) = n + 1
      /\ \A x \in 1..n : D[x] = Q[x + 1] /\ x + 1 \in 1..(n + 1)
  OBVIOUS
<1> HIDE DEF D
<1>2. /\ idx \in [1..(n + 2) -> p..P] /\ idx[1] = p /\ idx[n + 2] = P
      /\ \A x, y \in 1..(n + 2) : x <= y => idx[x] <= idx[y]
      /\ \A x \in 1..(n + 1) :
          \/ Q[x].event = "tag_observed" /\ TagFits(r, S, Q, idx, x, L)
          \/ /\ Q[x].event = "train_status"
             /\ idx[x + 1] = idx[x] /\ ReportFits(r, S, b, P, idx[x], Q[x])
      /\ b.offset >= L => Clear(r, S, Q, idx, n + 2, L)
  <2>1. Len(Q) + 1 = n + 2
    BY <1>1
  <2> QED
    BY <1>1, <2>1 DEF EventsFit
<1> HIDE DEF n
<1>3. /\ \A x \in 1..(n + 1) : jdx[x] = idx[x + 1] /\ x + 1 \in 1..(n + 2) /\ x \in 1..(n + 2)
      /\ 2 \in 1..(n + 2) /\ 1 \in 1..(n + 1) /\ n + 1 \in 1..(n + 1) /\ n + 1 + 1 = n + 2
  BY <1>1
<1>4. q \in p..P /\ q \in Nat
  BY <1>2, <1>3
<1>5. ASSUME NEW x \in 1..(n + 1)
      PROVE  jdx[x] \in q..P
  <2>1. idx[x + 1] \in p..P /\ q <= idx[x + 1]
    BY <1>1, <1>2, <1>3
  <2> QED
    BY <1>3, <1>4, <2>1
<1>6. jdx \in [1..(n + 1) -> q..P] /\ jdx[1] = q /\ jdx[n + 1] = P
  BY <1>2, <1>3, <1>5
<1> HIDE DEF jdx, q
<1>7. ASSUME NEW x \in 1..(n + 1), NEW y \in 1..(n + 1), x <= y
      PROVE  jdx[x] <= jdx[y]
  <2>1. x + 1 \in 1..(n + 2) /\ y + 1 \in 1..(n + 2) /\ x + 1 <= y + 1
    BY <1>1, <1>3, <1>7
  <2> QED
    BY <1>2, <1>3, <2>1
<1>8. ASSUME NEW x \in 1..(n + 1), Clear(r, S, Q, idx, x + 1, L)
      PROVE  Clear(s, H, D, jdx, x, L)
  <2>0. x \in Nat /\ x + 1 - 1 = x /\ jdx[x] = idx[x + 1] /\ jdx[x] \in q..P
    BY <1>1, <1>3, <1>5
  <2>1. ASSUME idx[x + 1] = p, S \subseteq AheadOf(r) \/ SaysClear(r, p, Q[1], L)
        PROVE  Clear(s, H, D, jdx, x, L)
    <3>1. q = p
      BY <1>4, <2>0, <2>1
    <3> QED
      BY <2>0, <2>1, <3>1 DEF Clear, q
  <2>2. ASSUME NEW y \in 1..x, idx[y] = idx[x + 1], SaysClear(r, idx[x + 1], Q[y], L), y # 1
        PROVE  Clear(s, H, D, jdx, x, L)
    <3>1. y - 1 \in 1..(x - 1) /\ y - 1 \in 1..n /\ y - 1 \in 1..(n + 1) /\ y - 1 + 1 = y
      BY <1>1, <2>0, <2>2
    <3>2. D[y - 1] = Q[y] /\ jdx[y - 1] = idx[y]
      BY <1>1, <1>3, <3>1
    <3>3. SaysClear(s, jdx[x], D[y - 1], L)
      BY <2>0, <2>2, <3>2 DEF SaysClear
    <3> QED
      BY <2>0, <2>2, <3>1, <3>2, <3>3 DEF Clear
  <2>3. \/ idx[x + 1] = p /\ S \subseteq AheadOf(r)
        \/ \E y \in 1..x : idx[y] = idx[x + 1] /\ SaysClear(r, idx[x + 1], Q[y], L)
    BY <1>8, <2>0 DEF Clear
  <2> QED
    BY <1>2, <2>1, <2>2, <2>3
<1>9. ASSUME NEW x \in 1..n
      PROVE  \/ D[x].event = "tag_observed" /\ TagFits(s, H, D, jdx, x, L)
             \/ /\ D[x].event = "train_status"
                /\ jdx[x + 1] = jdx[x] /\ ReportFits(s, H, b, P, jdx[x], D[x])
  <2>1. /\ x \in 1..(n + 1) /\ x + 1 \in 1..(n + 1) /\ D[x] = Q[x + 1]
    BY <1>1
  <2>2. jdx[x] = idx[x + 1] /\ jdx[x + 1] = idx[x + 1 + 1] /\ jdx[x] \in q..P /\ jdx[x] >= q
    BY <1>3, <1>4, <1>5, <2>1
  <2>3. CASE Q[x + 1].event = "tag_observed" /\ TagFits(r, S, Q, idx, x + 1, L)
    BY <1>8, <2>1, <2>2, <2>3 DEF TagFits
  <2>4. CASE /\ Q[x + 1].event = "train_status"
             /\ idx[x + 1 + 1] = idx[x + 1] /\ ReportFits(r, S, b, P, idx[x + 1], Q[x + 1])
    <3>1. PlaceAt(s, jdx[x]) = PlaceAt(r, jdx[x])
      BY <2>2 DEF q
    <3>2. ReportFits(s, H, b, P, jdx[x], D[x])
      BY <2>1, <2>2, <2>4, <3>1 DEF ReportFits, q
    <3> QED
      BY <2>1, <2>2, <2>4, <3>2
  <2> QED
    BY <1>2, <2>1, <2>3, <2>4
<1>10. b.offset >= L => Clear(s, H, D, jdx, n + 1, L)
  BY <1>2, <1>3, <1>8
<1>11. s.progress = q
  BY DEF q
<1>12. EventsFit(s, H, b, D, jdx, P, L)
  BY <1>6, <1>7, <1>9, <1>10, <1>11 DEF EventsFit, n
<1> QED
  BY <1>12 DEF D

(* What a train has crossed since its last report is held for it.          *)
LEMMA CrossedIsHeld ==
    ASSUME NEW r \in TrainState, NEW S, HoldsInOrder(r, S), NEW b, NEW P, NEW L,
           BodyFits(r, S, b, P, L)
    PROVE  \A i \in r.progress..(P - 1) : i \in DOMAIN r.transit /\ r.transit[i] \in S
<1>1. r.progress \in Nat \ {0} /\ r.transit \in Seq(Block)
  BY DEF TrainState
<1>2. SUFFICES ASSUME NEW i \in r.progress..(P - 1)
               PROVE  i \in DOMAIN r.transit /\ r.transit[i] \in S
  OBVIOUS
<1>3. P \in Nat /\ P - 1 \in DOMAIN r.transit /\ P - 1 >= r.progress /\ r.transit[P - 1] \in S
  BY <1>1 DEF BodyFits
<1>4. i \in r.progress..(P - 1)
  OBVIOUS
<1> QED
  BY <1>1, <1>3, <1>4 DEF HoldsInOrder

(* The report of a marker is that of the next one the scheduler expects,   *)
(* and comes when nothing is held any more behind the train.               *)
LEMMA TagExpected ==
    ASSUME NEW r \in TrainState, NEW S, HoldsInOrder(r, S), NEW b, NEW l, NEW C, NEW L,
           NEW Q \in Seq(Report), Q # <<>>, Head(Q).event = "tag_observed",
           NEW idx, NEW P, InLineAt(r, S, b, l, C, Q, L, idx, P)
    PROVE  /\ UnderWay(r) /\ Head(Q).marker = To(r.transit[r.progress])
           /\ r.transit[r.progress] \in S /\ S \subseteq AheadOf(r)
<1>1. r.progress \in Nat \ {0} /\ r.transit \in Seq(Block)
  BY DEF TrainState
<1>2. 1 \in 1..Len(Q) /\ Head(Q) = Q[1] /\ Len(Q) \in Nat
  OBVIOUS
<1>3. Q[1].event # "train_status"
  BY <1>2
<1>4. /\ idx \in [1..(Len(Q) + 1) -> r.progress..P] /\ idx[1] = r.progress
      /\ TagFits(r, S, Q, idx, 1, L)
      /\ BodyFits(r, S, b, P, L)
  BY <1>2, <1>3 DEF InLineAt, EventsFit
<1>5. 2 \in 1..(Len(Q) + 1)
  BY <1>2
<1>6. idx[2] \in r.progress..P /\ idx[2] = r.progress + 1
  <2>1. idx[1 + 1] = idx[1] + 1
    BY <1>4 DEF TagFits
  <2> QED
    BY <1>4, <1>5, <2>1
<1>7. P \in Nat /\ P >= r.progress /\ r.progress \in r.progress..(P - 1)
  <2>1. P >= r.progress + 1 /\ P \in Int
    BY <1>1, <1>4, <1>6 DEF BodyFits
  <2> QED
    BY <1>1, <2>1
<1>8. r.transit[r.progress] \in S
  BY <1>4, <1>7, CrossedIsHeld
<1>9. S \subseteq AheadOf(r)
  <2>1. ~(\E y \in 1..(1 - 1) : TRUE)
    OBVIOUS
  <2> QED
    BY <1>4, <2>1 DEF TagFits, Clear
<1> QED
  BY <1>2, <1>4, <1>8, <1>9 DEF TagFits, UnderWay

(* The scheduler learns that the train has passed the next marker.         *)
LEMMA TagTaken ==
    ASSUME NEW r \in TrainState, NEW s, NEW S, HoldsInOrder(r, S), NEW b, NEW l, NEW C, NEW L,
           NEW Q \in Seq(Report), Q # <<>>, Head(Q).event = "tag_observed",
           NEW idx, NEW P, InLineAt(r, S, b, l, C, Q, L, idx, P),
           s.transit = r.transit, s.progress = r.progress + 1,
           s.last = To(r.transit[r.progress])
    PROVE  InLine(s, S, b, l, C, Tail(Q), L)
<1> DEFINE p == r.progress
           T == r.transit
<1>1. /\ p \in Nat \ {0} /\ T \in Seq(Block) /\ Q[1].event # "train_status"
      /\ 1 \in 1..Len(Q) /\ Len(Q) \in Nat
  BY DEF TrainState
<1>2. /\ idx \in [1..(Len(Q) + 1) -> p..P] /\ idx[1] = p /\ TagFits(r, S, Q, idx, 1, L)
      /\ EventsFit(r, S, b, Q, idx, P, L) /\ BodyFits(r, S, b, P, L)
      /\ DeviceFits(r, S, b, l, C, P)
  BY <1>1 DEF InLineAt, EventsFit
<1>3. P \in Nat /\ P >= p
  BY <1>1, <1>2 DEF BodyFits
<1>4. idx[2] = p + 1 /\ P >= p + 1
  <2>1. idx[2] \in p..P
    <3>1. 2 \in 1..(Len(Q) + 1)
      BY <1>1
    <3> QED
      BY <1>2, <3>1
  <2>2. idx[2] = p + 1
    BY <1>2 DEF TagFits
  <2> QED
    BY <1>1, <1>3, <2>1, <2>2
<1>5. UnderWay(r) /\ T[p] \in S
  BY TagExpected
<1>6. \A i \in (p + 1)..P : PlaceAt(s, i) = PlaceAt(r, i)
  BY <1>1, <1>3 DEF PlaceAt
<1>7. \E jdx : EventsFit(s, S, b, Tail(Q), jdx, P, L)
  <2>1. s.progress = idx[2] /\ ~(idx[2] = p) /\ p \in Nat
    BY <1>1, <1>4
  <2>2. \A i \in idx[2]..P : PlaceAt(s, i) = PlaceAt(r, i)
    BY <1>4, <1>6
  <2> QED
    BY <1>2, <1>3, <2>1, <2>2, EventsLeft
<1>8. BodyFits(s, S, b, P, L)
  <2>1. /\ P \in p..(Len(T) + 1) /\ b.at = PlaceAt(r, P)
        /\ b.on # None => P \in DOMAIN T /\ b.on = T[P] /\ T[P] \in S
        /\ b.on = None => b.offset = 0
        /\ b.rear = T[P - 1] /\ T[P - 1] \in S
    BY <1>1, <1>2, <1>3, <1>4 DEF BodyFits
  <2>2. P \in (p + 1)..(Len(T) + 1) /\ b.at = PlaceAt(s, P)
    BY <1>1, <1>3, <1>4, <1>6, <2>1
  <2> QED
    BY <2>1, <2>2 DEF BodyFits
<1>9. DeviceFits(s, S, b, l, C, P)
  <2>1. \A k, D : GrantsFit(r, S, k, D) => GrantsFit(s, S, k, D)
    BY DEF GrantsFit
  <2>2. Follows(r, S, b, l, C, P) => Follows(s, S, b, l, C, P)
    <3>1. ASSUME NEW k \in 0..Len(T), FollowsTo(r, S, b, l, C, P, k)
          PROVE  FollowsTo(s, S, b, l, C, P, k)
      <4>1. k >= p + 1 => k >= p
        BY <1>1
      <4> QED
        BY <2>1, <3>1, <4>1 DEF FollowsTo
    <3> QED
      BY <3>1 DEF Follows
  <2>3. ~Parked(r, S, b, l, C, P)
    <3>1. P # 1
      BY <1>1, <1>3, <1>4
    <3>2. T # <<>>
      BY <1>1, <1>5 DEF UnderWay
    <3> QED
      BY <3>1, <3>2 DEF Parked
  <2> QED
    BY <1>2, <2>2, <2>3 DEF DeviceFits
<1> QED
  BY <1>7, <1>8, <1>9 DEF InLine, InLineAt

(* The scheduler learns how far on its block the train is, and may take    *)
(* back what is behind it.                                                 *)
LEMMA ReportTaken ==
    ASSUME NEW r \in TrainState, NEW s, NEW S, NEW H, OnItsWay(r), HoldsInOrder(r, S),
           NEW b, b.offset \in Nat, NEW l, NEW C, NEW L \in Nat,
           NEW Q \in Seq(Report), Q # <<>>, Head(Q).event = "train_status",
           NEW idx, NEW P, InLineAt(r, S, b, l, C, Q, L, idx, P),
           s.transit = r.transit, s.progress = r.progress, s.last = r.last,
           H # S => /\ UnderWay(r) /\ Head(Q).edge = r.transit[r.progress]
                    /\ Head(Q).distance >= L /\ H = S \cap AheadOf(r),
           UnderWay(r) /\ Head(Q).edge = r.transit[r.progress] /\ Head(Q).distance >= L =>
               H = S \cap AheadOf(r)
    PROVE  InLine(s, H, b, l, C, Tail(Q), L)
<1> DEFINE p == r.progress
           T == r.transit
           e == Head(Q)
<1>1. /\ p \in Nat \ {0} /\ T \in Seq(Block) /\ Q[1] = e
      /\ 1 \in 1..Len(Q) /\ Len(Q) \in Nat /\ Q[1].event # "tag_observed"
      /\ e \in Report
  BY DEF TrainState
<1>2. /\ idx \in [1..(Len(Q) + 1) -> p..P] /\ idx[1] = p /\ idx[1 + 1] = idx[1]
      /\ ReportFits(r, S, b, P, p, e)
      /\ EventsFit(r, S, b, Q, idx, P, L) /\ BodyFits(r, S, b, P, L)
      /\ DeviceFits(r, S, b, l, C, P)
  BY <1>1 DEF InLineAt, EventsFit
<1>3. P \in Nat /\ P >= p /\ e.distance \in Nat /\ idx[2] = p
  <2>1. P \in Nat /\ P >= p
    BY <1>1, <1>2 DEF BodyFits
  <2>2. e.distance \in Nat
    BY <1>1 DEF Report
  <2> QED
    BY <1>2, <2>1, <2>2
<1>4. \A i \in DOMAIN T : i >= p /\ T[i] \in S => T[i] \in H
  BY DEF AheadOf
<1>5. AheadOf(s) = AheadOf(r) /\ \A i : PlaceAt(s, i) = PlaceAt(r, i)
  BY DEF AheadOf, PlaceAt
<1>6. S \subseteq AheadOf(r) \/ SaysClear(r, p, e, L) => H \subseteq AheadOf(s)
  <2>1. SaysClear(r, p, e, L) => UnderWay(r) /\ e.edge = T[p] /\ e.distance >= L
    BY DEF SaysClear, UnderWay
  <2> QED
    BY <1>5, <2>1
<1>7. \E jdx : EventsFit(s, H, b, Tail(Q), jdx, P, L)
  <2>1. s.progress = idx[2] /\ p \in Nat
    BY <1>1, <1>3
  <2>2. \A i \in idx[2]..P : PlaceAt(s, i) = PlaceAt(r, i)
    BY <1>5
  <2>3. \A i \in DOMAIN T : i >= idx[2] /\ T[i] \in S => T[i] \in H
    BY <1>3, <1>4
  <2>4. idx[2] = p /\ (S \subseteq AheadOf(r) \/ SaysClear(r, p, Q[1], L)) => H \subseteq AheadOf(s)
    BY <1>1, <1>6
  <2> QED
    BY <1>2, <1>3, <2>1, <2>2, <2>3, <2>4, EventsLeft
<1>8. BodyFits(s, H, b, P, L)
  <2>1. ASSUME P = p, b.rear # None, b.offset < L
        PROVE  b.rear \in H
    <3>1. b.rear \in S
      BY <1>2, <2>1 DEF BodyFits
    <3>2. ASSUME H # S
          PROVE  FALSE
      <4>1. e.edge = T[p] /\ UnderWay(r) /\ e.distance >= L
        BY <3>2
      <4>2. From(e.edge) = PlaceAt(r, p)
        <5>1. T # <<>>
          BY <1>1, <4>1 DEF UnderWay
        <5> QED
          BY <4>1, <5>1 DEF OnItsWay, Place, PlaceAt
      <4>3. e.edge # None
        BY <1>1, <4>1, LayoutAssumption DEF UnderWay
      <4> QED
        BY <1>2, <1>3, <2>1, <4>1, <4>2, <4>3 DEF ReportFits
    <3> QED
      BY <3>1, <3>2
  <2>2. P - 1 >= p /\ P - 1 \in DOMAIN T => (T[P - 1] \in S => T[P - 1] \in H)
    BY <1>4
  <2>3. P > p => P - 1 >= p /\ P - 1 \in DOMAIN T
    <3>1. P \in p..(Len(T) + 1) /\ DOMAIN T = 1..Len(T) /\ Len(T) \in Nat /\ p \in Nat \ {0}
      BY <1>1, <1>2 DEF BodyFits
    <3> HIDE DEF p, T
    <3> QED
      BY <1>3, <3>1
  <2> QED
    BY <1>2, <1>3, <1>4, <1>5, <2>1, <2>2, <2>3 DEF BodyFits
<1>9. DeviceFits(s, H, b, l, C, P)
  <2>1. ASSUME NEW k \in Nat, NEW D, GrantsFit(r, S, k, D), k >= p - 1
        PROVE  GrantsFit(s, H, k, D)
    <3>1. PICK g \in [DOMAIN D -> DOMAIN T] :
            \A x \in DOMAIN D :
                /\ D[x] = GrantClearance(To(T[g[x]]))
                /\ T[g[x]] \in S /\ g[x] > k
                /\ \A y \in DOMAIN D : x < y => g[x] < g[y]
      BY <2>1 DEF GrantsFit
    <3>2. ASSUME NEW x \in DOMAIN D
          PROVE  T[g[x]] \in H
      <4>1. g[x] \in DOMAIN T /\ g[x] > k /\ T[g[x]] \in S
        BY <3>1
      <4>2. g[x] >= p
        BY <1>1, <2>1, <4>1
      <4> QED
        BY <1>4, <4>1, <4>2
    <3> QED
      BY <3>1, <3>2 DEF GrantsFit
  <2>2. Follows(r, S, b, l, C, P) => Follows(s, H, b, l, C, P)
    <3>1. ASSUME NEW k \in 0..Len(T), FollowsTo(r, S, b, l, C, P, k)
          PROVE  FollowsTo(s, H, b, l, C, P, k)
      <4>1. k \in Nat /\ P - 1 <= k /\ k >= p - 1
        BY <1>1, <1>3, <3>1 DEF FollowsTo
      <4>2. k >= p => T[k] \in H
        <5> HAVE k >= p
        <5>1. k \in DOMAIN T
          BY <1>1
        <5>2. T[k] \in S
          BY <3>1 DEF FollowsTo
        <5> QED
          BY <1>4, <5>1, <5>2
      <4>3. GrantsFit(s, H, k, C)
        BY <2>1, <3>1, <4>1 DEF FollowsTo
      <4> QED
        BY <3>1, <4>2, <4>3 DEF FollowsTo
    <3> QED
      BY <3>1 DEF Follows
  <2>3. Parked(r, S, b, l, C, P) => Parked(s, H, b, l, C, P)
    <3>1. P = 1 => 0 >= p - 1
      BY <1>1, <1>3
    <3> QED
      BY <2>1, <3>1 DEF Parked
  <2> QED
    BY <1>2, <2>2, <2>3 DEF DeviceFits
<1> QED
  BY <1>7, <1>8, <1>9 DEF InLine, InLineAt

-----------------------------------------------------------------------------
(* A train runs.                                                           *)

(* A train whose motor runs is on its way, on or before a block that it    *)
(* holds, and its device knows.                                            *)
LEMMA RunsOnItsWay ==
    ASSUME NEW r \in TrainState, NEW S, OnItsWay(r), HoldsInOrder(r, S), NEW b, NEW l, NEW C,
           NEW P, NEW L, BodyFits(r, S, b, P, L), DeviceFits(r, S, b, l, C, P),
           l.motion = "forward"
    PROVE  /\ l.powered /\ P \in DOMAIN r.transit /\ P \in Nat /\ P >= r.progress
           /\ r.transit[P] \in S
           /\ r.transit[P] \in Declared /\ From(r.transit[P]) = b.at
           /\ b.on # None => b.on = r.transit[P]
           /\ l.route = r.transit /\ l.progress = P /\ l.distance = b.offset
           /\ \E k \in DOMAIN r.transit :
                 k >= P /\ r.transit[k] \in S /\ FollowsTo(r, S, b, l, C, P, k)
<1> DEFINE p == r.progress
           T == r.transit
<1>1. p \in Nat \ {0} /\ T \in Seq(Block) /\ DOMAIN T = 1..Len(T) /\ Len(T) \in Nat
  BY DEF TrainState
<1>2. l.motion # "stopped"
  OBVIOUS
<1>3. l.powered /\ Follows(r, S, b, l, C, P)
  BY <1>2 DEF DeviceFits, Parked
<1>4. PICK k \in 0..Len(T) : FollowsTo(r, S, b, l, C, P, k)
  BY <1>3 DEF Follows
<1>5. P \in p..(Len(T) + 1) /\ b.at = PlaceAt(r, P)
      /\ (b.on # None => b.on = T[P])
  BY DEF BodyFits
<1>6. k >= P /\ P \in DOMAIN T /\ P \in Nat /\ P >= p /\ k \in DOMAIN T /\ k >= p
  <2>1. k >= P
    BY <1>4 DEF FollowsTo
  <2> QED
    BY <1>1, <1>5, <2>1
<1>7. T[k] \in S
  BY <1>4, <1>6 DEF FollowsTo
<1>8. T[P] \in S
  BY <1>1, <1>6, <1>7 DEF HoldsInOrder
<1>9. IsWay(T) /\ T \in Seq(Declared)
  BY DEF OnItsWay, IsWay
<1>10. From(T[P]) = b.at
  <2>1. CASE P = p
    BY <1>1, <1>5, <1>6, <2>1 DEF OnItsWay, Place, UnderWay, PlaceAt
  <2>2. CASE P # p
    <3>1. P - 1 \in DOMAIN T /\ P - 1 + 1 = P
      BY <1>1, <1>6, <2>2
    <3>2. From(T[P]) = To(T[P - 1])
      BY <1>6, <1>9, <3>1 DEF IsWay
    <3> QED
      BY <1>5, <2>2, <3>2 DEF PlaceAt
  <2> QED
    BY <2>1, <2>2
<1>11. l.route = T /\ l.progress = P /\ l.distance = b.offset
  BY <1>4, <1>6 DEF FollowsTo
<1> QED
  BY <1>3, <1>4, <1>5, <1>6, <1>7, <1>8, <1>9, <1>10, <1>11

(* The distance the device reckons is that which the train has come.       *)
LEMMA ReckonedIsTrue ==
    ASSUME NEW l, l.route # <<>>, l.distance \in Nat,
           EdgeLength[l.route[l.progress]] \in Nat, l.distance + 1 <= EdgeLength[l.route[l.progress]]
    PROVE  Reckoned(l) = l.distance + 1
<1> DEFINE x == l.distance + 1
           y == EdgeLength[l.route[l.progress]]
<1>1. x \in Nat /\ y \in Nat /\ x <= y
  OBVIOUS
<1> HIDE DEF x, y
<1>2. Min({x, y}) \in {x, y} /\ \A k \in {x, y} : Min({x, y}) <= k
  BY <1>1, LeastNumber
<1>3. Min({x, y}) = x
  BY <1>1, <1>2
<1> QED
  BY <1>1, <1>3 DEF Reckoned, x, y

(* It runs on along its block.                                             *)
LEMMA RunOn ==
    ASSUME NEW r \in TrainState, NEW S, OnItsWay(r), HoldsInOrder(r, S),
           NEW b \in Body, NEW l, LocoOK(l), NEW C, NEW Q \in Seq(Report), NEW L \in Nat,
           NEW idx, NEW P, InLineAt(r, S, b, l, C, Q, L, idx, P),
           l.motion = "forward",
           EdgeLength[r.transit[P]] \in Nat, b.offset + 1 <= EdgeLength[r.transit[P]],
           NEW c, c = [b EXCEPT !.on = r.transit[P], !.offset = @ + 1],
           NEW m, m = [l EXCEPT !.distance = Reckoned(l)]
    PROVE  InLine(r, S, c, m, C, Append(Q, TrainStatus(m)), L)
<1> DEFINE p == r.progress
           T == r.transit
           e == TrainStatus(m)
<1>1. /\ EventsFit(r, S, b, Q, idx, P, L) /\ BodyFits(r, S, b, P, L)
      /\ DeviceFits(r, S, b, l, C, P)
      /\ p \in Nat /\ T \in Seq(Block)
  BY DEF InLineAt, TrainState
<1>2. /\ l.powered /\ P \in DOMAIN T /\ P \in Nat /\ P >= p /\ T[P] \in S
      /\ l.route = T /\ l.progress = P /\ l.distance = b.offset
  BY <1>1, RunsOnItsWay
<1>3. PICK k \in DOMAIN T : k >= P /\ FollowsTo(r, S, b, l, C, P, k)
  BY <1>1, RunsOnItsWay
<1>4. b.offset \in Nat
  BY DEF Body
<1>5. Reckoned(l) = b.offset + 1
  <2>1. l.route # <<>>
    BY <1>1, <1>2
  <2> QED
    BY <1>2, <1>4, <2>1, ReckonedIsTrue
<1>6. /\ c.at = b.at /\ c.on = T[P] /\ c.offset = b.offset + 1 /\ c.rear = b.rear
  BY DEF Body
<1>7. /\ m.route = T /\ m.progress = P /\ m.distance = b.offset + 1
      /\ m.limit = l.limit /\ m.motion = l.motion /\ m.powered = l.powered
      /\ LocoOK(m)
  <2>1. LocoOK(m)
    BY ReckonedTyped
  <2> QED
    BY <1>2, <1>5, <2>1 DEF LocoOK
<1>8. /\ e.event = "train_status" /\ e.edge = T[P] /\ e.distance = b.offset + 1
      /\ e \in Report
  <2>1. T # <<>>
    BY <1>1, <1>2
  <2>2. e \in Report
    BY <1>7, StatusIsReport
  <2> QED
    BY <1>7, <2>1, <2>2 DEF TrainStatus
<1> HIDE DEF e
<1>9. ReportFits(r, S, c, P, P, e)
  BY <1>2, <1>4, <1>6, <1>8 DEF ReportFits
<1>10. c.offset >= L => SaysClear(r, P, e, L)
  BY <1>2, <1>6, <1>8 DEF SaysClear
<1>11. \A x \in 1..Len(Q) : Q[x].event = "train_status" => Q[x].distance \in Nat
  <2>1. \A x \in 1..Len(Q) : Q[x] \in Report
    OBVIOUS
  <2> QED
    BY <2>1 DEF Report
<1>12. \A d \in Nat : d <= b.offset => d <= c.offset
  BY <1>4, <1>6
<1>13. \E jdx : EventsFit(r, S, c, Append(Q, e), jdx, P, L)
  BY <1>1, <1>2, <1>8, <1>9, <1>10, <1>11, <1>12, OneMoreReport
<1>14. BodyFits(r, S, c, P, L)
  BY <1>1, <1>2, <1>4, <1>6, LayoutAssumption DEF BodyFits
<1>15. FollowsTo(r, S, c, m, C, P, k)
  BY <1>2, <1>3, <1>6, <1>7 DEF FollowsTo
<1>16. DeviceFits(r, S, c, m, C, P)
  BY <1>1, <1>2, <1>3, <1>7, <1>15 DEF DeviceFits, Follows
<1> QED
  BY <1>13, <1>14, <1>16 DEF InLine, InLineAt, e

(* Numbers go round. *)
LEMMA RoundTheRoute ==
    ASSUME NEW n \in Nat \ {0}, NEW i \in 1..n
    PROVE  /\ i < n => i % n = i
           /\ i = n => i % n = 0
<1>1. CASE i < n
  <2>1. i = n * 0 + i /\ i \in 0..(n - 1)
    BY <1>1
  <2> QED
    BY <1>1, <2>1
<1>2. CASE i = n
  <2>1. n % n = 0
    OBVIOUS
  <2> QED
    BY <1>2, <2>1
<1> QED
  BY <1>1, <1>2

(* What the device makes of the marker at the end of its block: it is on   *)
(* to the next, or done, and goes no farther than to its limit.            *)
LEMMA OnToTheNext ==
    ASSUME NEW r \in TrainState, NEW S, IsWay(r.transit), NEW b, NEW c, NEW l, LocoOK(l), NEW C,
           NEW P \in Nat, P \in DOMAIN r.transit, P >= r.progress,
           NEW k \in DOMAIN r.transit, k >= P, FollowsTo(r, S, b, l, C, P, k),
           c.offset = 0
    PROVE  LET m == OnMarker(l, To(r.transit[P]))
           IN  /\ m.route = r.transit /\ m.distance = 0
               /\ P < Len(r.transit) => m.progress = P + 1
               /\ P = Len(r.transit) => m.progress = 1
               /\ FollowsTo(r, S, c, m, C, P + 1, k)
<1> DEFINE T == r.transit
           x == To(T[P])
           a == [l EXCEPT !.progress = 1 + (@ % Len(l.route)), !.distance = 0]
           m == OnMarker(l, x)
           next == 1 + (P % Len(T))
<1>1. T \in Seq(Block) /\ Len(T) \in Nat /\ DOMAIN T = 1..Len(T) /\ T # <<>>
  BY DEF TrainState
<1>2. /\ l.route = T /\ l.progress = P
      /\ IF k = 0 THEN l.limit = None ELSE l.limit = To(T[k])
      /\ P - 1 <= k /\ (k >= r.progress => T[k] \in S)
      /\ GrantsFit(r, S, k, C)
  BY DEF FollowsTo
<1>3. /\ P < Len(T) => next = P + 1
      /\ P = Len(T) => next = 1
  <2> DEFINE n == Len(T)
  <2>1. n \in Nat \ {0} /\ P \in 1..n
    BY <1>1
  <2> HIDE DEF n
  <2>2. /\ P < n => P % n = P
        /\ P = n => P % n = 0
    BY ONLY <2>1, RoundTheRoute, Zenon
  <2> DEFINE q == P % n
  <2>3. (P < n => q = P) /\ (P = n => q = 0)
    BY <2>2
  <2> HIDE DEF q
  <2>4. /\ P < n => 1 + q = P + 1
        /\ P = n => 1 + q = 1
    BY <2>1, <2>3
  <2> QED
    BY <2>4 DEF n, q, next
<1> HIDE DEF next
<1>4. m = IF l.limit = x THEN Stopped(a) ELSE a
  BY <1>1, <1>2 DEF OnMarker
<1>5. /\ a.route = T /\ a.progress = next /\ a.distance = 0
      /\ a.limit = l.limit /\ a.motion = l.motion /\ a.powered = l.powered
  BY <1>2 DEF LocoOK, next
<1>6. /\ m.route = T /\ m.progress = next /\ m.distance = 0
      /\ m.limit = l.limit
      /\ m.motion = IF l.limit = x THEN "stopped" ELSE l.motion
  <2>1. a = [a EXCEPT !.limit = l.limit] /\ DOMAIN a = DOMAIN l
    BY DEF LocoOK
  <2>2. Stopped(a) = [a EXCEPT !.motion = "stopped"] /\ "motion" \in DOMAIN a
    BY <2>1 DEF Stopped, LocoOK
  <2> HIDE DEF a
  <2> QED
    BY <1>4, <1>5, <2>2
<1> HIDE DEF a, m
<1>7. k \in Nat /\ k # 0
  BY <1>1
<1>8. m.motion = "forward" => k >= P + 1
  <2>1. k = P => l.limit = x
    BY <1>2, <1>7
  <2> QED
    BY <1>6, <1>7, <2>1
<1>9. P < Len(T) => m.progress = P + 1
  BY <1>3, <1>6
<1>10. P = Len(T) => m.progress = 1
  BY <1>3, <1>6
<1>11. /\ P + 1 \in DOMAIN T => P < Len(T)
       /\ P + 1 \notin DOMAIN T => P = Len(T)
  BY <1>1
<1>12. P + 1 - 1 <= k
  BY <1>7
<1>13. FollowsTo(r, S, c, m, C, P + 1, k)
  BY <1>1, <1>2, <1>6, <1>8, <1>9, <1>10, <1>11, <1>12 DEF FollowsTo
<1> QED
  BY <1>6, <1>9, <1>10, <1>13 DEF m

(* Two at once are one after the other.                                    *)
LEMMA TwoMore ==
    ASSUME NEW V, NEW Q \in Seq(V), NEW x \in V, NEW y \in V
    PROVE  Append(Append(Q, x), y) = Q \o <<x, y>>
<1> DEFINE A == Append(Append(Q, x), y)
           B == Q \o <<x, y>>
<1>1. Len(Q) \in Nat /\ Append(Q, x) \in Seq(V) /\ Len(Append(Q, x)) = Len(Q) + 1
  OBVIOUS
<1>2. A \in Seq(V) /\ B \in Seq(V) /\ Len(A) = Len(Q) + 2 /\ Len(B) = Len(Q) + 2
  BY <1>1
<1>3. ASSUME NEW i \in 1..(Len(Q) + 2)
      PROVE  A[i] = B[i]
  BY <1>1
<1> HIDE DEF A, B
<1> QED
  BY <1>1, <1>2, <1>3

(* It comes to the end of its block.                                       *)
LEMMA RunIn ==
    ASSUME NEW r \in TrainState, NEW S, OnItsWay(r), HoldsInOrder(r, S),
           NEW b \in Body, NEW l, LocoOK(l), NEW C, NEW Q \in Seq(Report), NEW L \in Nat \ {0},
           NEW idx, NEW P, InLineAt(r, S, b, l, C, Q, L, idx, P),
           l.motion = "forward", b.offset >= L,
           NEW c, c = [at |-> To(r.transit[P]), on |-> None, offset |-> 0, rear |-> r.transit[P]],
           NEW m, m = OnMarker(l, To(r.transit[P]))
    PROVE  InLine(r, S, c, m, C,
                  Q \o <<TagObserved(To(r.transit[P])), TrainStatus(m)>>, L)
<1> DEFINE p == r.progress
           T == r.transit
           x == To(T[P])
           tag == TagObserved(x)
           e == TrainStatus(m)
<1>1. /\ EventsFit(r, S, b, Q, idx, P, L) /\ BodyFits(r, S, b, P, L)
      /\ DeviceFits(r, S, b, l, C, P)
      /\ p \in Nat /\ T \in Seq(Block)
      /\ b.offset \in Nat
  BY DEF InLineAt, TrainState, Body
<1>2. /\ l.powered /\ P \in DOMAIN T /\ P \in Nat /\ P >= p /\ T[P] \in S /\ T[P] \in Declared
      /\ l.route = T /\ l.progress = P
  BY <1>1, RunsOnItsWay
<1>3. PICK k \in DOMAIN T : k >= P /\ FollowsTo(r, S, b, l, C, P, k)
  BY <1>1, RunsOnItsWay
<1>4. /\ c.at = x /\ c.on = None /\ c.offset = 0 /\ c.rear = T[P]
  OBVIOUS
<1>5. /\ m.route = T /\ m.distance = 0
      /\ P < Len(T) => m.progress = P + 1
      /\ P = Len(T) => m.progress = 1
      /\ FollowsTo(r, S, c, m, C, P + 1, k)
  BY <1>2, <1>3, <1>4, OnToTheNext DEF OnItsWay
<1>6. LocoOK(m)
  BY OnMarkerTyped
<1>7. x \in Marker
  BY <1>2, BlockEnds DEF Block
<1>8. tag.event = "tag_observed" /\ tag.marker = x /\ tag \in Report
  BY <1>7 DEF TagObserved, Report
<1>9. /\ e.event = "train_status" /\ e.distance = 0 /\ e \in Report
      /\ e.edge = T[m.progress]
  <2>1. T # <<>>
    BY <1>1, <1>2
  <2>2. e \in Report
    BY <1>6, StatusIsReport
  <2> QED
    BY <1>5, <2>1, <2>2 DEF TrainStatus
<1> HIDE DEF tag, e
<1>10. PICK jdx : EventsFit(r, S, c, Append(Q, tag), jdx, P + 1, L)
  <2>1. Q \in Seq(Report) /\ L \in Nat /\ c.offset < L /\ c.offset \in Nat
    BY <1>4
  <2>2. tag.marker = To(r.transit[P])
    BY <1>8
  <2> QED
    BY <1>1, <1>2, <1>8, <2>1, <2>2, OneMoreTag
<1>11. PlaceAt(r, P + 1) = x
  BY <1>1, <1>2 DEF PlaceAt
<1>12. ReportFits(r, S, c, P + 1, P + 1, e)
  <2>1. CASE P < Len(T)
    <3>1. P + 1 \in DOMAIN T /\ ~(0 > 0)
      BY <1>1, <1>2, <2>1
    <3> QED
      BY <1>4, <1>5, <1>9, <2>1, <3>1 DEF ReportFits
  <2>2. CASE P = Len(T)
    <3>1. From(T[1]) # x
      BY <1>2 DEF OnItsWay, IsWay
    <3> QED
      BY <1>5, <1>9, <1>11, <2>2, <3>1 DEF ReportFits
  <2> QED
    BY <1>1, <1>2, <2>1, <2>2
<1>13. PICK D : D = Append(Q, tag)
  OBVIOUS
<1>14. D \in Seq(Report)
  BY <1>8, <1>13
<1>15. \A y \in 1..Len(D) : D[y].event = "train_status" => D[y].distance \in Nat
  <2>1. \A y \in 1..Len(D) : D[y] \in Report
    BY <1>14
  <2> QED
    BY <2>1 DEF Report
<1>16. \E kdx : EventsFit(r, S, c, Append(D, e), kdx, P + 1, L)
  <2>1. P + 1 \in Nat /\ L \in Nat /\ ~(c.offset >= L)
    BY <1>2, <1>4
  <2>2. EventsFit(r, S, c, D, jdx, P + 1, L)
    BY <1>10, <1>13
  <2> QED
    BY <1>1, <1>9, <1>12, <1>14, <1>15, <2>1, <2>2, OneMoreReport
<1>17. Append(D, e) = Q \o <<tag, e>>
  BY <1>8, <1>9, <1>13, TwoMore
<1>18. BodyFits(r, S, c, P + 1, L)
  <2>1. P + 1 \in p..(Len(T) + 1) /\ P + 1 # p /\ P + 1 - 1 = P
    BY <1>1, <1>2
  <2> QED
    BY <1>2, <1>4, <1>11, <2>1 DEF BodyFits
<1>19. m.powered
  <2>1. LocoOK(Stopped(l))
    BY StoppedTyped
  <2> QED
    BY <1>2 DEF OnMarker, Stopped, LocoOK
<1>20. DeviceFits(r, S, c, m, C, P + 1)
  BY <1>1, <1>3, <1>5, <1>19 DEF DeviceFits, Follows
<1> QED
  BY <1>16, <1>17, <1>18, <1>20 DEF InLine, InLineAt, tag, e

-----------------------------------------------------------------------------
(* A train stands, obeys, or dies.                                         *)

(* What it reports while it stands is where it is.                         *)
LEMMA Stands ==
    ASSUME NEW r \in TrainState, NEW S, OnItsWay(r), NEW b \in Body, NEW l, LocoOK(l), l.powered,
           l.route # <<>>, NEW C, NEW L \in Nat, NEW Q \in Seq(Report), NEW idx, NEW P,
           InLineAt(r, S, b, l, C, Q, L, idx, P)
    PROVE  InLine(r, S, b, l, C, Append(Q, TrainStatus(l)), L)
<1> DEFINE p == r.progress
           T == r.transit
           e == TrainStatus(l)
<1>1. /\ EventsFit(r, S, b, Q, idx, P, L) /\ BodyFits(r, S, b, P, L)
      /\ DeviceFits(r, S, b, l, C, P)
      /\ p \in Nat \ {0} /\ T \in Seq(Block) /\ Len(T) \in Nat /\ DOMAIN T = 1..Len(T)
      /\ b.offset \in Nat
  BY DEF InLineAt, TrainState, Body
<1>2. /\ P \in p..(Len(T) + 1) /\ P \in Nat /\ b.at = PlaceAt(r, P)
      /\ b.on # None => P \in DOMAIN T /\ T[P] \in S
      /\ b.on = None => b.offset = 0
  BY <1>1 DEF BodyFits
<1>3. /\ e.event = "train_status" /\ e.distance = l.distance /\ e \in Report
      /\ e.edge = l.route[l.progress]
  BY StatusIsReport DEF TrainStatus
<1> HIDE DEF e
<1>4. ReportFits(r, S, b, P, P, e)
  <2>1. CASE Parked(r, S, b, l, C, P)
    BY <1>2, <1>3, <2>1 DEF Parked, ReportFits
  <2>2. ASSUME NEW k \in 0..Len(T), FollowsTo(r, S, b, l, C, P, k)
        PROVE  ReportFits(r, S, b, P, P, e)
    <3>1. CASE P \in DOMAIN T
      <4>1. e.edge = T[P] /\ e.distance = b.offset
        BY <1>3, <2>2, <3>1 DEF FollowsTo
      <4>2. b.offset > 0 => T[P] \in S
        BY <1>2
      <4> QED
        BY <1>1, <3>1, <4>1, <4>2 DEF ReportFits
    <3>2. CASE P \notin DOMAIN T
      <4>1. P = Len(T) + 1 /\ T # <<>> /\ Len(T) \in DOMAIN T
        BY <1>1, <1>2, <2>2, <3>2 DEF FollowsTo
      <4>2. e.edge = T[1]
        BY <1>3, <2>2, <3>2 DEF FollowsTo
      <4>3. PlaceAt(r, P) = To(T[Len(T)])
        <5>1. CASE P = p
          BY <3>2, <4>1, <5>1 DEF PlaceAt, OnItsWay, Place, UnderWay
        <5>2. CASE P # p
          <6>1. P - 1 = Len(T)
            BY <1>1, <4>1
          <6> QED
            BY <5>2, <6>1 DEF PlaceAt
        <5> QED
          BY <5>1, <5>2
      <4>4. From(T[1]) # To(T[Len(T)])
        BY <4>1 DEF OnItsWay, IsWay
      <4> QED
        BY <4>2, <4>3, <4>4 DEF ReportFits
    <3> QED
      BY <3>1, <3>2
  <2> QED
    BY <1>1, <2>1, <2>2 DEF DeviceFits, Follows
<1>5. \A x \in 1..Len(Q) : Q[x].event = "train_status" => Q[x].distance \in Nat
  <2>1. \A x \in 1..Len(Q) : Q[x] \in Report
    OBVIOUS
  <2> QED
    BY <2>1 DEF Report
<1>6. \E jdx : EventsFit(r, S, b, Append(Q, e), jdx, P, L)
  BY <1>1, <1>2, <1>3, <1>4, <1>5, OneMoreReport
<1> QED
  BY <1>1, <1>6 DEF InLine, InLineAt, e

(* A dead train and a train that loses a grant stay in line.               *)
LEMMA LessIsInLine ==
    ASSUME NEW r, r.transit \in Seq(Block), NEW S, NEW b, NEW l, NEW C, Commands(C), C # <<>>,
           NEW L, NEW Q,
           ~l.powered \/ Head(C).command = "grant_clearance",
           InLine(r, S, b, l, C, Q, L)
    PROVE  InLine(r, S, b, l, Tail(C), Q, L)
<1>1. PICK idx, P : InLineAt(r, S, b, l, C, Q, L, idx, P)
  BY DEF InLine
<1>2. C \in Seq(Range(C))
  BY DEF Commands
<1>3. DeviceFits(r, S, b, l, Tail(C), P)
  <2>1. CASE ~l.powered
    BY <1>1, <2>1 DEF InLineAt, DeviceFits
  <2>2. CASE l.powered /\ Head(C).command = "grant_clearance"
    <3>1. ~Parked(r, S, b, l, C, P)
      <4>1. AssignRoute(r.transit).command # "grant_clearance"
        BY DEF AssignRoute
      <4> QED
        BY <2>2, <4>1 DEF Parked
    <3>2. PICK k \in 0..Len(r.transit) : FollowsTo(r, S, b, l, C, P, k)
      BY <1>1, <2>2, <3>1 DEF InLineAt, DeviceFits, Follows
    <3>3. k \in Nat
      OBVIOUS
    <3>4. GrantsFit(r, S, k, Tail(C))
      <4>1. GrantsFit(r, S, k, C)
        BY <3>2 DEF FollowsTo
      <4> QED
        BY <1>2, <3>3, <4>1, GrantsLeft
    <3>5. FollowsTo(r, S, b, l, Tail(C), P, k)
      BY <3>2, <3>4 DEF FollowsTo
    <3> QED
      BY <2>2, <3>5 DEF DeviceFits, Follows
  <2> QED
    BY <2>1, <2>2
<1> QED
  BY <1>1, <1>3 DEF InLine, InLineAt

(* A train that obeys its next command stays in line.                      *)
LEMMA ObeysInLine ==
    ASSUME NEW r \in TrainState, NEW S, NEW b, NEW l, LocoOK(l), l.powered,
           NEW C, Commands(C), C # <<>>, NEW L, NEW Q,
           InLine(r, S, b, l, C, Q, L)
    PROVE  InLine(r, S, b, Obeyed(l, Head(C)), Tail(C), Q, L)
<1> DEFINE p == r.progress
           T == r.transit
           m == Obeyed(l, Head(C))
<1>1. PICK idx, P : InLineAt(r, S, b, l, C, Q, L, idx, P)
  BY DEF InLine
<1>2. /\ C \in Seq(Range(C)) /\ p \in Nat \ {0} /\ T \in Seq(Block) /\ Len(T) \in Nat
      /\ DOMAIN T = 1..Len(T)
  BY DEF Commands, TrainState
<1>3. BodyFits(r, S, b, P, L) /\ DeviceFits(r, S, b, l, C, P)
  BY <1>1 DEF InLineAt
<1>4. P \in p..(Len(T) + 1) /\ P \in Nat
  BY <1>2, <1>3 DEF BodyFits
<1>5. DeviceFits(r, S, b, m, Tail(C), P)
  <2>1. CASE Parked(r, S, b, l, C, P)
    <3>1. /\ T # <<>> /\ P = 1 /\ Head(C) = AssignRoute(T) /\ GrantsFit(r, S, 0, Tail(C))
          /\ b.on = None
      BY <2>1 DEF Parked
    <3>2. b.offset = 0
      BY <1>3, <3>1 DEF BodyFits
    <3>3. m = [Stopped(l) EXCEPT !.route = T, !.progress = 1, !.distance = 0, !.limit = None]
      <4> DEFINE h == Head(C)
      <4>1. h.command = "assign_route" /\ h.route = T
        BY <3>1 DEF AssignRoute
      <4> HIDE DEF h
      <4>2. Obeyed(l, h) = [Stopped(l) EXCEPT !.route = h.route, !.progress = 1,
                                              !.distance = 0, !.limit = None]
        BY <4>1 DEF Obeyed
      <4>3. Obeyed(l, h) = [Stopped(l) EXCEPT !.route = T, !.progress = 1,
                                              !.distance = 0, !.limit = None]
        BY <4>1, <4>2, Zenon
      <4> QED
        BY <4>3 DEF h
    <3>4. /\ m.route = T /\ m.progress = 1 /\ m.distance = 0 /\ m.limit = None
          /\ m.motion = "stopped" /\ m.powered
      <4>1. LocoOK(Stopped(l)) /\ Stopped(l).motion = "stopped" /\ Stopped(l).powered
        BY StoppedTyped DEF Stopped, LocoOK
      <4> HIDE DEF m
      <4> QED
        BY <3>3, <4>1 DEF LocoOK
    <3> HIDE DEF m
    <3>5. 0 \in 0..Len(T) /\ P - 1 <= 0 /\ ~(0 >= p) /\ P \in DOMAIN T /\ m.motion # "forward"
      BY <1>2, <3>1, <3>4
    <3>6. FollowsTo(r, S, b, m, Tail(C), P, 0)
      BY <3>1, <3>2, <3>4, <3>5 DEF FollowsTo
    <3> QED
      BY <3>4, <3>5, <3>6 DEF DeviceFits, Follows
  <2>2. ASSUME NEW k \in 0..Len(T), FollowsTo(r, S, b, l, C, P, k)
        PROVE  DeviceFits(r, S, b, m, Tail(C), P)
    <3>1. k \in Nat /\ GrantsFit(r, S, k, C)
      BY <2>2 DEF FollowsTo
    <3>2. PICK j \in DOMAIN T :
             /\ Head(C) = GrantClearance(To(T[j])) /\ j > k /\ T[j] \in S
             /\ GrantsFit(r, S, j, Tail(C))
      BY <1>2, <3>1, GrantsLeft
    <3>3. m = OnGrantClearance(l, To(T[j]))
      BY <3>2 DEF Obeyed, GrantClearance
    <3>4. /\ m.route = l.route /\ m.progress = l.progress /\ m.distance = l.distance
          /\ m.limit = To(T[j]) /\ m.powered
      BY <3>3 DEF OnGrantClearance, LocoOK
    <3> HIDE DEF m
    <3>5. j \in 0..Len(T) /\ j # 0 /\ P - 1 <= j /\ j >= P
      BY <1>2, <1>4, <2>2, <3>2 DEF FollowsTo
    <3>6. FollowsTo(r, S, b, m, Tail(C), P, j)
      BY <2>2, <3>2, <3>4, <3>5 DEF FollowsTo
    <3> QED
      BY <3>4, <3>5, <3>6 DEF DeviceFits, Follows
  <2> QED
    BY <1>3, <2>1, <2>2 DEF DeviceFits, Follows
<1> QED
  BY <1>1, <1>5 DEF InLine, InLineAt

-----------------------------------------------------------------------------
(* What a train is told.                                                   *)

(* Of finitely many numbers, each rank belongs to one, and higher ranks to *)
(* higher numbers.                                                         *)
LEMMA Ranks ==
    ASSUME NEW m \in Nat, NEW got \in SUBSET (1..m)
    PROVE  LET rank(i) == Cardinality({k \in got : k <= i})
               at == [n \in 1..Cardinality(got) |-> CHOOSE i \in got : rank(i) = n]
           IN  /\ Cardinality(got) \in Nat
               /\ at \in [1..Cardinality(got) -> got]
               /\ \A x, y \in 1..Cardinality(got) : x < y => at[x] < at[y]
<1> DEFINE upto(i) == {k \in got : k <= i}
           rank == [i \in got |-> Cardinality(upto(i))]
           N == Cardinality(got)
           at == [n \in 1..N |-> CHOOSE i \in got : Cardinality(upto(i)) = n]
<1>0. \A k \in got : k \in Nat
  OBVIOUS
<1>1. IsFiniteSet(got) /\ N \in Nat
  <2>1. IsFiniteSet(1..m)
    BY FS_Interval
  <2> QED
    BY <2>1, FS_Subset, FS_CardinalityType
<1>2. ASSUME NEW i \in got
      PROVE  IsFiniteSet(upto(i)) /\ rank[i] \in Nat /\ rank[i] \in 1..N
  <2>1. upto(i) \in SUBSET got /\ i \in upto(i)
    OBVIOUS
  <2>2. IsFiniteSet(upto(i)) /\ Cardinality(upto(i)) <= N
    BY <1>1, <2>1, FS_Subset
  <2>3. Cardinality(upto(i)) \in Nat /\ Cardinality(upto(i)) # 0
    BY <2>1, <2>2, FS_CardinalityType, FS_EmptySet
  <2> QED
    BY <1>1, <2>2, <2>3
<1>3. ASSUME NEW i \in got, NEW j \in got, i < j
      PROVE  rank[i] < rank[j]
  <2>1. upto(i) \in SUBSET upto(j) /\ j \in upto(j) /\ j \notin upto(i)
    <3>1. i \in Nat /\ j \in Nat
      BY <1>0
    <3>2. \A k \in got : k <= i => k <= j
      BY <1>0, <1>3, <3>1
    <3>3. j <= j /\ ~(j <= i)
      BY <1>3, <3>1
    <3> QED
      BY <3>2, <3>3
  <2>2. IsFiniteSet(upto(j)) /\ rank[j] \in Nat /\ rank[i] \in Nat
    BY <1>2
  <2>3. Cardinality(upto(i)) <= Cardinality(upto(j))
        /\ Cardinality(upto(j)) # Cardinality(upto(i))
    BY <2>1, <2>2, FS_Subset
  <2> QED
    BY <2>2, <2>3
<1>4. rank \in [got -> 1..N]
  BY <1>2
<1>5. \A i \in got : rank[i] = Cardinality(upto(i))
  OBVIOUS
<1> HIDE DEF rank, upto
<1>6. rank \in Injection(got, 1..N)
  <2>1. ASSUME NEW i \in got, NEW j \in got, rank[i] = rank[j]
        PROVE  i = j
    <3>1. i \in Nat /\ j \in Nat /\ rank[i] \in Nat /\ rank[j] \in Nat
      BY <1>4
    <3>2. ~(i < j) /\ ~(j < i)
      BY <1>3, <2>1, <3>1
    <3> QED
      BY <3>1, <3>2
  <2> QED
    BY <1>4, <2>1 DEF Injection, IsInjective
<1>7. rank \in Surjection(got, 1..N)
  <2>1. IsFiniteSet(1..N) /\ Cardinality(1..N) = N
    BY <1>1, FS_Interval
  <2> QED
    BY <1>6, <2>1, FS_Injection
<1>8. ASSUME NEW n \in 1..N
      PROVE  at[n] \in got /\ rank[at[n]] = n
  <2>1. \E i \in got : Cardinality(upto(i)) = n
    BY <1>5, <1>7 DEF Surjection
  <2>2. at[n] = CHOOSE i \in got : Cardinality(upto(i)) = n
    OBVIOUS
  <2>3. at[n] \in got /\ Cardinality(upto(at[n])) = n
    BY <2>1, <2>2
  <2> QED
    BY <1>5, <2>3
<1>9. at \in [1..N -> got]
  BY <1>8
<1> HIDE DEF at
<1>10. ASSUME NEW x \in 1..N, NEW y \in 1..N, x < y
       PROVE  at[x] < at[y]
  <2>1. at[x] \in got /\ at[y] \in got /\ rank[at[x]] = x /\ rank[at[y]] = y
    BY <1>8
  <2>2. at[x] \in Nat /\ at[y] \in Nat /\ x \in Nat /\ y \in Nat
    <3>1. at[x] \in Nat /\ at[y] \in Nat
      BY <1>0, <2>1, Zenon
    <3>2. x \in Nat /\ y \in Nat
      BY <1>1
    <3> QED
      BY <3>1, <3>2
  <2>3. ~(at[y] < at[x]) /\ at[x] # at[y]
    BY <1>3, <1>10, <2>1, <2>2
  <2> QED
    BY <2>2, <2>3
<1> QED
  BY <1>1, <1>9, <1>10 DEF at, upto

(* What comes of a step of the scheduler for one train: it is told of a    *)
(* new route, or of the blocks of its route that it was granted.           *)
GrantsTold(r, S, H, D) ==
    /\ D \in Seq(Range(D))
    /\ \E h \in [DOMAIN D -> DOMAIN r.transit] :
          \A x \in DOMAIN D :
              /\ D[x] = GrantClearance(To(r.transit[h[x]]))
              /\ r.transit[h[x]] \in H \ S
              /\ \A y \in DOMAIN D : x < y => h[x] < h[y]

(* Grants and nothing else. *)
LEMMA GrantsAreTold ==
    ASSUME TypeOK, NEW t \in Train
    PROVE  GrantsTold(trains[t], cleared[t], cleared'[t],
                      [n \in DOMAIN GrantedAt(t) |->
                          GrantClearance(To(trains[t].transit[GrantedAt(t)[n]]))])
<1> DEFINE T == trains[t].transit
           got == {i \in DOMAIN T : T[i] \in cleared'[t] \ cleared[t]}
           at == GrantedAt(t)
           N == Cardinality(got)
           D == [n \in DOMAIN at |-> GrantClearance(To(T[at[n]]))]
<1>1. T \in Seq(Block) /\ Len(T) \in Nat /\ DOMAIN T = 1..Len(T)
  BY DEF TypeOK, TrainsOK, TrainState
<1>2. got \in SUBSET (1..Len(T))
  BY <1>1
<1>3. at = [n \in 1..N |-> CHOOSE i \in got : Cardinality({k \in got : k <= i}) = n]
  BY DEF GrantedAt
<1>4. /\ \A i \in got : i \in DOMAIN T /\ T[i] \in cleared'[t] \ cleared[t]
      /\ got \subseteq DOMAIN T
  OBVIOUS
<1> HIDE DEF T, got, at
<1>5. /\ N \in Nat /\ at \in [1..N -> got]
      /\ \A x, y \in 1..N : x < y => at[x] < at[y]
  BY <1>1, <1>2, <1>3, Ranks
<1>6. DOMAIN at = 1..N /\ DOMAIN D = 1..N /\ at \in [DOMAIN D -> DOMAIN T]
  BY <1>4, <1>5
<1>7. D \in [1..N -> Range(D)]
  BY <1>6 DEF Range
<1>8. D \in Seq(Range(D))
  <2> HIDE DEF D, N
  <2> QED
    BY <1>5, <1>7, SeqDef
<1>9. ASSUME NEW x \in DOMAIN D
      PROVE  /\ D[x] = GrantClearance(To(T[at[x]]))
             /\ T[at[x]] \in cleared'[t] \ cleared[t]
             /\ \A y \in DOMAIN D : x < y => at[x] < at[y]
  BY <1>4, <1>5, <1>6
<1>10. GrantsTold(trains[t], cleared[t], cleared'[t], D)
  <2> HIDE DEF D
  <2> QED
    BY <1>6, <1>8, <1>9 DEF GrantsTold, T
<1> QED
  BY <1>10 DEF D, T, at

(* Nothing is told of nothing.                                             *)
LEMMA NothingTold ==
    /\ \A r, S, D : GrantsTold(r, S, S, D) => D = <<>>
    /\ \A r, S : GrantsTold(r, S, S, <<>>)
    /\ \A D : D \in Seq(Range(D)) => <<>> \o D \o <<>> = D
    /\ \A x : <<x>> \o <<>> \o <<>> = <<x>>
<1>1. ASSUME NEW r, NEW S, NEW D, GrantsTold(r, S, S, D)
      PROVE  D = <<>>
  <2>1. D \in Seq(Range(D)) /\ Len(D) \in Nat /\ DOMAIN D = 1..Len(D)
    BY <1>1 DEF GrantsTold
  <2>2. 1 \notin DOMAIN D
    BY <1>1 DEF GrantsTold
  <2>3. Len(D) = 0
    BY <2>1, <2>2
  <2> QED
    BY <2>1, <2>3
<1>2. ASSUME NEW r, NEW S
      PROVE  GrantsTold(r, S, S, <<>>)
  <2>1. <<>> \in Seq(Range(<<>>)) /\ DOMAIN <<>> = {}
    OBVIOUS
  <2>2. [x \in {} |-> 0] \in [{} -> DOMAIN r.transit]
    OBVIOUS
  <2> QED
    BY <2>1, <2>2 DEF GrantsTold
<1>3. ASSUME NEW D, D \in Seq(Range(D))
      PROVE  <<>> \o D \o <<>> = D
  <2>1. <<>> \o D = D
    BY <1>3
  <2>2. D \o <<>> = D
    BY <1>3
  <2> QED
    BY <2>1, <2>2
<1>4. ASSUME NEW x
      PROVE  <<x>> \o <<>> \o <<>> = <<x>>
  <2>1. <<x>> \in Seq({x})
    OBVIOUS
  <2>2. <<x>> \o <<>> = <<x>>
    BY <2>1
  <2> QED
    BY <2>2
<1> QED
  BY <1>1, <1>2, <1>3, <1>4

(* The train that is planned is told of its route; all others, and all     *)
(* trains at all other times, of nothing but what they are granted.        *)
LEMMA ToldOf ==
    ASSUME TypeOK, Orderly, Step, NEW u \in Train
    PROVE  \/ /\ trains'[u].transit = trains[u].transit
              /\ trains'[u].progress = trains[u].progress
              /\ GrantsTold(trains[u], cleared[u], cleared'[u], Told(u))
           \/ /\ ~UnderWay(trains[u]) /\ trains'[u].progress = 1 /\ cleared'[u] = cleared[u]
              /\ \/ trains'[u].transit = <<>> /\ Told(u) = <<>>
                 \/ /\ trains'[u].transit # <<>>
                    /\ Told(u) = <<AssignRoute(trains'[u].transit)>>
<1> DEFINE r == trains[u]
           s == trains'[u]
           S == cleared[u]
           H == cleared'[u]
           planned == /\ ~Idle /\ Head(agenda) = PlanTask(u)
                      /\ agenda' # <<>> /\ Head(agenda') = ExtendTask(u)
           G == [n \in DOMAIN GrantedAt(u) |->
                    GrantClearance(To(trains[u].transit[GrantedAt(u)[n]]))]
           revoked == Resolving /\ cleared'[u] # cleared[u]
<1>0. trains \in [Train -> TrainState] /\ r \in TrainState
  BY DEF TypeOK, TrainsOK
<1>1. GrantsTold(r, S, H, G)
  BY GrantsAreTold
<1>2. Told(u) = (IF planned THEN <<AssignRoute(trains'[u].transit)>> ELSE <<>>)
                \o G \o (IF revoked THEN <<Revoke>> ELSE <<>>)
  BY DEF Told
<1> HIDE DEF G
<1>3. ~planned /\ ~revoked => Told(u) = G
  <2>1. G \in Seq(Range(G))
    BY <1>1 DEF GrantsTold
  <2> QED
    BY <1>2, <2>1, NothingTold
<1>4. H = S => G = <<>>
  BY <1>1, NothingTold
<1>5. H = S /\ planned => Told(u) = <<AssignRoute(s.transit)>>
  BY <1>2, <1>4, NothingTold
<1>6. DoPlan \/ DoExtend \/ DoRetry \/ EmitDeadlockState
  BY NobodyIsResolved DEF Orderly
<1>7. CASE DoPlan
  <2>1. PICK t \in Train :
          /\ agenda = <<PlanTask(t)>> /\ Head(agenda).train = t /\ ~InTransit(t)
    BY <1>7, AgendaOf DEF Orderly, DoPlan, Idle
  <2>2. H = S
    BY <1>7 DEF DoPlan
  <2>3. Head(agenda) = PlanTask(t) /\ Tail(agenda) = <<>>
    BY <2>1, FirstOf
  <2>4. CASE u # t
    <3>1. ~planned
      BY <2>1, <2>4, TaskNames
    <3>2. s = r
      <4> DEFINE w == trains[t]
                 route == Plan(known, w.last, w.stops[w.stop],
                               IF w.current # None THEN w.current ELSE w.entry)
      <4>1. \/ trains' = trains
            \/ trains' = [trains EXCEPT ![t].transit = route, ![t].progress = 1,
                                        ![t].limit = From(route[1])]
            \/ trains' = [trains EXCEPT ![t].transit = <<>>, ![t].progress = 1,
                                        ![t].limit = w.last]
            \/ trains' = [trains EXCEPT ![t] = Advanced(w)]
        BY <1>7, <2>1 DEF DoPlan, PlanAndExecuteCurrentTransit
      <4> HIDE DEF w, route
      <4> QED
        BY <1>0, <2>4, <4>1
    <3> QED
      BY <1>1, <1>3, <2>2, <3>1, <3>2
  <2>5. CASE u = t
    <3> DEFINE w == trains[t]
               route == Plan(known, w.last, w.stops[w.stop],
                             IF w.current # None THEN w.current ELSE w.entry)
               none == <<>>
               start == From(route[1])
    <3>1. \/ trains' = trains /\ agenda' = Tail(agenda)
          \/ /\ route # <<>>
             /\ trains' = [trains EXCEPT ![t].transit = route, ![t].progress = 1,
                                         ![t].limit = From(route[1])]
             /\ agenda' = <<ExtendTask(t), RetryAll>> \o Tail(agenda)
          \/ /\ trains' = [trains EXCEPT ![t].transit = <<>>, ![t].progress = 1,
                                         ![t].limit = w.last]
             /\ agenda' = Tail(agenda)
          \/ trains' = [trains EXCEPT ![t] = Advanced(w)] /\ agenda' = agenda
      BY <1>7, <2>1 DEF DoPlan, PlanAndExecuteCurrentTransit
    <3> HIDE DEF route, none, start
    <3>2. ~UnderWay(r)
      BY <2>1, <2>5 DEF InTransit, UnderWay
    <3>3. CASE trains' = trains /\ agenda' = Tail(agenda)
      <4>1. ~planned
        BY <2>3, <3>3
      <4> QED
        BY <1>1, <1>3, <2>2, <3>3, <4>1
    <3>4. CASE /\ route # <<>>
               /\ trains' = [trains EXCEPT ![t].transit = route, ![t].progress = 1,
                                           ![t].limit = From(route[1])]
               /\ agenda' = <<ExtendTask(t), RetryAll>> \o Tail(agenda)
      <4>1. agenda' # <<>> /\ Head(agenda') = ExtendTask(t)
        BY <2>3, <3>4, FirstOf
      <4>2. planned
        BY <2>1, <2>3, <2>5, <4>1 DEF Idle
      <4>3. s = [r EXCEPT !.transit = route, !.progress = 1, !.limit = start]
        BY <1>0, <2>5, <3>4 DEF start
      <4> HIDE DEF r, s, S, H, planned
      <4>4. s.transit = route /\ s.progress = 1
        BY <1>0, <4>3 DEF TrainState
      <4> QED
        BY <1>5, <2>2, <3>2, <3>4, <4>2, <4>4 DEF r, s, S, H
    <3>5. CASE /\ trains' = [trains EXCEPT ![t].transit = <<>>, ![t].progress = 1,
                                           ![t].limit = w.last]
               /\ agenda' = Tail(agenda)
      <4>1. ~planned
        BY <2>3, <3>5
      <4>2. s = [r EXCEPT !.transit = none, !.progress = 1, !.limit = r.last]
        BY <1>0, <2>5, <3>5 DEF none
      <4>3. Told(u) = <<>>
        BY <1>3, <1>4, <2>2, <4>1
      <4> HIDE DEF r, s, S, H, planned
      <4>4. s.transit = none /\ s.progress = 1
        BY <1>0, <4>2 DEF TrainState
      <4> QED
        BY <2>2, <3>2, <4>3, <4>4 DEF r, s, S, H, none
    <3>6. CASE trains' = [trains EXCEPT ![t] = Advanced(w)] /\ agenda' = agenda
      <4>1. ~planned
        BY <2>3, <3>6, TaskNames
      <4>2. s = Advanced(r)
        BY <1>0, <2>5, <3>6
      <4>3. Told(u) = G
        BY <1>3, <2>2, <4>1
      <4> HIDE DEF r, s, S, H
      <4>4. s.transit = r.transit /\ s.progress = r.progress
        BY <1>0, <4>2 DEF Advanced, TrainState
      <4> QED
        BY <1>1, <4>3, <4>4 DEF r, s, S, H
    <3> QED
      BY <3>1, <3>3, <3>4, <3>5, <3>6
  <2> QED
    BY <2>4, <2>5
<1>8. CASE DoExtend \/ DoRetry
  <2>1. /\ ~Idle /\ Head(agenda).op # "plan"
        /\ \E t \in Train : ExtendClearanceHorizon(t)
    <3>1. CASE DoExtend
      <4>1. PICK t \in Train : Head(agenda).train = t
        BY <3>1, AgendaOf DEF DoExtend, Orderly
      <4> QED
        BY <3>1, <4>1 DEF DoExtend
    <3>2. CASE DoRetry
      <4>1. PICK A \in SUBSET Train : Head(agenda).pending = A
        BY <3>2, AgendaOf DEF DoRetry, Orderly
      <4> QED
        BY <3>2, <4>1 DEF DoRetry
    <3> QED
      BY <1>8, <3>1, <3>2
  <2>2. ~planned
    BY <2>1, TaskNames
  <2>3. ~revoked
    BY <1>8 DEF DoExtend, DoRetry, Resolving
  <2>4. s.transit = r.transit /\ s.progress = r.progress
    <3>1. PICK t \in Train : ExtendClearanceHorizon(t)
      BY <2>1
    <3>2. CASE u # t
      BY <3>1, <3>2, WalkAdds
    <3>3. CASE u = t
      <4>1. PICK x : s = [r EXCEPT !.limit = x]
        BY <3>1, <3>3, WalkAdds
      <4> HIDE DEF r, s
      <4> QED
        BY <1>0, <4>1 DEF TrainState
    <3> QED
      BY <3>2, <3>3
  <2> QED
    BY <1>1, <1>3, <2>2, <2>3, <2>4
<1>9. CASE EmitDeadlockState
  <2>1. s = r /\ H = S /\ Head(agenda).op = "retry"
    BY <1>9 DEF EmitDeadlockState, Resolving
  <2>2. ~planned
    BY <2>1, TaskNames
  <2> QED
    BY <1>1, <1>3, <2>1, <2>2
<1> QED
  BY <1>6, <1>7, <1>8, <1>9

(* What is first stays first.                                              *)
LEMMA HeadTailOfJoined ==
    ASSUME NEW V, NEW C \in Seq(V), NEW D \in Seq(V), C # <<>>
    PROVE  C \o D # <<>> /\ Head(C \o D) = Head(C) /\ Tail(C \o D) = Tail(C) \o D
<1> DEFINE A == Tail(C \o D)
           B == Tail(C) \o D
<1>1. /\ Len(C) \in Nat /\ Len(C) > 0 /\ Len(D) \in Nat /\ C \o D \in Seq(V)
      /\ Len(C \o D) = Len(C) + Len(D) /\ Tail(C) \in Seq(V) /\ Len(Tail(C)) = Len(C) - 1
      /\ \A i \in 1..(Len(C) + Len(D)) :
            (C \o D)[i] = IF i <= Len(C) THEN C[i] ELSE D[i - Len(C)]
  OBVIOUS
<1>2. C \o D # <<>> /\ Head(C \o D) = (C \o D)[1] /\ Head(C) = C[1]
  BY <1>1
<1>3. /\ A \in Seq(V) /\ B \in Seq(V) /\ Len(A) = Len(C) + Len(D) - 1
      /\ Len(B) = Len(C) + Len(D) - 1
      /\ \A i \in 1..(Len(C) + Len(D) - 1) : A[i] = (C \o D)[i + 1]
  BY <1>1, <1>2
<1>4. ASSUME NEW i \in 1..(Len(C) + Len(D) - 1)
      PROVE  A[i] = B[i]
  <2>1. CASE i <= Len(C) - 1
    <3>1. B[i] = Tail(C)[i] /\ Tail(C)[i] = C[i + 1]
      BY <1>1, <2>1
    <3> QED
      BY <1>1, <1>3, <2>1, <3>1
  <2>2. CASE i > Len(C) - 1
    <3>1. B[i] = D[i - (Len(C) - 1)]
      BY <1>1, <2>2
    <3>2. A[i] = D[i + 1 - Len(C)] /\ i + 1 - Len(C) = i - (Len(C) - 1)
      BY <1>1, <1>3, <2>2
    <3> QED
      BY <3>1, <3>2
  <2> QED
    BY <1>1, <2>1, <2>2
<1> HIDE DEF A, B
<1>5. A = B
  BY <1>1, <1>3, <1>4
<1> QED
  BY <1>1, <1>2, <1>5 DEF A, B

(* A train that is granted more of its way stays in line.                  *)
LEMMA TaughtInLine ==
    ASSUME NEW r \in TrainState, NEW s, NEW S, NEW H, OnItsWay(r), HoldsInOrder(r, S),
           s.transit = r.transit, s.progress = r.progress, s.last = r.last,
           S \subseteq H, H \subseteq S \cup AheadOf(r),
           NEW b, NEW l, NEW C, Commands(C), NEW D, GrantsTold(r, S, H, D), NEW Q, NEW L,
           InLine(r, S, b, l, C, Q, L)
    PROVE  InLine(s, H, b, l, C \o D, Q, L)
<1> DEFINE p == r.progress
           T == r.transit
<1>1. PICK idx, P : InLineAt(r, S, b, l, C, Q, L, idx, P)
  BY DEF InLine
<1>2. InLineAt(s, H, b, l, C, Q, L, idx, P)
  BY <1>1, LineStays
<1>3. /\ p \in Nat \ {0} /\ T \in Seq(Block) /\ Len(T) \in Nat /\ DOMAIN T = 1..Len(T)
      /\ IsWay(T)
  BY DEF TrainState, OnItsWay
<1>4. P \in p..(Len(T) + 1) /\ P \in Nat
  BY <1>1, <1>3 DEF InLineAt, BodyFits
<1>5. C \in Seq(Range(C)) /\ D \in Seq(Range(D))
  BY DEF Commands, GrantsTold
<1>6. PICK h \in [DOMAIN D -> DOMAIN T] :
        \A x \in DOMAIN D :
            /\ D[x] = GrantClearance(To(T[h[x]]))
            /\ T[h[x]] \in H \ S
            /\ \A y \in DOMAIN D : x < y => h[x] < h[y]
  BY DEF GrantsTold
<1>7. ASSUME NEW x \in DOMAIN D
      PROVE  h[x] >= p
  <2>1. T[h[x]] \in AheadOf(r) /\ h[x] \in DOMAIN T
    BY <1>6, <1>7
  <2>2. PICK i \in DOMAIN T : i >= p /\ T[h[x]] = T[i]
    BY <2>1 DEF AheadOf
  <2>3. h[x] = i
    BY <1>3, <2>1, <2>2 DEF IsWay
  <2> QED
    BY <2>2, <2>3
<1>8. ASSUME NEW k \in Nat, k <= Len(T), k >= p => T[k] \in S, k >= p - 1,
             NEW A, A \in Seq(Range(A)), GrantsFit(r, S, k, A)
      PROVE  GrantsFit(s, H, k, A \o D)
  <2>1. \A x \in DOMAIN T : T[x] \in S /\ x > k => x >= p
    BY <1>3, <1>8
  <2>2. GrantsFit(r, H, k, A \o D)
    BY <1>3, <1>5, <1>6, <1>7, <1>8, <2>1, GrantsJoin
  <2> QED
    BY <2>2 DEF GrantsFit
<1>9. ASSUME T = <<>>
      PROVE  D = <<>>
  <2>1. DOMAIN T = {}
    BY <1>3, <1>9
  <2>2. 1 \notin DOMAIN D
    BY <1>6, <2>1
  <2> QED
    BY <1>5, <2>2
<1>10. DeviceFits(s, H, b, l, C \o D, P)
  <2>1. CASE ~l.powered
    BY <1>2, <2>1 DEF InLineAt, DeviceFits
  <2>2. ASSUME l.powered, NEW k \in 0..Len(T), FollowsTo(r, S, b, l, C, P, k)
        PROVE  DeviceFits(s, H, b, l, C \o D, P)
    <3>1. k \in Nat /\ k <= Len(T) /\ k >= p - 1 /\ (k >= p => T[k] \in S) /\ GrantsFit(r, S, k, C)
      BY <1>3, <1>4, <2>2 DEF FollowsTo
    <3>2. GrantsFit(s, H, k, C \o D)
      BY <1>5, <1>8, <3>1
    <3>3. FollowsTo(s, H, b, l, C \o D, P, k)
      BY <2>2, <3>2 DEF FollowsTo
    <3> QED
      BY <2>2, <3>3 DEF DeviceFits, Follows
  <2>3. ASSUME l.powered, Parked(r, S, b, l, C, P)
        PROVE  DeviceFits(s, H, b, l, C \o D, P)
    <3>1. CASE T = <<>> /\ C = <<>>
      <4>1. C \o D = <<>>
        BY <1>9, <3>1
      <4> QED
        BY <2>3, <3>1, <4>1 DEF Parked, DeviceFits
    <3>2. CASE /\ T # <<>> /\ P = 1 /\ C # <<>>
               /\ Head(C) = AssignRoute(T) /\ GrantsFit(r, S, 0, Tail(C))
      <4>1. 0 >= p - 1 /\ ~(0 >= p) /\ 0 \in Nat /\ 0 <= Len(T)
        BY <1>3, <1>4, <3>2
      <4>2. Tail(C) \in Seq(Range(Tail(C)))
        BY <3>2, CommandsLeft DEF Commands
      <4>3. GrantsFit(s, H, 0, Tail(C) \o D)
        BY <1>8, <3>2, <4>1, <4>2
      <4>4. C \o D # <<>> /\ Head(C \o D) = Head(C) /\ Tail(C \o D) = Tail(C) \o D
        <5>1. PICK V : V = Range(C) \cup Range(D)
          OBVIOUS
        <5>2. C \in Seq(V) /\ D \in Seq(V)
          BY <1>5, <5>1, SeqMonotonic
        <5> QED
          BY <3>2, <5>2, HeadTailOfJoined
      <4> QED
        BY <2>3, <3>2, <4>3, <4>4 DEF Parked, DeviceFits
    <3> QED
      BY <2>3, <3>1, <3>2 DEF Parked
  <2> QED
    BY <1>1, <2>1, <2>2, <2>3 DEF InLineAt, DeviceFits, Follows
<1> QED
  BY <1>2, <1>10 DEF InLine, InLineAt

(* A train at the end of its way, or without one, has nothing on its way   *)
(* to it, and says no more than that it stands there.                      *)
AtItsEnd(r, S, b, l, C, Q) ==
    /\ b.at = r.last /\ b.on = None /\ b.offset = 0
    /\ b.rear # None => b.rear \in S
    /\ \A x \in 1..Len(Q) : /\ Q[x].event = "train_status"
                            /\ Q[x].edge = None \/ From(Q[x].edge) # r.last
    /\ l.powered => /\ C = <<>> /\ l.motion = "stopped" /\ l.distance = 0
                    /\ l.route # <<>> => From(l.route[l.progress]) # b.at
    /\ ~l.powered => l.motion = "stopped"

(* So it is with every train in line that has no block before it.         *)
LEMMA AtTheEnd ==
    ASSUME NEW r \in TrainState, NEW S, ~UnderWay(r), OnItsWay(r),
           NEW b, NEW l, LocoOK(l), NEW C, C \in Seq(Range(C)), NEW Q, NEW L \in Nat \ {0},
           NEW idx, NEW P, InLineAt(r, S, b, l, C, Q, L, idx, P)
    PROVE  AtItsEnd(r, S, b, l, C, Q)
<1> DEFINE p == r.progress
           T == r.transit
<1>1. /\ p \in Nat \ {0} /\ T \in Seq(Block) /\ Len(T) \in Nat /\ DOMAIN T = 1..Len(T)
      /\ IsWay(T) /\ p <= Len(T) + 1 /\ p \notin DOMAIN T
  BY DEF TrainState, OnItsWay, UnderWay
<1>2. p = Len(T) + 1
  BY <1>1
<1>3. BodyFits(r, S, b, P, L) /\ EventsFit(r, S, b, Q, idx, P, L) /\ DeviceFits(r, S, b, l, C, P)
  BY DEF InLineAt
<1>4. P = p /\ P \in Nat
  BY <1>1, <1>2, <1>3 DEF BodyFits
<1>5. b.at = r.last /\ b.on = None /\ b.offset = 0
  BY <1>1, <1>3, <1>4 DEF BodyFits, PlaceAt
<1>6. b.rear # None => b.rear \in S
  BY <1>3, <1>4, <1>5 DEF BodyFits
<1>7. ASSUME NEW x \in 1..Len(Q)
      PROVE  Q[x].event = "train_status" /\ (Q[x].edge = None \/ From(Q[x].edge) # r.last)
  <2>1. x \in 1..(Len(Q) + 1) /\ idx[x] \in p..P
    <3>1. x \in 1..(Len(Q) + 1)
      BY <1>7
    <3> QED
      BY <1>3, <3>1 DEF EventsFit
  <2>2. idx[x] = p
    BY <1>1, <1>4, <2>1
  <2>3. ~TagFits(r, S, Q, idx, x, L)
    BY <1>1, <2>2 DEF TagFits
  <2>4. Q[x].event = "train_status" /\ ReportFits(r, S, b, P, p, Q[x])
    BY <1>3, <2>2, <2>3 DEF EventsFit
  <2> QED
    BY <1>1, <2>4 DEF ReportFits, PlaceAt
<1>8. ASSUME NEW k \in 0..Len(T), FollowsTo(r, S, b, l, C, P, k)
      PROVE  /\ C = <<>> /\ l.motion = "stopped" /\ l.distance = 0
             /\ l.route # <<>> => From(l.route[l.progress]) # b.at
  <2>1. /\ l.route = T /\ T # <<>> /\ l.progress = 1 /\ l.distance = 0
        /\ P - 1 <= k /\ (l.motion = "forward" => k >= P) /\ GrantsFit(r, S, k, C)
    BY <1>1, <1>4, <1>8 DEF FollowsTo
  <2>2. k = Len(T) /\ ~(k >= P)
    BY <1>1, <1>2, <1>4, <2>1
  <2>3. l.motion = "stopped"
    BY <2>1, <2>2 DEF LocoOK
  <2>4. DOMAIN C = {}
    <3>1. PICK g \in [DOMAIN C -> DOMAIN T] : \A x \in DOMAIN C : g[x] > k
      BY <2>1 DEF GrantsFit
    <3>2. \A x \in DOMAIN C : g[x] \in 1..Len(T) /\ g[x] > Len(T)
      BY <1>1, <2>2, <3>1
    <3> QED
      BY <1>1, <3>2
  <2>5. C = <<>>
    BY <2>4
  <2>6. r.last = To(T[Len(T)]) /\ Len(T) \in DOMAIN T /\ 1 \in DOMAIN T
    BY <1>1, <2>1 DEF OnItsWay, Place, UnderWay
  <2>7. From(T[1]) # b.at
    BY <1>1, <1>5, <2>6 DEF IsWay
  <2> QED
    BY <2>1, <2>3, <2>5, <2>7
<1>9. ASSUME Parked(r, S, b, l, C, P)
      PROVE  C = <<>>
  <2>1. T # <<>> => P # 1
    BY <1>1, <1>2, <1>4
  <2> QED
    BY <1>9, <2>1 DEF Parked
<1>10. l.powered => /\ C = <<>> /\ l.motion = "stopped" /\ l.distance = 0
                    /\ l.route # <<>> => From(l.route[l.progress]) # b.at
  BY <1>3, <1>8, <1>9 DEF DeviceFits, Follows, Parked
<1> QED
  BY <1>3, <1>5, <1>6, <1>7, <1>10 DEF DeviceFits, AtItsEnd

(* A train that is given a new route where its last one ended, or is left  *)
(* without one, stays in line.                                             *)
LEMMA ReplannedInLine ==
    ASSUME NEW r \in TrainState, NEW s \in TrainState, NEW S, ~UnderWay(r), OnItsWay(r),
           s.progress = 1, s.last = r.last,
           NEW b, NEW l, LocoOK(l), NEW C, C \in Seq(Range(C)), NEW Q \in Seq(Report),
           NEW L \in Nat \ {0},
           NEW D, \/ s.transit = <<>> /\ D = <<>>
                  \/ s.transit # <<>> /\ D = <<AssignRoute(s.transit)>>,
           InLine(r, S, b, l, C, Q, L)
    PROVE  InLine(s, S, b, l, C \o D, Q, L)
<1> DEFINE jdx == [x \in 1..(Len(Q) + 1) |-> 1]
<1>1. PICK idx, P : InLineAt(r, S, b, l, C, Q, L, idx, P)
  BY DEF InLine
<1>2. /\ b.at = r.last /\ b.on = None /\ b.offset = 0
      /\ b.rear # None => b.rear \in S
      /\ \A x \in 1..Len(Q) : /\ Q[x].event = "train_status"
                              /\ Q[x].edge = None \/ From(Q[x].edge) # r.last
      /\ l.powered => /\ C = <<>> /\ l.motion = "stopped" /\ l.distance = 0
                      /\ l.route # <<>> => From(l.route[l.progress]) # b.at
      /\ ~l.powered => l.motion = "stopped"
  <2>1. AtItsEnd(r, S, b, l, C, Q)
    BY <1>1, AtTheEnd
  <2> QED
    BY <2>1 DEF AtItsEnd
<1>3. s.transit \in Seq(Block) /\ Len(s.transit) \in Nat /\ Len(Q) \in Nat
  BY DEF TrainState
<1>4. ~(b.offset >= L)
  BY <1>2
<1>5. /\ jdx \in [1..(Len(Q) + 1) -> 1..1]
      /\ \A x \in 1..(Len(Q) + 1) : jdx[x] = 1
      /\ 1 \in 1..(Len(Q) + 1) /\ Len(Q) + 1 \in 1..(Len(Q) + 1)
      /\ \A x \in 1..Len(Q) : x \in 1..(Len(Q) + 1) /\ x + 1 \in 1..(Len(Q) + 1)
  BY <1>3
<1>6. \A x \in 1..Len(Q) : ReportFits(s, S, b, 1, 1, Q[x])
  BY <1>2 DEF ReportFits, PlaceAt
<1> HIDE DEF jdx
<1>7. EventsFit(s, S, b, Q, jdx, 1, L)
  BY <1>2, <1>4, <1>5, <1>6 DEF EventsFit
<1>8. 1 \in 1..(Len(s.transit) + 1)
  BY <1>3
<1>9. BodyFits(s, S, b, 1, L)
  BY <1>2, <1>8 DEF BodyFits, PlaceAt
<1>10. DeviceFits(s, S, b, l, C \o D, 1)
  <2>1. CASE ~l.powered
    BY <1>2, <2>1 DEF DeviceFits
  <2>2. CASE l.powered
    <3>1. C \o D = D
      <4>1. D \in Seq(Range(D))
        <5>1. <<>> \in Seq(Range(<<>>)) /\ \A x : <<x>> \in Seq({x})
          OBVIOUS
        <5> QED
          BY <5>1, OwnValues
      <4> QED
        BY <1>2, <2>2, <4>1
    <3>2. CASE s.transit = <<>> /\ D = <<>>
      BY <1>2, <2>2, <3>1, <3>2 DEF DeviceFits, Parked
    <3>3. CASE s.transit # <<>> /\ D = <<AssignRoute(s.transit)>>
      <4>1. D # <<>> /\ Head(D) = AssignRoute(s.transit) /\ Tail(D) = <<>>
        BY <3>3, FirstOf
      <4>2. GrantsFit(s, S, 0, <<>>)
        <5>1. [x \in {} |-> 0] \in [DOMAIN <<>> -> DOMAIN s.transit]
          OBVIOUS
        <5> QED
          BY <5>1 DEF GrantsFit
      <4> QED
        BY <1>2, <2>2, <3>1, <3>3, <4>1, <4>2 DEF DeviceFits, Parked
    <3> QED
      BY <3>2, <3>3
  <2> QED
    BY <2>1, <2>2
<1> QED
  BY <1>7, <1>9, <1>10 DEF InLine, InLineAt

(* A train that is given its timetable stands where it starts.             *)
LEMMA StartsInLine ==
    ASSUME NEW t, NEW s, s.transit = <<>>, s.progress = 1, s.last = Timetable[t][1],
           NEW S, NEW b, NEW l, NEW C, NEW Q, NEW L \in Nat \ {0}, Unmoved(t, b, l, C, Q)
    PROVE  InLine(s, S, b, l, C, Q, L)
<1> DEFINE jdx == [x \in 1..1 |-> 1]
<1>1. /\ C = <<>> /\ Q = <<>> /\ Len(Q) = 0 /\ Len(s.transit) = 0
      /\ l.motion = "stopped" /\ l.route = <<>> /\ l.distance = 0
      /\ b.at = s.last /\ b.on = None /\ b.offset = 0 /\ b.rear = None
  BY DEF Unmoved
<1>2. ~(b.offset >= L) /\ 0 + 1 = 1 /\ 1 \in 1..(0 + 1)
  BY <1>1
<1>3. jdx \in [1..(Len(Q) + 1) -> 1..1] /\ jdx[1] = 1 /\ \A x, y \in 1..(Len(Q) + 1) : jdx[x] <= jdx[y]
  BY <1>1
<1>4. 1..Len(Q) = {}
  BY <1>1
<1> HIDE DEF jdx
<1>5. EventsFit(s, S, b, Q, jdx, 1, L)
  BY <1>1, <1>2, <1>3, <1>4 DEF EventsFit
<1>6. BodyFits(s, S, b, 1, L)
  BY <1>1, <1>2 DEF BodyFits, PlaceAt
<1>7. DeviceFits(s, S, b, l, C, 1)
  BY <1>1 DEF DeviceFits, Parked
<1> QED
  BY <1>5, <1>6, <1>7 DEF InLine, InLineAt

(* A train that dies stays in line.                                        *)
LEMMA DiesInLine ==
    ASSUME NEW r, NEW S, NEW b, NEW l, NEW m, ~m.powered, m.motion = "stopped",
           NEW C, NEW Q, NEW L, InLine(r, S, b, l, C, Q, L)
    PROVE  InLine(r, S, b, m, C, Q, L)
  BY DEF InLine, InLineAt, DeviceFits

-----------------------------------------------------------------------------
(* Switches.                                                               *)

(* A switch is asked to move only when it is not moving, and to where it   *)
(* does not lie: the train that asked before either keeps all others away, *)
(* or is the one that asks, and its way leads over the switch once.        *)
LEMMA AskedOnce ==
    ASSUME TypeOK, Orderly, Points, Step, NEW j \in Junction, requested'[j] # requested[j]
    PROVE  requested[j] \in {None, position[j]} /\ requested'[j] \notin {None, position[j]}
<1>0. j \in Marker
  BY BlockEnds, LayoutAssumption DEF Junction, Block
<1>1. PICK t \in Train : ExtendClearanceHorizon(t)
  BY WalksThrow
<1>2. Needs(t, j, requested'[j]) /\ \A u \in Train \ {t} : ~Touches(cleared[u], j)
  BY <1>1, ThrowIsNeeded
<1> DEFINE T == trains[t].transit
<1>3. IsWay(T)
  BY DEF Orderly, Fitting, Fit, OnItsWay
<1>4. PICK i \in DOMAIN T :
        From(T[i]) = j /\ T[i] \in DOMAIN Switched /\ Switched[T[i]] = requested'[j]
  BY <1>2 DEF Needs
<1>5. ASSUME requested[j] \notin {None, position[j]}
      PROVE  FALSE
  <2>1. PICK u \in Train : Awaits(trains[u], cleared[u], j, requested[j])
    BY <1>5 DEF Points, AskedFor
  <2>2. u = t
    BY <1>2, <2>1 DEF Awaits, Touches
  <2>3. PICK k \in DOMAIN T : From(T[k]) = j /\ Switched[T[k]] = requested[j]
    BY <2>1, <2>2 DEF Awaits
  <2>4. i = k
    BY <1>3, <1>4, <2>3, WayStarts
  <2> QED
    BY <1>4, <2>3, <2>4
<1>6. requested'[j] \in Position
  BY <1>0, AskedPositions
<1>7. requested'[j] # position[j]
  <2>1. PICK h \in HORIZON_EDGES..HORIZON_MAX_EDGES :
          requested' = [m \in Marker |->
                          IF \E e \in SwitchesToThrow(t, h) : From(e) = m
                          THEN Switched[CHOOSE e \in SwitchesToThrow(t, h) : From(e) = m]
                          ELSE requested[m]]
    BY <1>1 DEF ExtendClearanceHorizon
  <2> DEFINE x == CHOOSE e \in SwitchesToThrow(t, h) : From(e) = j
  <2>2. x \in SwitchesToThrow(t, h) /\ From(x) = j /\ requested'[j] = Switched[x]
    BY <1>0, <2>1
  <2> HIDE DEF x
  <2> QED
    BY <2>2 DEF SwitchesToThrow, MustThrowSwitch, EdgeRequiresMismatchedSwitch
<1> QED
  BY <1>5, <1>6, <1>7, LayoutAssumption

(* Nothing else between a switch and the scheduler changes but by them.    *)
LEMMA OneSwitchInStep ==
    ASSUME SwitchesInStep, NEW j, SwitchInStep(j)',
           \A k \in Junction \ {j} :
              /\ requested'[k] = requested[k] /\ position'[k] = position[k]
              /\ points'[k] = points[k] /\ toSwitch'[k] = toSwitch[k]
              /\ fromSwitch'[k] = fromSwitch[k],
           points' \in [Marker -> Position \cup {None}]
    PROVE  SwitchesInStep'
  BY DEF SwitchesInStep, SwitchInStep

(* A switch that has one message under way, or none, is in step when that  *)
(* message arrives, is answered, or is lost.                               *)
LEMMA SwitchesStayInStep ==
    ASSUME TypeOK, DeliveryTypeOK, Orderly, Points, SwitchesInStep, [DeliveryNext]_deliveryVars
    PROVE  SwitchesInStep'
<1>0. /\ \A j \in Junction : j \in Marker
      /\ requested \in [Marker -> Position \cup {None}]
      /\ position \in [Marker -> Position \cup {None}]
      /\ toSwitch \in [Marker -> Seq(Position)] /\ fromSwitch \in [Marker -> Seq(Position)]
      /\ points \in [Marker -> Position \cup {None}]
      /\ \A j \in Junction : SwitchInStep(j)
  BY BlockEnds, LayoutAssumption
     DEF Junction, Block, TypeOK, TrackOK, DeliveryTypeOK, RailsTyped, SwitchesInStep
<1>1. ASSUME requested' = requested, position' = position, points' = points,
             toSwitch' = toSwitch, fromSwitch' = fromSwitch
      PROVE  SwitchesInStep'
  BY <1>1 DEF SwitchesInStep, SwitchInStep
<1>2. CASE Schedule
  <2>1. position' = position /\ points' = points /\ fromSwitch' = fromSwitch
    BY <1>2 DEF Schedule, Step, DoPlan, DoExtend, DoRetry, TryYieldLowestRanked,
                TryReverseToBreakStandoff, EmitDeadlockState, trackVars, railVars
  <2>2. ASSUME NEW j \in Junction
        PROVE  SwitchInStep(j)'
    <3>1. toSwitch'[j] = IF requested'[j] = requested[j] THEN toSwitch[j]
                         ELSE Append(toSwitch[j], requested'[j])
      BY <1>0, <1>2 DEF Schedule
    <3>2. CASE requested'[j] = requested[j]
      BY <1>0, <2>1, <3>1, <3>2 DEF SwitchInStep
    <3>3. CASE requested'[j] # requested[j]
      <4>1. requested[j] \in {None, position[j]} /\ requested'[j] \notin {None, position[j]}
        BY <1>2, <3>3, AskedOnce DEF Schedule
      <4>2. toSwitch[j] = <<>> /\ fromSwitch[j] = <<>> /\ points[j] = position[j]
        BY <1>0, <4>1 DEF SwitchInStep
      <4>3. toSwitch'[j] = <<requested'[j]>>
        BY <3>1, <3>3, <4>2
      <4> QED
        BY <2>1, <4>1, <4>2, <4>3 DEF SwitchInStep
    <3> QED
      BY <3>2, <3>3
  <2> QED
    BY <1>0, <2>1, <2>2 DEF SwitchesInStep
<1>3. ASSUME NEW t \in Train, Run(t) \/ Stand(t) \/ Obey(t) \/ PowerOff(t)
      PROVE  SwitchesInStep'
  BY <1>1, <1>3 DEF Run, Stand, Obey, PowerOff, vars, trackVars, railVars, queueVars
<1>4. ASSUME NEW t \in Train, NEW dwellOver \in BOOLEAN, Receive(t, dwellOver)
      PROVE  SwitchesInStep'
  <2>1. requested' = requested /\ position' = position
    BY <1>4 DEF Receive, HandleTopologyViolation, HandleTrainAtMarker, HandleTrainStatus, trackVars
  <2> QED
    BY <1>1, <1>4, <2>1 DEF Receive, railVars
<1>5. ASSUME NEW j \in Junction, Throw(j)
      PROVE  SwitchesInStep'
  <2>1. toSwitch[j] # <<>> /\ SwitchInStep(j)
    BY <1>0, <1>5 DEF Throw
  <2>2. /\ requested[j] \notin {None, position[j]}
        /\ toSwitch[j] = <<requested[j]>> /\ fromSwitch[j] = <<>>
    BY <2>1 DEF SwitchInStep
  <2>3. Head(toSwitch[j]) = requested[j] /\ Tail(toSwitch[j]) = <<>>
    BY <2>2, FirstOf
  <2>4. /\ points'[j] = requested[j] /\ toSwitch'[j] = <<>> /\ fromSwitch'[j] = <<requested[j]>>
        /\ requested' = requested /\ position' = position
        /\ points' \in [Marker -> Position \cup {None}]
    BY <1>0, <1>5, <2>2, <2>3 DEF Throw, vars
  <2>5. SwitchInStep(j)'
    BY <2>2, <2>4 DEF SwitchInStep
  <2> QED
    BY <1>5, <2>4, <2>5, OneSwitchInStep DEF Throw
<1>6. ASSUME NEW j \in Junction, Confirmed(j)
      PROVE  SwitchesInStep'
  <2>1. fromSwitch[j] # <<>> /\ SwitchInStep(j)
    BY <1>0, <1>6 DEF Confirmed
  <2>2. /\ requested[j] \notin {None, position[j]}
        /\ toSwitch[j] = <<>> /\ fromSwitch[j] = <<requested[j]>> /\ points[j] = requested[j]
    BY <2>1 DEF SwitchInStep
  <2>3. Head(fromSwitch[j]) = requested[j] /\ Tail(fromSwitch[j]) = <<>>
    BY <2>2, FirstOf
  <2>4. /\ position' = [position EXCEPT ![j] = requested[j]]
        /\ requested' = [requested EXCEPT ![j] = requested[j]]
        /\ fromSwitch' = [fromSwitch EXCEPT ![j] = <<>>]
        /\ points' = points /\ toSwitch' = toSwitch
    BY <1>6, <2>3 DEF Confirmed, HandleSwitchStateChanged, railVars
  <2>5. SwitchInStep(j)'
    BY <1>0, <2>2, <2>4 DEF SwitchInStep
  <2> QED
    BY <1>0, <2>4, <2>5, OneSwitchInStep
<1>7. CASE Start
  BY <1>1, <1>7 DEF Start, RegisterTrain, RecordSwitchPairing, AssignSchedule, trackVars, railVars,
                    queueVars
<1>8. CASE Lose
  <2>1. requested' = requested /\ position' = position /\ points' = points
    BY <1>8 DEF Lose, vars, railVars
  <2>2. ASSUME NEW j \in Junction, toSwitch[j] # <<>>,
               toSwitch' = [toSwitch EXCEPT ![j] = Tail(@)], fromSwitch' = fromSwitch
        PROVE  SwitchesInStep'
    <3>1. /\ requested[j] \notin {None, position[j]}
          /\ toSwitch[j] = <<requested[j]>> /\ fromSwitch[j] = <<>>
          /\ points[j] \in {position[j], requested[j]}
      BY <1>0, <2>2 DEF SwitchInStep
    <3>2. toSwitch'[j] = <<>>
      BY <1>0, <2>2, <3>1, FirstOf
    <3>3. SwitchInStep(j)'
      BY <2>1, <2>2, <3>1, <3>2 DEF SwitchInStep
    <3> QED
      BY <1>0, <2>1, <2>2, <3>3, OneSwitchInStep
  <2>3. ASSUME NEW j \in Junction, fromSwitch[j] # <<>>,
               fromSwitch' = [fromSwitch EXCEPT ![j] = Tail(@)], toSwitch' = toSwitch
        PROVE  SwitchesInStep'
    <3>1. /\ requested[j] \notin {None, position[j]}
          /\ fromSwitch[j] = <<requested[j]>> /\ toSwitch[j] = <<>>
          /\ points[j] \in {position[j], requested[j]}
      BY <1>0, <2>3 DEF SwitchInStep
    <3>2. fromSwitch'[j] = <<>>
      BY <1>0, <2>3, <3>1, FirstOf
    <3>3. SwitchInStep(j)'
      BY <2>1, <2>3, <3>1, <3>2 DEF SwitchInStep
    <3> QED
      BY <1>0, <2>1, <2>3, <3>3, OneSwitchInStep
  <2> QED
    BY <1>1, <1>8, <2>1, <2>2, <2>3 DEF Lose
<1>9. CASE UNCHANGED deliveryVars
  BY <1>1, <1>9 DEF deliveryVars, vars, railVars, queueVars
<1> QED
  BY <1>2, <1>3, <1>4, <1>5, <1>6, <1>7, <1>8, <1>9 DEF DeliveryNext

(* Switches start where they are, with nothing under way.                  *)
LEMMA SwitchesAtTheStart == DeliveryInit => SwitchesInStep
<1> SUFFICES ASSUME DeliveryInit
             PROVE  SwitchesInStep
  OBVIOUS
<1>1. \A j \in Junction : j \in Marker
  BY BlockEnds, LayoutAssumption DEF Junction, Block
<1> QED
  BY <1>1, EventAssumption DEF DeliveryInit, Init, SwitchesInStep, SwitchInStep

-----------------------------------------------------------------------------
(* The points lead where trains go.                                        *)

(* A train's place before a block of its way is where that block starts.   *)
LEMMA PlacesAreStarts ==
    ASSUME NEW r \in TrainState, OnItsWay(r), NEW i \in DOMAIN r.transit, i >= r.progress
    PROVE  From(r.transit[i]) = PlaceAt(r, i)
<1> DEFINE p == r.progress
           T == r.transit
<1>1. p \in Nat \ {0} /\ T \in Seq(Block) /\ DOMAIN T = 1..Len(T) /\ Len(T) \in Nat /\ IsWay(T)
  BY DEF TrainState, OnItsWay
<1>2. CASE i = p
  BY <1>1, <1>2 DEF OnItsWay, Place, UnderWay, PlaceAt
<1>3. CASE i # p
  <2>1. i - 1 \in DOMAIN T /\ i - 1 + 1 = i
    BY <1>1, <1>3
  <2>2. From(T[i]) = To(T[i - 1])
    BY <2>1, <1>1 DEF IsWay
  <2> QED
    BY <1>3, <2>2 DEF PlaceAt
<1> QED
  BY <1>2, <1>3

(* At the start of a block that a train holds, ahead of it, the points lie *)
(* for that block: the switch was there when it was granted, and whoever   *)
(* asks it to move since holds a block next to it.                         *)
LEMMA PointsLead ==
    ASSUME PointsDecide, TypeOK, Orderly, Points, SwitchesInStep, Exclusive,
           NEW t \in Train, NEW i \in DOMAIN trains[t].transit, i >= trains[t].progress,
           trains[t].transit[i] \in cleared[t]
    PROVE  LET e == trains[t].transit[i]
           IN  WaysOn(From(e)) # {} /\ WayOn(From(e)) = e
<1> DEFINE T == trains[t].transit
           e == T[i]
           j == From(e)
<1>1. IsWay(T) /\ e \in Declared
  <2>1. IsWay(T)
    BY DEF Orderly, Fitting, Fit, OnItsWay
  <2> QED
    BY <2>1 DEF IsWay
<1>2. ASSUME e \in DOMAIN Switched
      PROVE  points[j] = Switched[e]
  <2>1. j \in Junction /\ SwitchInStep(j)
    BY <1>2 DEF Junction, SwitchesInStep
  <2>2. position[j] = Switched[e]
    BY <1>2 DEF Points, SetFor
  <2>3. CASE requested[j] \in {None, position[j]}
    BY <2>1, <2>2, <2>3 DEF SwitchInStep
  <2>4. CASE requested[j] \notin {None, position[j]}
    <3>1. PICK u \in Train : Awaits(trains[u], cleared[u], j, requested[j])
      BY <2>1, <2>4 DEF Points, AskedFor
    <3>2. CASE u = t
      <4>1. PICK k \in DOMAIN T : From(T[k]) = j /\ Switched[T[k]] = requested[j]
        BY <3>1, <3>2 DEF Awaits
      <4>2. i = k
        BY <1>1, <4>1, WayStarts
      <4> QED
        BY <2>2, <2>4, <4>1, <4>2
    <3>3. CASE u # t
      <4>1. PICK b \in cleared[u] : To(b) = j
        BY <3>1 DEF Awaits
      <4>2. ~held[u] /\ ~held[t]
        BY DEF Orderly, Quiet
      <4>3. Promise!EdgeSharesMarker(b, e)
        BY <4>1 DEF Promise!EdgeSharesMarker, Promise!From, Promise!To, From, To
      <4> QED
        BY <3>3, <4>1, <4>2, <4>3 DEF Exclusive, Promise!Exclusive, Promise!AnyEdgeSharesMarker
    <3> QED
      BY <3>2, <3>3
  <2> QED
    BY <2>3, <2>4
<1> HIDE DEF e, j
<1>3. WaysOn(From(e)) = {e}
  <2>1. e \in WaysOn(From(e))
    BY <1>1, <1>2 DEF WaysOn, j
  <2>2. ASSUME NEW f \in WaysOn(From(e)), f # e
        PROVE  FALSE
    <3>1. f \in Declared /\ From(f) = From(e) /\ (f \in DOMAIN Switched => Switched[f] = points[From(e)])
      BY <2>2 DEF WaysOn
    <3>2. f \in DOMAIN Switched /\ e \in DOMAIN Switched /\ Switched[f] # Switched[e]
      BY <1>1, <2>2, <3>1 DEF PointsDecide
    <3> QED
      BY <1>2, <3>1, <3>2 DEF j
  <2> QED
    BY <2>1, <2>2
<1>4. WayOn(From(e)) = e
  BY <1>3 DEF WayOn
<1> QED
  BY <1>3, <1>4 DEF e

-----------------------------------------------------------------------------
(* Every step keeps the trains in line.                                    *)

(* What changes for one train only.                                        *)
LEMMA OneInLine ==
    ASSUME TrainsInLine, NEW t \in Train, TrainInLine(t)',
           \A u \in Train \ {t} :
              /\ trains'[u] = trains[u] /\ cleared'[u] = cleared[u]
              /\ body'[u] = body[u] /\ loco'[u] = loco[u]
              /\ toTrain'[u] = toTrain[u] /\ fromTrain'[u] = fromTrain[u]
    PROVE  TrainsInLine'
  BY DEF TrainsInLine, TrainInLine

(* Where the trains are, and what is known of each.                        *)
LEMMA TrainInOrder ==
    ASSUME TypeOK, DeliveryTypeOK, Orderly, LongTrainsOffJunctions, NEW t \in Train
    PROVE  /\ trains[t] \in TrainState /\ OnItsWay(trains[t]) /\ HoldsInOrder(trains[t], cleared[t])
           /\ body[t] \in Body /\ LocoOK(loco[t]) /\ Commands(toTrain[t])
           /\ fromTrain[t] \in Seq(Report) /\ TrainLength[t] \in Nat \ {0}
  BY TrainAssumption
     DEF TypeOK, TrainsOK, DeliveryTypeOK, TrainsTyped, RailsTyped, Orderly, Fitting, Fit,
         LongTrainsOffJunctions

(* A train that runs goes on along its way, over what it holds.            *)
LEMMA RunStaysInLine ==
    ASSUME PointsDecide, TrainsFitBlocks, LongTrainsOffJunctions,
           TypeOK, DeliveryTypeOK, Orderly, Points, SwitchesInStep, Exclusive, TrainsInLine,
           NEW t \in Train, Run(t)
    PROVE  TrainsInLine'
<1> DEFINE r == trains[t]
           S == cleared[t]
           b == body[t]
           l == loco[t]
           C == toTrain[t]
           Q == fromTrain[t]
           L == TrainLength[t]
           block == IF b.on = None THEN WayOn(b.at) ELSE b.on
           m == To(block)
           onward == [l EXCEPT !.distance = Reckoned(l)]
           arrived == OnMarker(l, m)
<1>1. /\ r \in TrainState /\ OnItsWay(r) /\ HoldsInOrder(r, S)
      /\ b \in Body /\ LocoOK(l) /\ Commands(C) /\ Q \in Seq(Report) /\ L \in Nat \ {0}
  BY TrainInOrder
<1>2. l.motion = "forward" /\ UNCHANGED <<vars, toTrain>>
  BY DEF Run
<1>3. r.stops # <<>> /\ InLine(r, S, b, l, C, Q, L)
  BY <1>2 DEF TrainsInLine, TrainInLine, Unmoved
<1>4. PICK idx, P : InLineAt(r, S, b, l, C, Q, L, idx, P)
  BY <1>3 DEF InLine
<1>5. /\ P \in DOMAIN r.transit /\ P \in Nat /\ P >= r.progress /\ r.transit[P] \in S
      /\ r.transit[P] \in Declared /\ From(r.transit[P]) = b.at
      /\ b.on # None => b.on = r.transit[P]
  BY <1>1, <1>2, <1>4, RunsOnItsWay DEF InLineAt
<1>6. block = r.transit[P]
  <2>1. WayOn(From(r.transit[P])) = r.transit[P]
    BY <1>5, PointsLead
  <2> QED
    BY <1>5, <2>1
<1>7. EdgeLength[r.transit[P]] \in Nat \ {0} /\ L < EdgeLength[r.transit[P]]
  BY <1>5, RailwayAssumption DEF TrainsFitBlocks
<1>8. b.offset \in Nat
  BY <1>1 DEF Body
<1>9. /\ trains' = trains /\ cleared' = cleared /\ toTrain' = toTrain
      /\ loco = [u \in Train |-> loco[u]] /\ body = [u \in Train |-> body[u]]
      /\ fromTrain = [u \in Train |-> fromTrain[u]]
  BY <1>2 DEF vars, DeliveryTypeOK, TrainsTyped, RailsTyped
<1>10. CASE /\ b.offset + 1 < EdgeLength[block]
            /\ body' = [body EXCEPT ![t].on = block, ![t].offset = @ + 1]
            /\ loco' = [loco EXCEPT ![t] = onward]
            /\ fromTrain' = [fromTrain EXCEPT ![t] = Append(@, TrainStatus(onward))]
  <2>1. body'[t] = [b EXCEPT !.on = r.transit[P], !.offset = @ + 1]
    BY <1>6, <1>9, <1>10
  <2>2. loco'[t] = onward /\ fromTrain'[t] = Append(Q, TrainStatus(onward))
    BY <1>9, <1>10
  <2>3. \A u \in Train \ {t} : body'[u] = body[u] /\ loco'[u] = loco[u] /\ fromTrain'[u] = fromTrain[u]
    BY <1>9, <1>10
  <2>4. EdgeLength[r.transit[P]] \in Nat /\ b.offset + 1 <= EdgeLength[r.transit[P]] /\ L \in Nat
    BY <1>1, <1>6, <1>7, <1>8, <1>10
  <2> DEFINE c == [b EXCEPT !.on = r.transit[P], !.offset = @ + 1]
  <2> HIDE DEF r, S, b, l, C, Q, L, onward, c
  <2>5. InLine(r, S, c, onward, C, Append(Q, TrainStatus(onward)), L)
    BY <1>1, <1>2, <1>4, <2>4, RunOn DEF c, onward
  <2>6. TrainInLine(t)'
    BY <1>3, <1>9, <2>1, <2>2, <2>5 DEF TrainInLine, r, S, C, L, c
  <2> QED
    BY <1>9, <2>3, <2>6, OneInLine
<1>11. CASE /\ b.offset + 1 = EdgeLength[block]
            /\ body' = [body EXCEPT ![t] = [at |-> m, on |-> None, offset |-> 0, rear |-> block]]
            /\ loco' = [loco EXCEPT ![t] = arrived]
            /\ fromTrain' = [fromTrain EXCEPT
                                ![t] = @ \o <<TagObserved(m), TrainStatus(arrived)>>]
  <2> DEFINE c == [at |-> To(r.transit[P]), on |-> None, offset |-> 0, rear |-> r.transit[P]]
  <2>1. body'[t] = c
    BY <1>6, <1>9, <1>11
  <2>2. loco'[t] = arrived /\ fromTrain'[t] = Q \o <<TagObserved(m), TrainStatus(arrived)>>
    BY <1>9, <1>11
  <2>3. \A u \in Train \ {t} : body'[u] = body[u] /\ loco'[u] = loco[u] /\ fromTrain'[u] = fromTrain[u]
    BY <1>9, <1>11
  <2>4. b.offset >= L
    BY <1>1, <1>6, <1>7, <1>8, <1>11
  <2>5. arrived = OnMarker(l, To(r.transit[P])) /\ m = To(r.transit[P])
    BY <1>6
  <2> HIDE DEF r, S, b, l, C, Q, L, m, arrived, c
  <2>6. InLine(r, S, c, arrived, C, Q \o <<TagObserved(m), TrainStatus(arrived)>>, L)
    BY <1>1, <1>2, <1>4, <2>4, <2>5, RunIn DEF c
  <2>7. TrainInLine(t)'
    BY <1>3, <1>9, <2>1, <2>2, <2>6 DEF TrainInLine, r, S, C, L, Q
  <2> QED
    BY <1>9, <2>3, <2>7, OneInLine
<1> QED
  BY <1>10, <1>11 DEF Run

(* A train that stands says where.                                         *)
LEMMA StandStaysInLine ==
    ASSUME LongTrainsOffJunctions, TypeOK, DeliveryTypeOK, Orderly, TrainsInLine,
           NEW t \in Train, Stand(t)
    PROVE  TrainsInLine'
<1> DEFINE r == trains[t]
           S == cleared[t]
           b == body[t]
           l == loco[t]
           C == toTrain[t]
           Q == fromTrain[t]
           L == TrainLength[t]
<1>1. /\ r \in TrainState /\ OnItsWay(r) /\ b \in Body /\ LocoOK(l) /\ Q \in Seq(Report)
      /\ L \in Nat
  BY TrainInOrder
<1>2. /\ l.powered /\ l.route # <<>> /\ Q = <<>>
      /\ trains' = trains /\ cleared' = cleared /\ body' = body /\ loco' = loco /\ toTrain' = toTrain
      /\ fromTrain' = [fromTrain EXCEPT ![t] = <<TrainStatus(l)>>]
  BY DEF Stand, vars, railVars
<1>3. /\ fromTrain'[t] = Append(Q, TrainStatus(l))
      /\ \A u \in Train \ {t} : fromTrain'[u] = fromTrain[u]
  BY <1>2 DEF DeliveryTypeOK, TrainsTyped
<1>4. r.stops # <<>> /\ InLine(r, S, b, l, C, Q, L)
  BY <1>2 DEF TrainsInLine, TrainInLine, Unmoved
<1>5. PICK idx, P : InLineAt(r, S, b, l, C, Q, L, idx, P)
  BY <1>4 DEF InLine
<1> HIDE DEF r, S, b, l, C, Q, L
<1>6. InLine(r, S, b, l, C, Append(Q, TrainStatus(l)), L)
  BY <1>1, <1>2, <1>5, Stands
<1>7. TrainInLine(t)'
  BY <1>2, <1>3, <1>4, <1>6 DEF TrainInLine, r, S, b, l, C, L
<1> QED
  BY <1>2, <1>3, <1>7, OneInLine

(* A train that obeys, or is dead and does not.                            *)
LEMMA ObeyStaysInLine ==
    ASSUME LongTrainsOffJunctions, TypeOK, DeliveryTypeOK, Orderly, TrainsInLine,
           NEW t \in Train, Obey(t)
    PROVE  TrainsInLine'
<1> DEFINE r == trains[t]
           S == cleared[t]
           b == body[t]
           l == loco[t]
           C == toTrain[t]
           Q == fromTrain[t]
           L == TrainLength[t]
<1>1. r \in TrainState /\ LocoOK(l) /\ Commands(C) /\ r.transit \in Seq(Block)
  BY TrainInOrder DEF TrainState
<1>2. /\ C # <<>> /\ toTrain' = [toTrain EXCEPT ![t] = Tail(C)]
      /\ trains' = trains /\ cleared' = cleared /\ body' = body /\ fromTrain' = fromTrain
      /\ \/ l.powered /\ loco' = [loco EXCEPT ![t] = Obeyed(l, Head(C))]
         \/ ~l.powered /\ loco' = loco
  BY DEF Obey, vars, DeliveryTypeOK, TrainsTyped
<1>3. /\ toTrain'[t] = Tail(C)
      /\ \A u \in Train \ {t} : toTrain'[u] = toTrain[u] /\ loco'[u] = loco[u]
      /\ \/ l.powered /\ loco'[t] = Obeyed(l, Head(C))
         \/ ~l.powered /\ loco'[t] = l
  BY <1>2 DEF DeliveryTypeOK, TrainsTyped
<1>4. r.stops # <<>> /\ InLine(r, S, b, l, C, Q, L)
  BY <1>2 DEF TrainsInLine, TrainInLine, Unmoved
<1>5. PICK m : loco'[t] = m
  OBVIOUS
<1> HIDE DEF r, S, b, l, C, Q, L
<1>6. InLine(r, S, b, m, Tail(C), Q, L)
  <2>1. CASE l.powered /\ m = Obeyed(l, Head(C))
    BY <1>1, <1>2, <1>4, <2>1, ObeysInLine
  <2>2. CASE ~l.powered /\ m = l
    BY <1>1, <1>2, <1>4, <2>2, LessIsInLine
  <2> QED
    BY <1>3, <1>5, <2>1, <2>2
<1>7. TrainInLine(t)'
  BY <1>2, <1>3, <1>4, <1>5, <1>6 DEF TrainInLine, r, S, b, Q, L
<1> QED
  BY <1>2, <1>3, <1>7, OneInLine

(* A train whose battery dies.                                             *)
LEMMA DeathStaysInLine ==
    ASSUME DeliveryTypeOK, TrainsInLine, NEW t \in Train, PowerOff(t)
    PROVE  TrainsInLine'
<1> DEFINE l == loco[t]
           m == [Stopped(l) EXCEPT !.powered = FALSE]
<1>1. /\ trains' = trains /\ cleared' = cleared /\ body' = body
      /\ toTrain' = toTrain /\ fromTrain' = fromTrain
      /\ loco' = [loco EXCEPT ![t] = m]
  BY DEF PowerOff, vars, queueVars, DeliveryTypeOK, TrainsTyped
<1>2. loco'[t] = m /\ \A u \in Train \ {t} : loco'[u] = loco[u]
  BY <1>1 DEF DeliveryTypeOK, TrainsTyped
<1>3. LocoOK(l)
  BY DEF DeliveryTypeOK, TrainsTyped
<1> HIDE DEF l
<1>4. /\ m.powered = FALSE /\ m.motion = "stopped" /\ m.route = l.route /\ m.distance = l.distance
  BY <1>3 DEF LocoOK, Stopped
<1> HIDE DEF m
<1>5. TrainInLine(t)'
  <2>1. CASE trains[t].stops = <<>>
    BY <1>1, <1>2, <1>4, <2>1 DEF TrainsInLine, TrainInLine, Unmoved, l
  <2>2. CASE trains[t].stops # <<>>
    <3>1. InLine(trains[t], cleared[t], body[t], l, toTrain[t], fromTrain[t], TrainLength[t])
      BY <2>2 DEF TrainsInLine, TrainInLine, l
    <3>2. InLine(trains[t], cleared[t], body[t], m, toTrain[t], fromTrain[t], TrainLength[t])
      BY <1>4, <3>1, DiesInLine
    <3> QED
      BY <1>1, <1>2, <2>2, <3>2 DEF TrainInLine
  <2> QED
    BY <2>1, <2>2
<1> QED
  BY <1>1, <1>2, <1>5, OneInLine

(* A grant that is lost is not missed.                                     *)
LEMMA LossStaysInLine ==
    ASSUME LongTrainsOffJunctions, TypeOK, DeliveryTypeOK, Orderly, TrainsInLine,
           Lose, ReportsAndRoutesArrive
    PROVE  TrainsInLine'
<1>1. /\ trains' = trains /\ cleared' = cleared /\ body' = body /\ loco' = loco
      /\ fromTrain' = fromTrain
  BY DEF Lose, vars, railVars, ReportsAndRoutesArrive
<1>2. ASSUME toTrain' = toTrain
      PROVE  TrainsInLine'
  BY <1>1, <1>2 DEF TrainsInLine, TrainInLine
<1>3. ASSUME NEW t \in Train, toTrain[t] # <<>>, toTrain' = [toTrain EXCEPT ![t] = Tail(@)],
             toTrain' # toTrain
      PROVE  TrainsInLine'
  <2> DEFINE r == trains[t]
             C == toTrain[t]
  <2>1. r \in TrainState /\ Commands(C) /\ r.transit \in Seq(Block)
    BY TrainInOrder DEF TrainState
  <2>2. toTrain'[t] = Tail(C) /\ \A u \in Train \ {t} : toTrain'[u] = toTrain[u]
    BY <1>3 DEF DeliveryTypeOK, TrainsTyped
  <2>3. r.stops # <<>> /\ InLine(r, cleared[t], body[t], loco[t], C, fromTrain[t], TrainLength[t])
    BY <1>3 DEF TrainsInLine, TrainInLine, Unmoved
  <2>4. Tail(C) = C \/ Head(C).command = "grant_clearance"
    BY <2>2 DEF ReportsAndRoutesArrive
  <2>5. Tail(C) # C
    <3>1. C \in Seq(Range(C)) /\ C # <<>>
      BY <1>3, <2>1 DEF Commands
    <3> HIDE DEF C
    <3>2. Len(Tail(C)) = Len(C) - 1 /\ Len(C) \in Nat
      BY <3>1
    <3> QED
      BY <3>2
  <2> HIDE DEF r, C
  <2>6. InLine(r, cleared[t], body[t], loco[t], Tail(C), fromTrain[t], TrainLength[t])
    BY <1>3, <2>1, <2>3, <2>4, <2>5, LessIsInLine DEF C
  <2>7. TrainInLine(t)'
    BY <1>1, <2>2, <2>3, <2>6 DEF TrainInLine, r
  <2> QED
    BY <1>1, <2>2, <2>7, OneInLine
<1> QED
  BY <1>2, <1>3 DEF Lose

(* What the scheduler decides, and tells.                                  *)
LEMMA ScheduleStaysInLine ==
    ASSUME LongTrainsOffJunctions, TypeOK, TypeOK', DeliveryTypeOK, Orderly, Orderly',
           TrainsInLine, Schedule
    PROVE  TrainsInLine'
<1> SUFFICES ASSUME NEW u \in Train
             PROVE  TrainInLine(u)'
  BY DEF TrainsInLine
<1> DEFINE r == trains[u]
           s == trains'[u]
           S == cleared[u]
           H == cleared'[u]
           b == body[u]
           l == loco[u]
           C == toTrain[u]
           Q == fromTrain[u]
           L == TrainLength[u]
           D == Told(u)
<1>1. /\ r \in TrainState /\ OnItsWay(r) /\ HoldsInOrder(r, S)
      /\ LocoOK(l) /\ Commands(C) /\ Q \in Seq(Report) /\ L \in Nat \ {0}
  BY TrainInOrder
<1>2. /\ s \in TrainState /\ OnItsWay(s) /\ Plain(u, r, S) /\ Plain(u, s, H)
  BY DEF TypeOK, TrainsOK, Orderly, Fitting, Fit
<1>3. /\ s.last = r.last /\ s.stops = r.stops /\ S \subseteq H /\ H \subseteq S \cup AheadOf(r)
  BY StepOnATrain DEF Schedule
<1>4. \/ s.transit = r.transit /\ s.progress = r.progress /\ GrantsTold(r, S, H, D)
      \/ /\ ~UnderWay(r) /\ s.progress = 1 /\ H = S
         /\ \/ s.transit = <<>> /\ D = <<>>
            \/ s.transit # <<>> /\ D = <<AssignRoute(s.transit)>>
  BY ToldOf DEF Schedule
<1>5. toTrain'[u] = C \o D /\ body'[u] = b /\ loco'[u] = l /\ fromTrain'[u] = Q
  BY DEF Schedule, railVars
<1>6. C \in Seq(Range(C))
  BY <1>1 DEF Commands
<1>7. CASE r.stops = <<>>
  <2>1. Unmoved(u, b, l, C, Q)
    BY <1>7 DEF TrainsInLine, TrainInLine
  <2>2. r.transit = <<>> /\ s.transit = <<>>
    BY <1>2, <1>3, <1>7 DEF Plain
  <2>3. D = <<>>
    <3>1. CASE GrantsTold(r, S, H, D)
      <4>1. D \in Seq(Range(D)) /\ DOMAIN r.transit = {}
        BY <2>2, <3>1 DEF GrantsTold
      <4>2. PICK h \in [DOMAIN D -> DOMAIN r.transit] : TRUE
        BY <3>1 DEF GrantsTold
      <4> HIDE DEF D
      <4>3. 1 \notin DOMAIN D
        BY <4>1, <4>2
      <4> QED
        BY <4>1, <4>3
    <3> QED
      BY <1>4, <2>2, <3>1
  <2>4. C = <<>> /\ C \o D = <<>>
    BY <2>1, <2>3 DEF Unmoved
  <2> QED
    BY <1>3, <1>5, <1>7, <2>1, <2>4 DEF TrainInLine
<1>8. CASE r.stops # <<>>
  <2>1. InLine(r, S, b, l, C, Q, L)
    BY <1>8 DEF TrainsInLine, TrainInLine
  <2> HIDE DEF r, s, S, H, b, l, C, Q, L, D
  <2>2. InLine(s, H, b, l, C \o D, Q, L)
    <3>1. CASE s.transit = r.transit /\ s.progress = r.progress /\ GrantsTold(r, S, H, D)
      BY <1>1, <1>3, <2>1, <3>1, TaughtInLine
    <3>2. CASE /\ ~UnderWay(r) /\ s.progress = 1 /\ H = S
               /\ \/ s.transit = <<>> /\ D = <<>>
                  \/ s.transit # <<>> /\ D = <<AssignRoute(s.transit)>>
      BY <1>1, <1>2, <1>3, <1>6, <2>1, <3>2, ReplannedInLine
    <3> QED
      BY <1>4, <3>1, <3>2
  <2> QED
    BY <1>3, <1>5, <1>8, <2>2 DEF TrainInLine, r, s, H, L
<1> QED
  BY <1>7, <1>8

(* A marker that arrives from a train is the one that the scheduler        *)
(* expects it to pass.                                                     *)
LEMMA TagIsPassed ==
    ASSUME LongTrainsOffJunctions, TypeOK, DeliveryTypeOK, Orderly, TrainsInLine,
           NEW t \in Train, NEW dwellOver, Receive(t, dwellOver),
           Head(fromTrain[t]).event = "tag_observed"
    PROVE  /\ PassesOn(t) /\ UNCHANGED toTrain
           /\ cleared' = cleared
           /\ trains'[t].transit = trains[t].transit /\ trains'[t].stops = trains[t].stops
           /\ trains'[t].progress = trains[t].progress + 1
           /\ trains'[t].last = To(trains[t].transit[trains[t].progress])
           /\ \A u \in Train \ {t} : trains'[u] = trains[u]
<1> DEFINE r == trains[t]
           S == cleared[t]
           Q == fromTrain[t]
           T == r.transit
           e == T[r.progress]
           m == Head(Q).marker
           q == [r EXCEPT !.last = m, !.entry = None]
           s == trains'[t]
<1>1. /\ r \in TrainState /\ OnItsWay(r) /\ HoldsInOrder(r, S) /\ Q \in Seq(Report)
      /\ TrainLength[t] \in Nat \ {0} /\ trains \in [Train -> TrainState]
      /\ cleared \in [Train -> SUBSET Block] /\ Plain(t, r, S)
  BY TrainInOrder DEF TypeOK, TrainsOK, Orderly, Fitting, Fit
<1>2. Q # <<>>
  BY DEF Receive
<1>3. r.stops # <<>> /\ InLine(r, S, body[t], loco[t], toTrain[t], Q, TrainLength[t])
  BY <1>2 DEF TrainsInLine, TrainInLine, Unmoved
<1>4. PICK idx, P : InLineAt(r, S, body[t], loco[t], toTrain[t], Q, TrainLength[t], idx, P)
  BY <1>3 DEF InLine
<1>5. UnderWay(r) /\ m = To(e) /\ e \in S /\ S \subseteq AheadOf(r)
  <2> HIDE DEF r, S, Q
  <2> QED
    BY <1>1, <1>2, <1>4, TagExpected DEF Q
<1>6. e \in Declared /\ r.last = From(e) /\ e = <<From(e), To(e)>> /\ From(e) \in Marker /\ m \in Marker
  <2>1. e \in Declared /\ e \in Block
    BY <1>1, <1>5 DEF OnItsWay, IsWay, UnderWay, Block
  <2>2. r.last = From(e)
    BY <1>1, <1>5 DEF OnItsWay, Place, UnderWay
  <2>3. e = <<From(e), To(e)>>
    BY <2>1, LayoutAssumption DEF EdgeRef, From, To
  <2> QED
    BY <1>5, <2>1, <2>2, <2>3, BlockEnds
<1>7. ~Contradicts(t, m)
  BY <1>5, <1>6 DEF Contradicts, Orderly, Quiet
<1>8. HandleTrainAtMarker(t, m) /\ UNCHANGED toTrain
  BY <1>7 DEF Receive, HandleTopologyViolation
<1>9. r.length # 0
  <2>1. t \in Registered
    BY <1>8 DEF HandleTrainAtMarker, Reporting
  <2> QED
    BY <1>1, <2>1 DEF Orderly, Quiet
<1>10. cleared' = cleared
  <2>1. cleared' = [cleared EXCEPT ![t] = cleared[t]]
    BY <1>1, <1>8, <1>9 DEF HandleTrainAtMarker
  <2> QED
    BY <1>1, <2>1
<1>11. s = AdvanceTransit(q, m) /\ \A u \in Train \ {t} : trains'[u] = trains[u]
  BY <1>1, <1>8 DEF HandleTrainAtMarker
<1>12. /\ q \in TrainState /\ q.stops = r.stops /\ q.transit = T /\ q.progress = r.progress
       /\ q.last = m
  BY <1>1, <1>6 DEF TrainState
<1>13. q.progress \in DOMAIN q.transit /\ To(q.transit[q.progress]) = m
  BY <1>5, <1>12 DEF UnderWay
<1> HIDE DEF q, m
<1>14. s.transit = q.transit /\ s.stops = q.stops /\ s.progress = q.progress + 1 /\ s.last = q.last
  BY <1>11, <1>12, <1>13 DEF AdvanceTransit, TrainState
<1>15. PassesOn(t)
  BY <1>5, <1>8 DEF PassesOn, InTransit, NextEdge, UnderWay
<1> QED
  BY <1>5, <1>8, <1>10, <1>11, <1>12, <1>14, <1>15

(* A report that arrives from a train is an orderly one.                   *)
LEMMA ReportIsOrderly ==
    ASSUME LongTrainsOffJunctions, TypeOK, DeliveryTypeOK, Orderly, TrainsInLine,
           NEW t \in Train, NEW dwellOver, Receive(t, dwellOver),
           Head(fromTrain[t]).event # "tag_observed"
    PROVE  /\ Head(fromTrain[t]).event = "train_status"
           /\ OrderlyStatus(t, Head(fromTrain[t]).edge, Head(fromTrain[t]).distance, dwellOver)
           /\ UNCHANGED toTrain /\ trains[t].length = TrainLength[t]
<1> DEFINE r == trains[t]
           S == cleared[t]
           Q == fromTrain[t]
           e == Head(Q)
           L == TrainLength[t]
<1>1. /\ r \in TrainState /\ OnItsWay(r) /\ HoldsInOrder(r, S) /\ Q \in Seq(Report)
      /\ L \in Nat \ {0} /\ Coherent(r)
  BY TrainInOrder DEF TypeOK, TrainsOK
<1>2. /\ Q # <<>> /\ e.event = "train_status"
      /\ HandleTrainStatus(t, e.edge, e.distance, dwellOver) /\ UNCHANGED toTrain
  BY DEF Receive
<1>3. r.stops # <<>> /\ InLine(r, S, body[t], loco[t], toTrain[t], Q, L)
  BY <1>2 DEF TrainsInLine, TrainInLine, Unmoved
<1>4. PICK idx, P : InLineAt(r, S, body[t], loco[t], toTrain[t], Q, L, idx, P)
  BY <1>3 DEF InLine
<1>5. r.length = L
  <2>1. t \in Registered
    BY <1>2 DEF HandleTrainStatus
  <2> QED
    BY <2>1 DEF Orderly, Quiet
<1>6. r.last # None
  BY <1>1, <1>3 DEF Coherent
<1>7. ReportFits(r, S, body[t], P, r.progress, e)
  <2>1. EventsFit(r, S, body[t], Q, idx, P, L)
    BY <1>4 DEF InLineAt
  <2>2. 1 \in 1..Len(Q) /\ e = Q[1]
    BY <1>1, <1>2
  <2>3. Q[1].event # "tag_observed"
    BY <1>2, <2>2
  <2> QED
    BY <2>1, <2>2, <2>3 DEF EventsFit
<1>8. e \in Report
  BY <1>1, <1>2
<1>9. e.distance \in Nat
  BY <1>8 DEF Report
<1>10. \/ e.edge = None
       \/ From(e.edge) # r.last
       \/ UnderWay(r) /\ e.edge = r.transit[r.progress] /\ (e.distance > 0 => e.edge \in S)
  BY <1>7 DEF ReportFits, PlaceAt, UnderWay
<1>11. UnderWay(r) /\ e.edge = r.transit[r.progress] /\ (e.distance > 0 => e.edge \in S) =>
         /\ InTransit(t) /\ e.edge = NextEdge(t)
         /\ r.length = 0 \/ e.distance < r.length \/ e.edge \in cleared[t]
  <2> HIDE DEF e
  <2>1. e.distance > 0 \/ e.distance < L
    BY <1>1, <1>9
  <2> QED
    BY <1>5, <2>1 DEF UnderWay, InTransit, NextEdge
<1> QED
  BY <1>2, <1>5, <1>6, <1>10, <1>11 DEF OrderlyStatus

(* A status changes nothing of a train's place on its way.                 *)
LEMMA StatusMovesNobody ==
    ASSUME TypeOK, NEW t \in Train, NEW edge \in Block \cup {None}, NEW mm, NEW dwellOver,
           HandleTrainStatus(t, edge, mm, dwellOver)
    PROVE  /\ trains'[t].transit = trains[t].transit /\ trains'[t].progress = trains[t].progress
           /\ trains'[t].last = trains[t].last /\ trains'[t].stops = trains[t].stops
           /\ \A u \in Train \ {t} : trains'[u] = trains[u] /\ cleared'[u] = cleared[u]
<1> DEFINE r == trains[t]
           s == trains'[t]
           seeded == IF r.current = None /\ r.entry = None THEN [r EXCEPT !.current = edge] ELSE r
           left == [seeded EXCEPT !.dwelling = FALSE]
<1>1. r \in TrainState /\ trains \in [Train -> TrainState] /\ cleared \in [Train -> SUBSET Block]
  BY DEF TypeOK, TrainsOK
<1>2. /\ trains' = [trains EXCEPT ![t] = Advanced(left)] \/ trains' = [trains EXCEPT ![t] = seeded]
      /\ cleared' = cleared \/ \E freed : cleared' = [cleared EXCEPT ![t] = @ \ freed]
  BY DEF HandleTrainStatus
<1>3. s = Advanced(left) \/ s = seeded
  BY <1>1, <1>2
<1>4. \A u \in Train \ {t} : trains'[u] = trains[u] /\ cleared'[u] = cleared[u]
  BY <1>1, <1>2
<1> HIDE DEF r, s
<1>5. /\ seeded \in TrainState /\ seeded.transit = r.transit /\ seeded.progress = r.progress
      /\ seeded.last = r.last /\ seeded.stops = r.stops
  BY <1>1 DEF TrainState
<1> HIDE DEF seeded
<1>6. /\ left \in TrainState /\ left.transit = seeded.transit /\ left.progress = seeded.progress
      /\ left.last = seeded.last /\ left.stops = seeded.stops
  BY <1>5 DEF TrainState
<1> HIDE DEF left
<1>7. LET a == Advanced(left)
      IN  /\ a.transit = left.transit /\ a.progress = left.progress
          /\ a.last = left.last /\ a.stops = left.stops
  BY <1>6 DEF Advanced, TrainState
<1>8. /\ s.transit = r.transit /\ s.progress = r.progress /\ s.last = r.last /\ s.stops = r.stops
  BY <1>3, <1>5, <1>6, <1>7
<1> QED
  BY <1>4, <1>8 DEF r, s

(* An event that is taken in.                                              *)
LEMMA ReceiveStaysInLine ==
    ASSUME LongTrainsOffJunctions, TypeOK, DeliveryTypeOK, Orderly, TrainsInLine,
           NEW t \in Train, NEW dwellOver, Receive(t, dwellOver)
    PROVE  TrainsInLine'
<1> DEFINE r == trains[t]
           s == trains'[t]
           S == cleared[t]
           H == cleared'[t]
           b == body[t]
           l == loco[t]
           C == toTrain[t]
           Q == fromTrain[t]
           L == TrainLength[t]
<1>1. /\ r \in TrainState /\ OnItsWay(r) /\ HoldsInOrder(r, S) /\ Q \in Seq(Report)
      /\ L \in Nat \ {0} /\ b \in Body
  BY TrainInOrder
<1>2. Q # <<>> /\ body' = body /\ loco' = loco /\ fromTrain' = [fromTrain EXCEPT ![t] = Tail(Q)]
  BY DEF Receive, railVars
<1>3. fromTrain'[t] = Tail(Q) /\ \A u \in Train \ {t} : fromTrain'[u] = fromTrain[u]
  BY <1>2 DEF DeliveryTypeOK, TrainsTyped
<1>4. r.stops # <<>> /\ InLine(r, S, b, l, C, Q, L)
  BY <1>2 DEF TrainsInLine, TrainInLine, Unmoved
<1>5. PICK idx, P : InLineAt(r, S, b, l, C, Q, L, idx, P)
  BY <1>4 DEF InLine
<1>6. CASE Head(Q).event = "tag_observed"
  <2>1. /\ UNCHANGED toTrain /\ cleared' = cleared
        /\ s.transit = r.transit /\ s.stops = r.stops /\ s.progress = r.progress + 1
        /\ s.last = To(r.transit[r.progress])
        /\ \A u \in Train \ {t} : trains'[u] = trains[u]
    BY <1>6, TagIsPassed
  <2> HIDE DEF r, s, S, H, b, l, C, Q, L
  <2>2. InLine(s, S, b, l, C, Tail(Q), L)
    BY <1>1, <1>2, <1>5, <1>6, <2>1, TagTaken
  <2>3. TrainInLine(t)'
    BY <1>2, <1>3, <1>4, <2>1, <2>2 DEF TrainInLine, r, s, S, b, l, C, L
  <2> QED
    BY <1>2, <1>3, <2>1, <2>3, OneInLine
<1>7. CASE Head(Q).event # "tag_observed"
  <2> DEFINE e == Head(Q)
  <2>1. /\ e.event = "train_status" /\ OrderlyStatus(t, e.edge, e.distance, dwellOver)
        /\ UNCHANGED toTrain /\ r.length = L
    BY <1>7, ReportIsOrderly
  <2>2. e \in Report
    BY <1>1, <1>2
  <2>3. e.edge \in Block \cup {None} /\ e.distance \in Nat
    BY <2>1, <2>2 DEF Report
  <2>4. /\ s.transit = r.transit /\ s.progress = r.progress /\ s.last = r.last /\ s.stops = r.stops
        /\ \A u \in Train \ {t} : trains'[u] = trains[u] /\ cleared'[u] = cleared[u]
    BY <2>1, <2>3, StatusMovesNobody DEF OrderlyStatus
  <2>5. /\ H # S => /\ e.edge = NextEdge(t) /\ InTransit(t)
                    /\ e.distance >= r.length /\ H = S \cap AheadOf(r)
        /\ InTransit(t) /\ e.edge = NextEdge(t) /\ e.edge # None /\ e.distance >= r.length =>
              H = S \cap AheadOf(r)
    <3> HIDE DEF e
    <3>1. r.length # 0
      BY <1>1, <2>1
    <3> QED
      BY <2>1, <2>3, <3>1, TailStays
  <2>6. /\ H # S => /\ UnderWay(r) /\ e.edge = r.transit[r.progress]
                    /\ e.distance >= L /\ H = S \cap AheadOf(r)
        /\ UnderWay(r) /\ e.edge = r.transit[r.progress] /\ e.distance >= L =>
              H = S \cap AheadOf(r)
    <3>1. UnderWay(r) <=> InTransit(t)
      BY DEF UnderWay, InTransit
    <3>2. NextEdge(t) = r.transit[r.progress]
      BY DEF NextEdge
    <3>3. UnderWay(r) => r.transit[r.progress] # None
      <4>1. UnderWay(r) => r.transit[r.progress] \in Block
        BY <1>1 DEF UnderWay, TrainState
      <4> QED
        BY <4>1, LayoutAssumption
    <3> HIDE DEF e, r, S, H
    <3> QED
      BY <2>1, <2>5, <3>1, <3>2, <3>3
  <2> HIDE DEF r, s, S, H, b, l, C, Q, L
  <2>7. b.offset \in Nat /\ L \in Nat
    BY <1>1 DEF Body
  <2>8. InLine(s, H, b, l, C, Tail(Q), L)
    BY <1>1, <1>2, <1>5, <2>1, <2>4, <2>6, <2>7, ReportTaken
  <2>9. TrainInLine(t)'
    BY <1>2, <1>3, <1>4, <2>1, <2>4, <2>8 DEF TrainInLine, r, s, H, b, l, C, L
  <2> QED
    BY <1>2, <1>3, <2>1, <2>4, <2>9, OneInLine
<1> QED
  BY <1>6, <1>7

(* A train or a switch that arrives, and a timetable that is handed out.   *)
LEMMA StartStaysInLine ==
    ASSUME LongTrainsOffJunctions, TypeOK, DeliveryTypeOK, Orderly, TrainsInLine, Start
    PROVE  TrainsInLine'
<1>1. /\ body' = body /\ loco' = loco /\ toTrain' = toTrain /\ fromTrain' = fromTrain
      /\ trains \in [Train -> TrainState] /\ cleared \in [Train -> SUBSET Block]
  BY DEF Start, railVars, queueVars, TypeOK, TrainsOK
<1>2. ASSUME NEW t \in Train, RegisterTrain(t)
      PROVE  TrainsInLine'
  <2> DEFINE r == trains[t]
             s == trains'[t]
             n == IF TrainLength[t] > 0 THEN TrainLength[t] ELSE r.length
  <2>1. /\ cleared' = cleared /\ s = [r EXCEPT !.length = n]
        /\ \A u \in Train \ {t} : trains'[u] = trains[u]
    BY <1>1, <1>2 DEF RegisterTrain
  <2>2. r \in TrainState
    BY <1>1
  <2> HIDE DEF r, s, n
  <2>3. s.transit = r.transit /\ s.progress = r.progress /\ s.last = r.last /\ s.stops = r.stops
    BY <2>1, <2>2 DEF TrainState
  <2>4. TrainInLine(t)'
    <3>1. CASE r.stops = <<>>
      BY <1>1, <2>3, <3>1 DEF TrainsInLine, TrainInLine, r, s
    <3>2. CASE r.stops # <<>>
      <4>1. InLine(r, cleared[t], body[t], loco[t], toTrain[t], fromTrain[t], TrainLength[t])
        BY <3>2 DEF TrainsInLine, TrainInLine, r
      <4>2. PICK idx, P : InLineAt(r, cleared[t], body[t], loco[t], toTrain[t], fromTrain[t],
                                   TrainLength[t], idx, P)
        BY <4>1 DEF InLine
      <4>3. InLineAt(s, cleared[t], body[t], loco[t], toTrain[t], fromTrain[t],
                     TrainLength[t], idx, P)
        BY <2>3, <4>2, LineStays
      <4> QED
        BY <1>1, <2>1, <2>3, <3>2, <4>3 DEF TrainInLine, InLine, s
    <3> QED
      BY <3>1, <3>2
  <2> QED
    BY <1>1, <2>1, <2>4, OneInLine
<1>3. ASSUME NEW j \in Junction, RecordSwitchPairing(j)
      PROVE  TrainsInLine'
  BY <1>1, <1>3 DEF RecordSwitchPairing, TrainsInLine, TrainInLine
<1>4. ASSUME NEW t \in Train, trains[t].stops = <<>>, AssignSchedule(t, Timetable[t])
      PROVE  TrainsInLine'
  <2> DEFINE r == trains[t]
             s == trains'[t]
             stops == Timetable[t]
             none == <<>>
             first == stops[1]
             next == IF Len(stops) > 1 THEN 2 ELSE 1
  <2>1. r \in TrainState /\ r.last = None /\ stops # <<>>
    BY <1>1, <1>4, RailwayAssumption DEF Orderly, Fitting, Fit, Plain
  <2>2. /\ s = [r EXCEPT !.last = first, !.transit = none, !.progress = 1,
                         !.stops = stops, !.stop = next]
        /\ \A u \in Train \ {t} : trains'[u] = trains[u] /\ cleared'[u] = cleared[u]
    BY <1>1, <1>4, <2>1 DEF AssignSchedule
  <2>3. Unmoved(t, body[t], loco[t], toTrain[t], fromTrain[t]) /\ TrainLength[t] \in Nat \ {0}
    BY <1>4, TrainInOrder DEF TrainsInLine, TrainInLine
  <2> HIDE DEF r, s, none, first, next, stops
  <2>4. s.transit = none /\ s.progress = 1 /\ s.last = first /\ s.stops = stops
    BY <2>1, <2>2 DEF TrainState
  <2>5. InLine(s, cleared'[t], body[t], loco[t], toTrain[t], fromTrain[t], TrainLength[t])
    BY <2>3, <2>4, StartsInLine DEF none, first, stops
  <2>6. TrainInLine(t)'
    BY <1>1, <2>1, <2>4, <2>5 DEF TrainInLine, s
  <2> QED
    BY <1>1, <2>2, <2>6, OneInLine
<1> QED
  BY <1>2, <1>3, <1>4 DEF Start

(* The railway by message brings about nothing but orderly events.         *)
LEMMA DeliveryIsOrderly ==
    ASSUME InputsCovered, LongTrainsOffJunctions, TypeOK, DeliveryTypeOK, Orderly,
           SwitchesInStep, TrainsInLine, [DeliveryNext]_deliveryVars
    PROVE  [OrderlyNext]_vars
<1>1. CASE Schedule
  BY <1>1 DEF Schedule, OrderlyNext
<1>2. ASSUME NEW t \in Train, Run(t) \/ Stand(t) \/ Obey(t) \/ PowerOff(t)
      PROVE  UNCHANGED vars
  BY <1>2 DEF Run, Stand, Obey, PowerOff
<1>3. ASSUME NEW t \in Train, NEW dwellOver \in BOOLEAN, Receive(t, dwellOver)
      PROVE  OrderlyNext
  <2> DEFINE e == Head(fromTrain[t])
  <2>1. CASE e.event = "tag_observed"
    BY <1>3, <2>1, TagIsPassed DEF OrderlyNext
  <2>2. CASE e.event # "tag_observed"
    <3>1. e.event = "train_status" /\ OrderlyStatus(t, e.edge, e.distance, dwellOver)
      BY <1>3, <2>2, ReportIsOrderly
    <3>2. e \in Report
      BY <1>3 DEF Receive, DeliveryTypeOK, TrainsTyped
    <3>3. e.edge \in Block \cup {None} /\ e.distance \in Distances
      BY <3>1, <3>2 DEF Report, InputsCovered
    <3> QED
      BY <3>1, <3>3 DEF OrderlyNext
  <2> QED
    BY <2>1, <2>2
<1>4. ASSUME NEW j \in Junction, Throw(j)
      PROVE  UNCHANGED vars
  BY <1>4 DEF Throw
<1>5. ASSUME NEW j \in Junction, Confirmed(j)
      PROVE  OrderlyNext
  <2>1. fromSwitch[j] # <<>> /\ SwitchInStep(j) /\ HandleSwitchStateChanged(j, Head(fromSwitch[j]))
    BY <1>5 DEF Confirmed, SwitchesInStep
  <2>2. requested[j] \notin {None, position[j]} /\ fromSwitch[j] = <<requested[j]>>
    BY <2>1 DEF SwitchInStep
  <2>3. Head(fromSwitch[j]) = requested[j]
    BY <2>2, FirstOf
  <2> QED
    BY <2>1, <2>2, <2>3 DEF OrderlyNext
<1>6. CASE Start
  BY <1>6 DEF Start, InputsCovered, OrderlyNext
<1>7. CASE Lose
  BY <1>7 DEF Lose
<1>8. CASE UNCHANGED deliveryVars
  BY <1>8 DEF deliveryVars
<1> QED
  BY <1>1, <1>2, <1>3, <1>4, <1>5, <1>6, <1>7, <1>8 DEF DeliveryNext

(* Every step.                                                             *)
LEMMA TrainsStayInLine ==
    ASSUME PointsDecide, TrainsFitBlocks, LongTrainsOffJunctions,
           TypeOK, TypeOK', DeliveryTypeOK, Orderly, Orderly', Points, Exclusive,
           SwitchesInStep, TrainsInLine,
           [DeliveryNext]_deliveryVars, [ReportsAndRoutesArrive]_deliveryVars
    PROVE  TrainsInLine'
<1>1. CASE Schedule
  BY <1>1, ScheduleStaysInLine
<1>2. ASSUME NEW t \in Train, Run(t) \/ Stand(t) \/ Obey(t) \/ PowerOff(t)
      PROVE  TrainsInLine'
  BY <1>2, RunStaysInLine, StandStaysInLine, ObeyStaysInLine, DeathStaysInLine
<1>3. ASSUME NEW t \in Train, NEW dwellOver \in BOOLEAN, Receive(t, dwellOver)
      PROVE  TrainsInLine'
  BY <1>3, ReceiveStaysInLine
<1>4. ASSUME trains' = trains, cleared' = cleared, body' = body, loco' = loco,
             toTrain' = toTrain, fromTrain' = fromTrain
      PROVE  TrainsInLine'
  BY <1>4 DEF TrainsInLine, TrainInLine
<1>5. ASSUME NEW j \in Junction, Throw(j) \/ Confirmed(j)
      PROVE  TrainsInLine'
  BY <1>4, <1>5 DEF Throw, Confirmed, HandleSwitchStateChanged, vars, railVars
<1>6. CASE Start
  BY <1>6, StartStaysInLine
<1>7. CASE UNCHANGED deliveryVars
  BY <1>4, <1>7 DEF deliveryVars, vars, railVars, queueVars
<1>8. CASE Lose
  BY <1>7, <1>8, LossStaysInLine
<1> QED
  BY <1>1, <1>2, <1>3, <1>5, <1>6, <1>7, <1>8 DEF DeliveryNext

-----------------------------------------------------------------------------
(* The inductive invariant.                                                *)

(* The scheduler's world is orderly, switches and trains are in step with  *)
(* what is on its way between them and the scheduler.                      *)
InOrder == Orderly /\ Points /\ SwitchesInStep /\ TrainsInLine

(* Nothing has moved to begin with.                                        *)
LEMMA OrderOfTheStart == DeliveryInit => InOrder
<1> SUFFICES ASSUME DeliveryInit
             PROVE  InOrder
  OBVIOUS
<1>1. Init
  BY DEF DeliveryInit
<1>2. \A t \in Train : TrainInLine(t)
  BY <1>1 DEF DeliveryInit, Init, InitialTrainState, Device0, TrainInLine, Unmoved
<1> QED
  BY <1>1, <1>2, OrderAtTheStart, PointsAtTheStart, SwitchesAtTheStart DEF InOrder, TrainsInLine

(* And every step, of which no report and no route is lost, keeps to it.   *)
LEMMA OrderGoesOn ==
    InputsCovered /\ PlansAreWays /\ LongTrainsOffJunctions /\ PointsDecide /\ TrainsFitBlocks
        /\ TypeOK /\ TypeOK' /\ DeliveryTypeOK /\ Exclusive /\ InOrder
        /\ [DeliveryNext]_deliveryVars /\ [ReportsAndRoutesArrive]_deliveryVars
        => InOrder'
<1> SUFFICES ASSUME InputsCovered, PlansAreWays, LongTrainsOffJunctions, PointsDecide,
                    TrainsFitBlocks, TypeOK, TypeOK', DeliveryTypeOK, Exclusive, InOrder,
                    [DeliveryNext]_deliveryVars, [ReportsAndRoutesArrive]_deliveryVars
             PROVE  InOrder'
  OBVIOUS
<1>1. Orderly /\ Points /\ SwitchesInStep /\ TrainsInLine
  BY DEF InOrder
<1>2. [OrderlyNext]_vars
  BY <1>1, DeliveryIsOrderly
<1>3. Orderly'
  BY <1>1, <1>2, OrderIsKept
<1>4. Points'
  BY <1>1, <1>2, <1>3, PointsAreKept
<1>5. SwitchesInStep'
  BY <1>1, SwitchesStayInStep
<1>6. TrainsInLine'
  BY <1>1, <1>3, TrainsStayInLine
<1> QED
  BY <1>3, <1>4, <1>5, <1>6 DEF InOrder

-----------------------------------------------------------------------------
(* What follows from it.                                                   *)

(* Between two places of a train's way, when it holds all that lies        *)
(* between them, the points lead over what it holds.                       *)
LEMMA HeldBetween ==
    ASSUME PointsDecide, TrainsFitBlocks, TypeOK, Orderly, Points, SwitchesInStep, Exclusive,
           NEW t \in Train, NEW i \in Nat, NEW k \in Nat,
           i >= trains[t].progress, i <= k, k <= Len(trains[t].transit) + 1,
           \A x \in i..(k - 1) : trains[t].transit[x] \in cleared[t]
    PROVE  HeldAllTheWay(t, PlaceAt(trains[t], i), PlaceAt(trains[t], k))
<1> DEFINE r == trains[t]
           T == r.transit
           m == PlaceAt(r, i)
           n == k - i
           g == [x \in 1..n |-> T[i + x - 1]]
           way == WayFrom(m, n)
<1>1. /\ r \in TrainState /\ OnItsWay(r) /\ IsWay(T) /\ T \in Seq(Declared)
      /\ r.progress \in Nat \ {0} /\ Len(T) \in Nat /\ DOMAIN T = 1..Len(T)
  BY DEF TypeOK, TrainsOK, TrainState, Orderly, Fitting, Fit, OnItsWay, IsWay
<1>2. n \in Nat
  OBVIOUS
<1> HIDE DEF n
<1>3. ASSUME NEW x \in 1..n
      PROVE  /\ x \in Nat /\ i + x - 1 \in DOMAIN T /\ i + x - 1 \in i..(k - 1)
             /\ g[x] = T[i + x - 1] /\ g[x] \in cleared[t] /\ g[x] \in Declared
             /\ WayOn(From(g[x])) = g[x]
             /\ From(g[x]) = PlaceAt(r, i + x - 1)
  <2>1. x \in Nat /\ i + x - 1 \in Nat /\ i + x - 1 >= i /\ i + x - 1 <= k - 1
    BY <1>2 DEF n
  <2> HIDE DEF r, T
  <2>2. i + x - 1 \in i..(k - 1)
    BY <2>1
  <2>3. i + x - 1 \in DOMAIN T /\ i + x - 1 >= r.progress
    BY <1>1, <2>1 DEF r, T
  <2>4. g[x] = T[i + x - 1]
    OBVIOUS
  <2> HIDE DEF g
  <2>5. T[i + x - 1] \in cleared[t]
    BY <2>2 DEF r, T
  <2>6. WayOn(From(T[i + x - 1])) = T[i + x - 1]
    BY <2>3, <2>5, PointsLead DEF r, T
  <2>7. From(T[i + x - 1]) = PlaceAt(r, i + x - 1)
    BY <1>1, <2>3, PlacesAreStarts DEF r, T
  <2>8. T[i + x - 1] \in Declared
    BY <1>1, <2>3
  <2> QED
    BY <2>1, <2>2, <2>3, <2>4, <2>5, <2>6, <2>7, <2>8
<1>4. \A x \in 1..n : g[x] = IF x = 1 THEN WayOn(m) ELSE WayOn(To(g[x - 1]))
  <2> SUFFICES ASSUME NEW x \in 1..n
               PROVE  g[x] = IF x = 1 THEN WayOn(m) ELSE WayOn(To(g[x - 1]))
    OBVIOUS
  <2>1. CASE x = 1
    <3>1. i + x - 1 = i
      BY <2>1
    <3> QED
      BY <1>3, <2>1, <3>1
  <2>2. CASE x # 1
    <3>1. x - 1 \in 1..n /\ i + (x - 1) - 1 = i + x - 1 - 1 /\ i + x - 1 # r.progress
      BY <1>1, <1>2, <1>3, <2>2
    <3>2. g[x - 1] = T[i + (x - 1) - 1]
      BY <1>3, <3>1
    <3>3. PlaceAt(r, i + x - 1) = To(g[x - 1])
      BY <3>1, <3>2 DEF PlaceAt
    <3> QED
      BY <1>3, <2>2, <3>3
  <2> QED
    BY <2>1, <2>2
<1>5. g = [x \in 1..n |-> IF x = 1 THEN WayOn(m) ELSE WayOn(To(g[x - 1]))]
  BY <1>4
<1> HIDE DEF g, m
<1>6. way = [x \in 1..n |-> IF x = 1 THEN WayOn(m) ELSE WayOn(To(way[x - 1]))]
  <2>1. way = CHOOSE f : f = [x \in 1..n |-> IF x = 1 THEN WayOn(m) ELSE WayOn(To(f[x - 1]))]
    BY DEF WayFrom
  <2> HIDE DEF way
  <2> QED
    BY <1>5, <2>1
<1> HIDE DEF way
<1>7. \A x \in 1..n : way[x] = g[x]
  <2> DEFINE bad == {x \in 1..n : way[x] # g[x]}
  <2> SUFFICES ASSUME bad # {}
               PROVE  FALSE
    OBVIOUS
  <2>1. bad \in SUBSET Nat
    BY <1>2
  <2> DEFINE x == Min(bad)
  <2>2. x \in bad /\ \A y \in bad : x <= y
    BY <2>1, LeastNumber
  <2> HIDE DEF x
  <2>3. x \in 1..n /\ x \in Nat /\ way[x] # g[x]
    BY <2>1, <2>2
  <2>4. CASE x = 1
    <3>1. way[1] = WayOn(m) /\ g[1] = WayOn(m)
      BY <1>4, <1>6, <2>3, <2>4
    <3> QED
      BY <2>3, <2>4, <3>1
  <2>5. CASE x # 1
    <3>1. x - 1 \in 1..n /\ ~(x <= x - 1)
      BY <1>2, <2>3, <2>5
    <3>2. way[x - 1] = g[x - 1]
      BY <2>2, <3>1
    <3>3. way[x] = WayOn(To(way[x - 1])) /\ g[x] = WayOn(To(g[x - 1]))
      BY <1>4, <1>6, <2>3, <2>5
    <3> QED
      BY <2>3, <3>2, <3>3
  <2> QED
    BY <2>4, <2>5
<1>8. DOMAIN way = 1..n
  BY <1>6
<1>9. Range(way) \subseteq cleared[t]
  BY <1>3, <1>7, <1>8 DEF Range
<1>10. PlaceAt(r, k) = IF n = 0 THEN PlaceAt(r, i) ELSE To(way[n])
  <2>1. CASE n = 0
    <3>1. k = i
      BY <2>1 DEF n
    <3> QED
      BY <2>1, <3>1
  <2>2. CASE n # 0
    <3>1. n \in 1..n /\ i + n - 1 = k - 1
      BY <1>2, <2>2 DEF n
    <3>2. k # r.progress
      <4>1. k # i
        BY <2>2 DEF n
      <4> QED
        BY <1>1, <4>1
    <3>3. way[n] = T[k - 1]
      BY <1>3, <1>7, <3>1
    <3> QED
      BY <2>2, <3>2, <3>3 DEF PlaceAt
  <2> QED
    BY <2>1, <2>2
<1>11. n \in 0..Cardinality(Declared)
  <2>1. \A x, y \in 1..n : g[x] = g[y] => x = y
    <3> SUFFICES ASSUME NEW x \in 1..n, NEW y \in 1..n, g[x] = g[y]
                 PROVE  x = y
      OBVIOUS
    <3>1. T[i + x - 1] = T[i + y - 1] /\ i + x - 1 \in DOMAIN T /\ i + y - 1 \in DOMAIN T
      BY <1>3
    <3>2. i + x - 1 = i + y - 1
      BY <1>1, <3>1 DEF IsWay
    <3> QED
      BY <1>3, <3>2
  <2>2. g \in [1..n -> Declared]
    BY <1>3 DEF g
  <2>3. g \in Injection(1..n, Declared)
    BY <2>1, <2>2 DEF Injection, IsInjective
  <2>4. IsFiniteSet(Declared)
    BY DEF TrainsFitBlocks
  <2>5. Cardinality(1..n) <= Cardinality(Declared)
    BY <2>3, <2>4, FS_Injection
  <2>6. Cardinality(1..n) = n
    BY <1>2, FS_Interval
  <2>7. Cardinality(Declared) \in Nat
    BY <2>4, FS_CardinalityType
  <2> QED
    BY <1>2, <2>5, <2>6, <2>7
<1> QED
  BY <1>9, <1>10, <1>11 DEF HeldAllTheWay, way, m, r

(* Behind block k of what is left of its way, a train is at that block's   *)
(* end.                                                                    *)
LEMMA PlaceAfter ==
    ASSUME NEW r, NEW k \in Nat, r.progress \in Nat, k >= r.progress
    PROVE  PlaceAt(r, k + 1) = To(r.transit[k])
<1> DEFINE T == r.transit
           p == r.progress
<1>1. PlaceAt(r, k + 1) = IF k + 1 = p THEN r.last ELSE To(T[k + 1 - 1])
  BY DEF PlaceAt
<1>2. k + 1 # p /\ k + 1 - 1 = k
  <2>1. p \in Nat /\ k >= p
    OBVIOUS
  <2> HIDE DEF p
  <2> QED
    BY <2>1
<1> HIDE DEF p, T
<1>3. T[k + 1 - 1] = T[k]
  BY <1>2
<1>4. PlaceAt(r, k + 1) = To(T[k])
  BY <1>1, <1>2, <1>3
<1> QED
  BY <1>4 DEF T

(* The points lead on to the end of block k, when the train holds all that *)
(* lies before it.                                                         *)
LEMMA HeldUpTo ==
    ASSUME PointsDecide, TrainsFitBlocks, TypeOK, Orderly, Points, SwitchesInStep, Exclusive,
           NEW t \in Train, NEW i \in Nat, NEW k \in Nat,
           trains[t].progress \in Nat, Len(trains[t].transit) \in Nat,
           k >= trains[t].progress, k <= Len(trains[t].transit),
           i >= trains[t].progress, i <= k + 1,
           \A x \in i..k : trains[t].transit[x] \in cleared[t]
    PROVE  HeldAllTheWay(t, PlaceAt(trains[t], i), To(trains[t].transit[k]))
<1>1. PlaceAt(trains[t], k + 1) = To(trains[t].transit[k])
  BY PlaceAfter
<1>2. PICK q \in Nat : q = k + 1
  OBVIOUS
<1>3. q <= Len(trains[t].transit) + 1 /\ i <= q
  BY <1>2
<1>4. \A x \in i..(q - 1) : trains[t].transit[x] \in cleared[t]
  <2>1. q - 1 = k
    BY <1>2
  <2> QED
    BY <2>1
<1>5. HeldAllTheWay(t, PlaceAt(trains[t], i), PlaceAt(trains[t], q))
  BY <1>3, <1>4, HeldBetween
<1> QED
  BY <1>1, <1>2, <1>5

(* The three promises, of trains in line.                                  *)
LEMMA InLineIsSafe ==
    PointsDecide /\ TrainsFitBlocks /\ LongTrainsOffJunctions
        /\ TypeOK /\ DeliveryTypeOK /\ Exclusive /\ InOrder
        => StaysOnItsTrack /\ LimitIsBacked /\ UncertainRegionHeld
<1> SUFFICES ASSUME PointsDecide, TrainsFitBlocks, LongTrainsOffJunctions,
                    TypeOK, DeliveryTypeOK, Exclusive, InOrder, NEW t \in Train
             PROVE  /\ Under(t) \subseteq cleared[t]
                    /\ loco[t].motion = "forward" =>
                         /\ loco[t].limit # None
                         /\ HeldAllTheWay(t, IF body[t].on = None THEN body[t].at
                                             ELSE To(body[t].on), loco[t].limit)
                    /\ trains[t].last # None => HeldAllTheWay(t, trains[t].last, body[t].at)
  BY DEF StaysOnItsTrack, LimitIsBacked, UncertainRegionHeld
<1> DEFINE r == trains[t]
           S == cleared[t]
           b == body[t]
           l == loco[t]
           T == r.transit
           p == r.progress
           L == TrainLength[t]
<1>1. /\ r \in TrainState /\ OnItsWay(r) /\ HoldsInOrder(r, S) /\ Plain(t, r, S)
      /\ b \in Body /\ LocoOK(l) /\ TrainInLine(t)
      /\ Orderly /\ Points /\ SwitchesInStep
  BY TrainInOrder DEF InOrder, TrainsInLine, Orderly, Fitting, Fit
<1>2. p \in Nat \ {0} /\ Len(T) \in Nat /\ DOMAIN T = 1..Len(T) /\ T \in Seq(Block)
  BY <1>1 DEF TrainState
<1>3. CASE r.stops = <<>>
  <2>1. Unmoved(t, b, l, toTrain[t], fromTrain[t]) /\ r.last = None
    BY <1>1, <1>3 DEF TrainInLine, Plain
  <2>2. Under(t) = {}
    BY <2>1 DEF Unmoved, Under
  <2> QED
    BY <2>1, <2>2 DEF Unmoved
<1>4. CASE r.stops # <<>>
  <2>1. PICK idx, P : InLineAt(r, S, b, l, toTrain[t], fromTrain[t], L, idx, P)
    BY <1>1, <1>4 DEF TrainInLine, InLine
  <2>2. BodyFits(r, S, b, P, L) /\ DeviceFits(r, S, b, l, toTrain[t], P)
    BY <2>1 DEF InLineAt
  <2>3. P \in p..(Len(T) + 1) /\ b.at = PlaceAt(r, P)
    BY <2>2 DEF BodyFits
  <2>4. P \in Nat /\ P >= p /\ P <= Len(T) + 1 /\ p \in Nat
    BY <1>2, <2>3
  <2>5. Under(t) \subseteq S
    <3>1. b.on # None => b.on \in S
      BY <2>2 DEF BodyFits
    <3>2. b.rear # None /\ b.offset < L => b.rear \in S
      <4>1. P > p \/ P = p
        BY <2>4
      <4> QED
        BY <2>2, <4>1 DEF BodyFits
    <3> QED
      BY <3>1, <3>2 DEF Under
  <2>6. HeldAllTheWay(t, r.last, b.at)
    <3>1. \A x \in p..(P - 1) : T[x] \in S
      BY <1>1, <2>2, CrossedIsHeld
    <3>2. p >= p /\ p <= P
      BY <2>4
    <3>3. HeldAllTheWay(t, PlaceAt(r, p), PlaceAt(r, P))
      BY <1>1, <2>4, <3>1, <3>2, HeldBetween
    <3> QED
      BY <2>3, <3>3 DEF PlaceAt
  <2>7. ASSUME l.motion = "forward"
        PROVE  /\ l.limit # None
               /\ HeldAllTheWay(t, IF b.on = None THEN b.at ELSE To(b.on), l.limit)
    <3>1. /\ P \in DOMAIN T /\ (b.on # None => b.on = T[P])
          /\ \E k \in DOMAIN T : /\ k >= P /\ T[k] \in S
                                 /\ FollowsTo(r, S, b, l, toTrain[t], P, k)
      BY <1>1, <2>2, <2>7, RunsOnItsWay
    <3>2. PICK k \in DOMAIN T :
            k >= P /\ T[k] \in S /\ FollowsTo(r, S, b, l, toTrain[t], P, k)
      BY <3>1
    <3>3. k \in Nat /\ k # 0 /\ k <= Len(T) /\ k >= p
      BY <1>2, <2>4, <3>2
    <3>4. l.limit = To(T[k]) /\ l.limit # None
      <4>1. l.limit = To(T[k])
        BY <3>2, <3>3 DEF FollowsTo
      <4>2. T[k] \in Block
        BY <1>2, <3>2
      <4> QED
        BY <4>1, <4>2, BlockEnds, LayoutAssumption
    <3>6. \A x \in p..k : T[x] \in S
      BY <1>1, <3>2, <3>3 DEF HoldsInOrder
    <3>7. ASSUME NEW i \in Nat, i >= p, i <= k + 1
          PROVE  HeldAllTheWay(t, PlaceAt(r, i), l.limit)
      <4>1. \A x \in i..k : x \in p..k
        BY <1>2, <3>3, <3>7
      <4>2. \A x \in i..k : T[x] \in S
        BY <3>6, <4>1
      <4>3. HeldAllTheWay(t, PlaceAt(r, i), To(T[k]))
        BY <1>1, <1>2, <3>3, <3>7, <4>2, HeldUpTo
      <4> QED
        BY <3>4, <4>3
    <3>8. CASE b.on = None
      <4>1. P <= k + 1
        BY <2>4, <3>2, <3>3
      <4> QED
        BY <2>3, <2>4, <3>4, <3>7, <3>8, <4>1
    <3>9. CASE b.on # None
      <4>1. P + 1 \in Nat /\ P + 1 >= p /\ P + 1 <= k + 1
        BY <1>2, <2>4, <3>2, <3>3
      <4>2. PlaceAt(r, P + 1) = To(b.on)
        <5>1. PlaceAt(r, P + 1) = To(r.transit[P])
          BY <2>4, PlaceAfter
        <5> QED
          BY <3>1, <3>9, <5>1
      <4>3. HeldAllTheWay(t, PlaceAt(r, P + 1), l.limit)
        BY <3>7, <4>1
      <4> QED
        BY <3>4, <3>9, <4>2, <4>3
    <3> QED
      BY <3>8, <3>9
  <2> QED
    BY <2>5, <2>6, <2>7
<1> QED
  BY <1>3, <1>4

(* On a railway whose planner finds ways, whose points decide and whose    *)
(* trains fit its blocks, as long as reports and routes arrive, however    *)
(* late: all that is under a train is held for it, every limit it drives   *)
(* to is reached over blocks that are held for it, and so are the blocks   *)
(* it crossed that the scheduler has yet to hear of.  Grants, positions    *)
(* and confirmations may be lost, and batteries die.                       *)
THEOREM MessagesMayBeLate ==
    InputsCovered /\ PlansAreWays /\ LongTrainsOffJunctions /\ PointsDecide /\ TrainsFitBlocks
        /\ ArrivingSpec
        => []StaysOnItsTrack /\ []LimitIsBacked /\ []UncertainRegionHeld
<1> SUFFICES ASSUME InputsCovered, PlansAreWays, LongTrainsOffJunctions, PointsDecide,
                    TrainsFitBlocks
             PROVE  ArrivingSpec =>
                        []StaysOnItsTrack /\ []LimitIsBacked /\ []UncertainRegionHeld
  OBVIOUS
<1>1. [DeliveryNext]_deliveryVars => [AnyNext]_deliveryVars
  BY DEF AnyNext
<1>2. DeliveryInit => DeliveryTypeOK /\ InOrder
  BY DeliveryStart, OrderOfTheStart
<1>3. ArrivingSpec => Safety
  <2>1. ArrivingSpec => PowerCycleSpec
    BY <1>1, PTL DEF ArrivingSpec, DeliverySpec, PowerCycleSpec, AnyNext
  <2> QED
    BY <2>1, DeliveryIsScheduling, PTL
<1>4. ArrivingSpec => []TypeOK /\ []Exclusive
  BY <1>3, TypeCorrect, Exclusivity, PTL
<1>5. TypeOK /\ TypeOK' /\ DeliveryTypeOK /\ [DeliveryNext]_deliveryVars => DeliveryTypeOK'
  BY <1>1, DeliveryTypes
<1>6. TypeOK /\ TypeOK' /\ DeliveryTypeOK /\ Exclusive /\ InOrder
        /\ [DeliveryNext]_deliveryVars /\ [ReportsAndRoutesArrive]_deliveryVars => InOrder'
  BY OrderGoesOn
<1>7. TypeOK /\ DeliveryTypeOK /\ Exclusive /\ InOrder =>
        StaysOnItsTrack /\ LimitIsBacked /\ UncertainRegionHeld
  BY InLineIsSafe
<1> QED
  BY <1>2, <1>4, <1>5, <1>6, <1>7, PTL DEF ArrivingSpec, DeliverySpec

(* On such a railway, all that is under a train is held for it.            *)
THEOREM TrainsStayOnTheirTrack ==
    InputsCovered /\ PlansAreWays /\ LongTrainsOffJunctions /\ PointsDecide /\ TrainsFitBlocks
        /\ ArrivingSpec => []StaysOnItsTrack
  BY MessagesMayBeLate

(* On such a railway, the points lead every train that drives on to its    *)
(* limit, over blocks that are held for it.                                *)
THEOREM LimitsAreBacked ==
    InputsCovered /\ PlansAreWays /\ LongTrainsOffJunctions /\ PointsDecide /\ TrainsFitBlocks
        /\ ArrivingSpec => []LimitIsBacked
  BY MessagesMayBeLate

(* On such a railway, whatever a train has crossed that the scheduler has  *)
(* yet to hear of is still held for it.                                    *)
THEOREM UncertainRegionsAreHeld ==
    InputsCovered /\ PlansAreWays /\ LongTrainsOffJunctions /\ PointsDecide /\ TrainsFitBlocks
        /\ ArrivingSpec => []UncertainRegionHeld
  BY MessagesMayBeLate
=============================================================================
