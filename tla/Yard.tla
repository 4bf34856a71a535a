-------------------------------- MODULE Yard --------------------------------
(***************************************************************************)
(* A drive-through railyard behind its throat marker: the zone device that *)
(* admits trains and serves them one at a time (YardZoneDevice), the       *)
(* controller that shunts one (YardController), the part of the scheduler  *)
(* that clears trains to the throat, suspends them there and takes them    *)
(* back (ADR-026, ADR-027), and the trains and carriages themselves.       *)
(*                                                                         *)
(* Every train has the yard for a stop.  A road of the yard is one place;  *)
(* the throat is west of the roads, the lead east of them.  What the       *)
(* scheduler knows of lengths is not part of this module.                  *)
(*                                                                         *)
(* The yard and the trains that call at it are driven by one program over  *)
(* one connection to the broker (createMqttPlatform, physics-env), so what *)
(* they publish comes to the server in order: one queue.                   *)
(***************************************************************************)
EXTENDS Integers, FiniteSets, Sequences, SequencesExt, FiniteSetsExt

CONSTANTS
    Train,
    Road,         \* the yard's slots, in the order the layout lists them
    Capacity,     \* how many trains the device says it has room for
    Cars,         \* how many carriages each train has at first
    Spare,        \* how many the operator stables in the yard
    MaxRebuilds,  \* bound: how often the track is edited and its devices made anew
    None

Slot == Range(Road)

Phases == {"rest", "decouple", "pull-clear", "to-spares", "settle", "exit"}

(* A service under way: how far the controller is, the road that its train *)
(* pulls into, and how many carriages the train is to keep, once known.    *)
Service == [phase : Phases, entry : Slot, cut : Nat \cup {None}]

ASSUME YardAssumption ==
    /\ IsFiniteSet(Train)
    /\ Road \in Seq(STRING \ {"thru", "throat", "lead", "line"}) /\ IsInjective(Road)
    /\ Len(Road) > 1
    /\ Capacity \in Nat \ {0}
    /\ Cars \in [Train -> Nat \ {0}]
    /\ Spare \in Nat \ {0}
    /\ MaxRebuilds \in Nat
    /\ None \notin Train \cup STRING \cup Nat \cup Service

ShedCars == 2

VARIABLES
    status,      \* what the scheduler has each train down for
    asserted,    \* the occupancy it last heard of
    toCore,      \* events on their way to it
    residents,   \* the trains the device has admitted, the one it serves first
    service,     \* how far it is with it, if it has begun
    sparesSlot,  \* the road it takes the spares to stand in
    entryHint,   \* where it looks next for an empty road
    west, east,  \* the points at either end of the roads
    place,       \* where each train is
    motor,
    rake,        \* how many carriages are coupled to it
    stock,       \* how many stand loose in each road
    rebuilds,
    misled       \* history: whether the camera over the lead was asked for the train pulled
                 \* clear while another one stood there

coreVars == <<status, asserted>>
deviceVars == <<residents, service, sparesSlot, entryHint>>
trackVars == <<place, rake, stock>>
vars == <<coreVars, toCore, deviceVars, west, east, trackVars, motor, rebuilds, misled>>

Init ==
    /\ status = [t \in Train |-> "away"]
    /\ asserted = 0
    /\ toCore = <<>>
    /\ residents = <<>>
    /\ service = None
    /\ sparesSlot = None
    /\ entryHint = 1
    /\ west = "thru" /\ east = "thru"
    /\ place = [t \in Train |-> "line"]
    /\ motor = [t \in Train |-> "stopped"]
    /\ rake = Cars
    /\ stock = [s \in Slot |-> 0]
    /\ rebuilds = 0
    /\ misled = FALSE

TagObserved(t) == [event |-> "tag_observed", train |-> t, occupancy |-> 0]
ZoneState(n)   == [event |-> "zone_state_changed", train |-> None, occupancy |-> n]
Released(t)    == [event |-> "zone_train_released", train |-> t, occupancy |-> 0]

(* Bound: once the camera over the lead was misled, only what is under way *)
(* in the yard goes on: nobody stables, builds, comes or goes any more.    *)
Tended == ~misled

-----------------------------------------------------------------------------
(* The scheduler.  A train "waiting" wants to be cleared to the throat,    *)
(* one "released" to be cleared past it; "cleared" and "leaving" trains    *)
(* hold the blocks on either side, which share the throat's marker.        *)

ThroatIsHeld(st) == \E t \in Train : st[t] \in {"cleared", "leaving"}

MayEnter(st, n) == {t \in Train : st[t] = "waiting" /\ n < Capacity}
MayLeave(st)    == {t \in Train : st[t] = "released"}

Cleared(st, t) == [st EXCEPT ![t] = IF @ = "waiting" THEN "cleared" ELSE "leaving"]

(* retryBlockedClearances, from statuses st and occupancy n: whoever ranks *)
(* first gets the throat; a released train may have to wait for the line   *)
(* ahead of it.                                                            *)
Retried(st, n) ==
    IF ThroatIsHeld(st) THEN {st}
    ELSE {Cleared(st, t) : t \in MayEnter(st, n) \cup MayLeave(st)}
         \cup IF MayEnter(st, n) = {} THEN {st} ELSE {}

(* The route of a train gets it near the throat. *)
Approach(t) ==
    /\ Tended
    /\ status[t] = "away"
    /\ status' \in Retried([status EXCEPT ![t] = "waiting"], asserted)
    /\ UNCHANGED <<asserted, toCore, deviceVars, west, east, trackVars, motor, rebuilds, misled>>

(* An event elsewhere: the line ahead of a released train is clear.        *)
Onward(t) ==
    /\ Tended
    /\ t \in MayLeave(status) /\ ~ThroatIsHeld(status)
    /\ status' = Cleared(status, t)
    /\ UNCHANGED <<asserted, toCore, deviceVars, west, east, trackVars, motor, rebuilds, misled>>

(* handleZoneEntry for a train cleared to the throat; a train that leaves  *)
(* is past it.                                                             *)
AtMarker(t) ==
    status' \in Retried([status EXCEPT ![t] = IF @ = "cleared" THEN "inside" ELSE "away"], asserted)

(* handleZoneTrainReleased, of a train on its timetable: a train that is   *)
(* not suspended is none of the zone's business.                           *)
ZoneTrainReleased(t) ==
    IF status[t] = "inside" THEN status' \in Retried([status EXCEPT ![t] = "released"], asserted)
    ELSE UNCHANGED status

Receive ==
    /\ toCore # <<>>
    /\ toCore' = Tail(toCore)
    /\ LET e == Head(toCore) IN
        \/ /\ e.event = "tag_observed"
           /\ AtMarker(e.train)
           /\ UNCHANGED asserted
        \/ /\ e.event = "zone_state_changed"
           /\ asserted' = e.occupancy
           /\ status' \in Retried(status, e.occupancy)
        \/ /\ e.event = "zone_train_released"
           /\ ZoneTrainReleased(e.train)
           /\ UNCHANGED asserted
    /\ UNCHANGED <<deviceVars, west, east, trackVars, motor, rebuilds, misled>>

-----------------------------------------------------------------------------
(* The zone device.                                                        *)

(* The throat camera sees a loco that stands there. *)
Sighted == {t \in Train : place[t] = "throat" /\ motor[t] = "stopped"}

(* senseArrivals: the residents after it; a train is admitted once.        *)
Sensed ==
    LET fresh == IF Len(residents) < Capacity THEN Sighted \ Range(residents) ELSE {}
    IN  IF fresh = {} THEN residents ELSE Append(residents, CHOOSE t \in fresh : TRUE)

(* announce, if a train was admitted *)
Admitted(now) == IF now = residents THEN <<>> ELSE <<ZoneState(Len(now))>>

(* searchForStock: the first road with something standing in it.           *)
Occupied(s) == stock[s] > 0 \/ \E t \in Train : place[t] = s
SearchForStock ==
    LET found == {i \in DOMAIN Road : Occupied(Road[i])}
    IN  IF found = {} THEN None ELSE Road[Min(found)]

(* Mutant: nothing is looked for.                                          *)
SparesUnsought == sparesSlot

(* The road of the spares, looked for until it is known.                   *)
Spares == IF sparesSlot = None THEN SearchForStock ELSE sparesSlot

(* Mutant: an empty road is looked for regardless of the spares.           *)
PickAnySlot(spares) == entryHint

(* pickFreeSlot, as an index: round robin from the hint, past the spares.  *)
PickFreeSlot(spares) ==
    LET index(i) == 1 + ((entryHint - 1 + i) % Len(Road))
        free == {i \in 0..Len(Road) - 1 : Road[index(i)] # spares}
    IN  index(Min(free))

(* Mutant: the cursor runs past the last road.                             *)
CursorRunsOn(pick) == pick + 1

(* The round-robin cursor after a road is picked. *)
Cursor(pick) == 1 + (pick % Len(Road))

(* The controller's first tick, with what binds it to the train: route-in. *)
RouteIn(t) ==
    /\ service = None
    /\ Spares # None
    /\ LET pick == PickFreeSlot(Spares) IN
        /\ service' = [phase |-> "rest", entry |-> Road[pick], cut |-> None]
        /\ entryHint' = Cursor(pick)
        /\ west' = Road[pick]
    /\ sparesSlot' = Spares
    /\ east' = "thru"
    /\ motor' = [motor EXCEPT ![t] = "forward"]
    /\ UNCHANGED <<stock, rake>>

(* Without stock to swap with, the gantry stalls. *)
Stall ==
    /\ service = None
    /\ Spares = None
    /\ UNCHANGED <<service, sparesSlot, entryHint, west, east, motor, stock, rake>>

Phase(p) == service # None /\ service.phase = p

(* The controller goes on to phase p with its train's motor at m; its      *)
(* points may move, the carriages stay.                                    *)
To(p, t, m) ==
    /\ service' = [service EXCEPT !.phase = p]
    /\ motor' = [motor EXCEPT ![t] = m]
    /\ UNCHANGED <<sparesSlot, entryHint, west, stock, rake>>

(* rest: until the camera sees the loco at the end of the road.            *)
Rest(t) ==
    /\ Phase("rest")
    /\ IF Occupied(service.entry) THEN To("decouple", t, "stopped") ELSE To("rest", t, "forward")
    /\ UNCHANGED east

(* decouple: the rake has come to a stand and is scanned for the cut; *)
FindCut(t) ==
    /\ Phase("decouple") /\ service.cut = None
    /\ service' = [service EXCEPT !.cut = Max({0, rake[t] - ShedCars})]
    /\ UNCHANGED <<sparesSlot, entryHint, west, east, motor, stock, rake>>

(* then the crane has got there, and the wedge comes down.                 *)
Wedge(t) ==
    /\ Phase("decouple") /\ service.cut # None
    /\ stock' = [stock EXCEPT ![service.entry] = @ + rake[t] - service.cut]
    /\ rake' = [rake EXCEPT ![t] = service.cut]
    /\ service' = [service EXCEPT !.phase = "pull-clear"]
    /\ UNCHANGED <<sparesSlot, entryHint, west, east, motor>>

(* Mutant: the train is stopped without a look at the lead.                *)
LeadUnseen == TRUE

(* The camera over the lead sees whoever is there. *)
LeadSeen == \E t \in Train : place[t] = "lead"

(* pull-clear: out of the road until something is seen on the lead.        *)
PullClear(t) ==
    /\ Phase("pull-clear")
    /\ east' = service.entry
    /\ IF motor[t] = "forward" /\ LeadSeen
       THEN To("to-spares", t, "stopped") ELSE To("pull-clear", t, "forward")

(* to-spares: back onto them, until the camera sees the rake there.        *)
ToSpares(t) ==
    /\ Phase("to-spares")
    /\ east' = sparesSlot
    /\ IF motor[t] = "reverse" /\ place[t] = sparesSlot
       THEN To("settle", t, "stopped") ELSE To("to-spares", t, "reverse")

(* settle: a nudge forward, for a while.                                   *)
Settle(t) ==
    /\ Phase("settle")
    /\ IF motor[t] = "forward" THEN To("exit", t, "forward") ELSE To("settle", t, "forward")
    /\ UNCHANGED east

(* exit: until something is seen at the far end of the lead; *)
Exit(t) ==
    /\ Phase("exit") /\ ~LeadSeen
    /\ To("exit", t, "forward")
    /\ east' = sparesSlot

(* Mutant: the spares are taken to stand where they stood.                 *)
RotatedNot(entry) == sparesSlot

(* What the train shed is the next one's spares. *)
Rotated(entry) == entry

(* then the train is the scheduler's again (release).                      *)
Release(t) ==
    /\ Phase("exit") /\ LeadSeen
    /\ motor' = [motor EXCEPT ![t] = "stopped"]
    /\ service' = None
    /\ sparesSlot' = Rotated(service.entry)
    /\ west' = "thru" /\ east' = "thru"
    /\ UNCHANGED <<entryHint, stock, rake>>

(* What a tick does for the resident at the head: serviceResidents.        *)
Serve(t) ==
    \/ RouteIn(t) \/ Stall \/ Rest(t) \/ FindCut(t) \/ Wedge(t) \/ PullClear(t)
    \/ ToSpares(t) \/ Settle(t) \/ Exit(t)

(* Mutant: the trains are served last come first served.                   *)
ServedLast(now) == Last(now)

(* The one mover inside (ADR-026): the first resident.                     *)
Active(now) == Head(now)

(* What the camera over the lead sees may be another train. *)
Mistakable(t) ==
    /\ Phase("pull-clear") /\ motor[t] = "forward"
    /\ \E u \in Train \ {t} : place[u] = "lead"

(* One tick: an arrival is sensed, the first resident served; a train that *)
(* is done is released, and the occupancy is announced.                    *)
Step ==
    /\ Sensed # <<>>
    /\ LET now == Sensed
           t == Active(now)
       IN  /\ misled' = (misled \/ Mistakable(t))
           /\ \/ /\ Serve(t)
                 /\ residents' = now
                 /\ toCore' = toCore \o Admitted(now)
              \/ /\ Release(t)
                 /\ residents' = RemoveAt(now, CHOOSE i \in DOMAIN now : now[i] = t)
                 /\ toCore' = toCore \o Admitted(now) \o <<Released(t), ZoneState(Len(now) - 1)>>
    /\ UNCHANGED <<coreVars, place, rebuilds>>

(* The track is edited while nobody is being served: the device is made    *)
(* anew and registers, the trains stay where they are.                     *)
Rebuild ==
    /\ Tended /\ rebuilds < MaxRebuilds
    /\ rebuilds' = rebuilds + 1
    /\ service = None
    /\ residents' = <<>>
    /\ sparesSlot' = None
    /\ entryHint' = 1
    /\ west' = "thru" /\ east' = "thru"
    /\ toCore' = Append(toCore, ZoneState(0))
    /\ UNCHANGED <<coreVars, service, trackVars, motor, misled>>

-----------------------------------------------------------------------------
(* The trains.                                                             *)

(* Where a train gets to from place p of the yard.                         *)
Ahead(p) ==
    IF p = "throat" THEN IF west = "thru" THEN "lead" ELSE west
    ELSE IF east = p THEN "lead" ELSE p
Behind(p) ==
    IF p = "lead" THEN IF east = "thru" THEN "throat" ELSE east
    ELSE IF west = p THEN "throat" ELSE p

(* A train that the yard drives runs on; what stands loose where it backs  *)
(* onto is coupled.                                                        *)
Roll(t) ==
    LET p == place[t]
        q == IF motor[t] = "forward" THEN Ahead(p) ELSE Behind(p)
        picked == IF motor[t] = "reverse" /\ q \in Slot THEN stock[q] ELSE 0
    IN  /\ motor[t] # "stopped"
        /\ ~(motor[t] = "forward" /\ p = "lead")
        /\ q # p
        /\ place' = [place EXCEPT ![t] = q]
        /\ rake' = [rake EXCEPT ![t] = @ + picked]
        /\ stock' = IF picked > 0 THEN [stock EXCEPT ![q] = 0] ELSE stock
        /\ UNCHANGED <<coreVars, toCore, deviceVars, west, east, motor, rebuilds, misled>>

(* A train cleared to the throat comes to it and stops; it would run into  *)
(* one that stood there.                                                   *)
Arrive(t) ==
    /\ Tended
    /\ status[t] = "cleared" /\ place[t] = "line"
    /\ \A u \in Train : place[u] # "throat"
    /\ place' = [place EXCEPT ![t] = "throat"]
    /\ toCore' = Append(toCore, TagObserved(t))
    /\ UNCHANGED <<coreVars, deviceVars, west, east, motor, rake, stock, rebuilds, misled>>

(* One cleared past it draws off the lead to the next marker.              *)
Depart(t) ==
    /\ Tended
    /\ status[t] = "leaving" /\ place[t] = "lead"
    /\ place' = [place EXCEPT ![t] = "line"]
    /\ toCore' = Append(toCore, TagObserved(t))
    /\ UNCHANGED <<coreVars, deviceVars, west, east, motor, rake, stock, rebuilds, misled>>

(* The operator stables carriages in some road of a bare yard.             *)
Stable(s) ==
    /\ Tended
    /\ service = None
    /\ \A r \in Slot : stock[r] = 0
    /\ stock' = [stock EXCEPT ![s] = Spare]
    /\ UNCHANGED <<coreVars, toCore, deviceVars, west, east, place, motor, rake, rebuilds, misled>>

Next ==
    \/ Receive \/ Step \/ Rebuild
    \/ \E t \in Train : Approach(t) \/ Onward(t) \/ Roll(t) \/ Arrive(t) \/ Depart(t)
    \/ \E s \in Slot : Stable(s)

Spec == Init /\ [][Next]_vars

(* Messages arrive, devices tick, trains that are driven get somewhere,    *)
(* the line ahead of the yard is clear at times, and the operator does     *)
(* stable something.                                                       *)
FairSpec ==
    /\ Spec
    /\ WF_vars(Receive) /\ WF_vars(Step) /\ WF_vars(\E s \in Slot : Stable(s))
    /\ \A t \in Train : WF_vars(Onward(t)) /\ WF_vars(Roll(t)) /\ WF_vars(Arrive(t)) /\ WF_vars(Depart(t))
-----------------------------------------------------------------------------
TypeOK ==
    /\ status \in [Train -> {"away", "waiting", "cleared", "inside", "released", "leaving"}]
    /\ asserted \in 0..Capacity
    /\ residents \in Seq(Train) /\ IsInjective(residents) /\ Len(residents) <= Capacity
    /\ service \in Service \cup {None}
    /\ sparesSlot \in Slot \cup {None} /\ (service # None => sparesSlot \in Slot)
    /\ entryHint \in DOMAIN Road
    /\ {west, east} \subseteq Slot \cup {"thru"}
    /\ place \in [Train -> Slot \cup {"line", "throat", "lead"}]
    /\ motor \in [Train -> {"stopped", "forward", "reverse"}]
    /\ rake \in [Train -> Nat] /\ stock \in [Slot -> Nat]
    /\ misled \in BOOLEAN

(* The device knows its yard (YardZoneDevice, "Rotate the spares"): while  *)
(* nobody is served, loose carriages stand in one road at most, and if the *)
(* device remembers a road it is that one, and they are still there;       *)
(* unless the camera over the lead was misled.                             *)
SparesStandWhereRemembered ==
    service = None /\ ~misled =>
        /\ \A r, s \in Slot : stock[r] > 0 /\ stock[s] > 0 => r = s
        /\ sparesSlot # None => stock[sparesSlot] > 0

(* A visitor is routed into an empty road: nothing stands where it pulls   *)
(* in, neither carriages nor a train, unless the camera was misled.        *)
EntersEmptyRoad ==
    [][~misled => \A t \in Train :
          place[t] = "throat" /\ place'[t] \in Slot => ~Occupied(place'[t])]_vars

(* The device never drives a train across the throat (yard-zone-device.ts) *)
(* and never one that the scheduler may move too: only the first resident  *)
(* runs inside, and it is suspended or about to be.                        *)
OneMover ==
    \A t \in Train : motor[t] # "stopped" =>
        /\ residents # <<>> /\ t = Head(residents)
        /\ \/ status[t] = "inside"
           \/ status[t] = "cleared" /\ TagObserved(t) \in Range(toCore)

(* Shunting stays behind the throat (yard-zone-device.ts, "it never drives *)
(* a train across the throat"): no train comes back to it out of the yard. *)
StaysBehindThroat ==
    [][\A t \in Train : place[t] \in Slot \cup {"lead"} => place'[t] # "throat"]_vars

(* There is one way only in which that fails: the camera over the lead was *)
(* asked for the train pulled clear while another one stood there.         *)
OnlyMisledCrossesThroat ==
    [][\A t \in Train : place[t] \in Slot \cup {"lead"} /\ place'[t] = "throat" => misled]_vars

(* Whoever is suspended at the throat is taken in, served and given back   *)
(* to the scheduler (ADR-027), while others come and edits make the device *)
(* anew, unless the camera is misled.                                      *)
EveryVisitorIsReleased ==
    \A t \in Train : status[t] = "inside" ~> status[t] # "inside" \/ misled
=============================================================================
