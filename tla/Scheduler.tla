----------------------------- MODULE Scheduler -----------------------------
(***************************************************************************)
(* The scheduler as a state machine: one action per event handler and per  *)
(* operator command.                                                       *)
(*                                                                         *)
(* Handlers run to completion on one thread, and several of them end by    *)
(* visiting every train (retryBlockedClearances).  A handler is therefore  *)
(* its own direct effects followed by the tasks it leaves on the agenda,   *)
(* in call order; no event is taken before the agenda is empty again.      *)
(***************************************************************************)
EXTENDS SchedulerState

CONSTANTS
    Schedules,       \* bound: the stop lists an operator may assign
    GateMarkers,     \* bound: the markers each gate device may withhold
    ZoneMarkers,     \* bound: the boundary markers each zone device may report
    Distances,       \* bound: estimated_distance_from_edge_start_mm
    Lengths,         \* bound: the lengths train_length_changed may assert
    InitialPosition  \* junctions' initial_state in the layout document

ASSUME EventAssumption ==
    /\ Schedules \subseteq Seq(Marker) \ {<<>>}
    /\ GateMarkers \in [Device -> SUBSET Marker]
    /\ ZoneMarkers \in [Device -> SUBSET Marker]
    /\ Distances \subseteq Nat
    /\ Lengths \subseteq Nat
    /\ InitialPosition \in [Marker -> Position \cup {None}]

Init ==
    /\ arrival = <<>>
    /\ cleared = [t \in Train |-> {}]
    /\ held = [t \in Train |-> FALSE]
    /\ trains = [t \in Train |-> InitialTrainState]
    /\ known = Declared
    /\ position = InitialPosition
    /\ requested = [m \in Marker |-> None]
    /\ paired = {}
    /\ devices = {}
    /\ withheld = [d \in Device |-> {}]
    /\ full = [d \in Device |-> {}]
    /\ boundary = [m \in Marker |-> None]
    /\ deadlock = {}
    /\ agenda = <<>>

(* Mutant: only trains that hold something are retried.                   *)
RetryHolders == RetryTask({t \in Registered : cleared[t] # {}}, None)

RetryAll == RetryTask(Registered, None)

-----------------------------------------------------------------------------
(* The tasks of a running handler.                                         *)

(* extendClearanceHorizon(t).  How many edges satisfy the horizon depends  *)
(* on the learned traversal times: the floor, the ceiling or in between.   *)
ExtendClearanceHorizon(t) ==
    \E h \in HORIZON_EDGES..HORIZON_MAX_EDGES :
        LET granted == NewlyGranted(t, h)
            thrown  == SwitchesToThrow(t, h)
        IN  /\ cleared' = [cleared EXCEPT ![t] =
                               @ \cup {trains[t].transit[i] : i \in granted}]
            /\ \/ granted = {} /\ UNCHANGED trains
               \/ \E last \in granted :
                    /\ \A i \in granted : i <= last
                    /\ trains' = [trains EXCEPT ![t].limit = To(trains[t].transit[last])]
            /\ requested' = [j \in Marker |->
                                IF \E e \in thrown : From(e) = j
                                THEN Switched[CHOOSE e \in thrown : From(e) = j]
                                ELSE requested[j]]

DoExtend ==
    /\ ~Idle /\ Head(agenda).op = "extend"
    /\ ExtendClearanceHorizon(Head(agenda).train)
    /\ agenda' = Tail(agenda)
    /\ UNCHANGED <<arrival, held, deadlock, trackVars, deviceVars>>

(* One turn of the loop of retryBlockedClearances: the highest-ranked of   *)
(* the trains still to be considered.                                      *)
DoRetry ==
    /\ ~Idle /\ Head(agenda).op = "retry"
    /\ \E t \in Head(agenda).pending :
        /\ \A u \in Head(agenda).pending \ {t} : Outranks(t, u)
        /\ ExtendClearanceHorizon(t)
        /\ agenda' = [agenda EXCEPT ![1].pending = @ \ {t}]
    /\ UNCHANGED <<arrival, held, deadlock, trackVars, deviceVars>>

Resolving == ~Idle /\ Head(agenda).op = "retry" /\ Head(agenda).pending = {}

(* Retry with v skipped, so that it cannot take back what it gave up. *)
RetryWithout(v) == <<RetryTask(Registered \ {v}, v)>> \o Tail(agenda)

(* tryYieldLowestRanked *)
TryYieldLowestRanked ==
    /\ Resolving /\ Head(agenda).train = None
    /\ \E c \in WaitsForCycles : \E v \in Range(c) :
        /\ CanYield(c, v)
        /\ cleared' = [cleared EXCEPT ![v] = @ \ Releasable(v, PeerWantedEdge(c, v))]
        /\ trains' = [trains EXCEPT ![v].limit =
                          IF trains[v].last = None THEN @ ELSE trains[v].last]
        /\ agenda' = RetryWithout(v)
    /\ UNCHANGED <<arrival, held, requested, deadlock, trackVars, deviceVars>>

(* tryReverseToBreakStandoff and enactReverse *)
TryReverseToBreakStandoff ==
    /\ Resolving /\ Head(agenda).train = None
    /\ \E c \in WaitsForCycles : \E v \in Range(c) :
        /\ NobodyYields(c)
        /\ LowestRanked(v, AbleToReverse(c))
        /\ \E p \in Retreats(c, v) :
            LET x == From(p[Len(p)]) IN
            /\ cleared' = [cleared EXCEPT ![v] = @ \ Range(p)]
            /\ trains' = [trains EXCEPT ![v].last = x, ![v].limit = x]
            /\ agenda' = RetryWithout(v)
    /\ UNCHANGED <<arrival, held, requested, deadlock, trackVars, deviceVars>>

(* Mutant: a cycle that nobody could resolve is not reported.             *)
EmitWhenResolved ==
    /\ Resolving
    /\ deadlock' = {}
    /\ \A c \in WaitsForCycles : Unresolvable(c)
    /\ agenda' = Tail(agenda)
    /\ UNCHANGED <<arrival, cleared, held, trains, requested, trackVars, deviceVars>>

(* emitDeadlockState *)
EmitDeadlockState ==
    /\ Resolving
    /\ \/ WaitsForCycles = {} /\ deadlock' = {}
       \/ \E c \in WaitsForCycles :
            /\ Head(agenda).train # None \/ Unresolvable(c)
            /\ deadlock' = Range(c)
    /\ agenda' = Tail(agenda)
    /\ UNCHANGED <<arrival, cleared, held, trains, requested, trackVars, deviceVars>>

(* Mutant: the pointer runs past the last stop.                           *)
AdvancedPastTheEnd(r) == [r EXCEPT !.stop = 1 + @]

(* Mutant: the pointer stays at the last stop.                            *)
AdvancedToTheEnd(r) == [r EXCEPT !.stop = Min({1 + @, Len(r.stops)})]

(* The stop pointer moves on to the next stop, round the schedule. *)
Advanced(r) == [r EXCEPT !.stop = 1 + (@ % Len(r.stops))]

(* planAndExecuteCurrentTransit.  The first disjunct leaves the train      *)
(* without a route: the planner found none, or the target is a zone and    *)
(* the train cannot reverse out of it (ADR-027).                           *)
PlanAndExecuteCurrentTransit(t) ==
    LET r       == trains[t]
        target  == r.stops[r.stop]
        heading == IF r.current # None THEN r.current ELSE r.entry
        route   == Plan(known, r.last, target, heading)
        refused == boundary[target] # None /\ t \notin CanReverse
    IN  \/ /\ r.last # target
           /\ route = <<>> \/ refused
           /\ agenda' = Tail(agenda)
           /\ UNCHANGED trains
        \/ /\ r.last # target
           /\ route # <<>> /\ ~refused
           /\ trains' = [trains EXCEPT ![t].transit = route, ![t].progress = 1,
                                       ![t].limit = From(route[1])]
           /\ agenda' = <<ExtendTask(t), RetryAll>> \o Tail(agenda)
        \/ /\ r.last = target
           /\ Len(r.stops) = 1
           /\ trains' = [trains EXCEPT ![t].transit = <<>>, ![t].progress = 1,
                                       ![t].limit = r.last]
           /\ agenda' = Tail(agenda)
        \/ /\ r.last = target
           /\ Len(r.stops) > 1
           /\ trains' = [trains EXCEPT ![t] = Advanced(r)]
           /\ UNCHANGED agenda

DoPlan ==
    /\ ~Idle /\ Head(agenda).op = "plan"
    /\ PlanAndExecuteCurrentTransit(Head(agenda).train)
    /\ UNCHANGED <<arrival, cleared, held, requested, deadlock, trackVars, deviceVars>>

Step ==
    \/ DoPlan
    \/ DoExtend
    \/ DoRetry
    \/ TryYieldLowestRanked
    \/ TryReverseToBreakStandoff
    \/ EmitDeadlockState

-----------------------------------------------------------------------------
(* Marker reports.  A suspended train's reports are ignored.               *)

Reporting(t, m) ==
    /\ Idle
    /\ t \in Registered
    /\ trains[t].in_zone = None
    /\ \/ trains[t].last \in {None, m}
       \/ <<trains[t].last, m>> \in Reports

(* detectTopologyViolation *)
Contradicts(t, m) ==
    /\ trains[t].last \notin {None, m}
    /\ <<trains[t].last, m>> \notin known
    /\ trains[t].transit # <<>>

(* isZoneEntry: m is a zone boundary and the terminus of the route. *)
EntersZone(t, m) ==
    /\ boundary[m] # None
    /\ InTransit(t)
    /\ To(NextEdge(t)) = m
    /\ trains[t].progress = Len(trains[t].transit)

HandleTopologyViolation(t, m) ==
    /\ Reporting(t, m)
    /\ Contradicts(t, m)
    /\ cleared' = [cleared EXCEPT ![t] = @ \cup {<<trains[t].last, m>>}]
    /\ held' = [held EXCEPT ![t] = TRUE]
    /\ trains' = [trains EXCEPT ![t].limit = trains[t].last]
    /\ UNCHANGED <<arrival, requested, deadlock, agenda, trackVars, deviceVars>>

HandleZoneEntry(t, m) ==
    /\ Reporting(t, m)
    /\ ~Contradicts(t, m)
    /\ EntersZone(t, m)
    /\ trains' = [trains EXCEPT ![t] =
                    [trains[t] EXCEPT !.last = m, !.limit = m, !.in_zone = m,
                                      !.entry = trains[t].current, !.current = None,
                                      !.transit = <<>>, !.progress = 1]]
    /\ cleared' = [cleared EXCEPT ![t] = {}]
    /\ agenda' = <<RetryAll>>
    /\ UNCHANGED <<arrival, held, requested, deadlock, trackVars, deviceVars>>

AtScheduledStop(r, m) == r.stops # <<>> /\ r.stops[r.stop] = m

(* advanceTransitAndReplanIfReached, on the record of the reporting train. *)
AdvanceTransit(r, m) ==
    IF r.progress \in DOMAIN r.transit /\ To(r.transit[r.progress]) = m
    THEN IF r.progress < Len(r.transit)
         THEN [r EXCEPT !.progress = @ + 1, !.current = r.transit[r.progress + 1]]
         ELSE [r EXCEPT !.progress = @ + 1, !.current = None,
                        !.dwelling = @ \/ AtScheduledStop(r, m)]
    ELSE r

(* recordTraversalAndDiscovery: an edge the graph lacks is learned. *)
Traversed(last, m) == IF last \in {None, m} THEN known ELSE known \cup {<<last, m>>}

HandleTrainAtMarker(t, m) ==
    LET r == trains[t] IN
    /\ Reporting(t, m)
    /\ ~Contradicts(t, m)
    /\ ~EntersZone(t, m)
    /\ trains' = [trains EXCEPT ![t] = AdvanceTransit([r EXCEPT !.last = m, !.entry = None], m)]
    /\ cleared' = [cleared EXCEPT ![t] =
                     IF r.length = 0 THEN {e \in @ : To(e) # m} ELSE @]
    /\ known' = Traversed(r.last, m)
    /\ agenda' = <<ExtendTask(t), RetryAll>>
    /\ UNCHANGED <<arrival, held, requested, deadlock, position, paired, deviceVars>>

(* train_status: seeds a missing heading, observes the end of the dwell,   *)
(* or else frees the blocks a long train's tail has left.                  *)
HandleTrainStatus(t, edge, distance, dwellOver) ==
    LET r      == trains[t]
        seeded == IF r.current = None /\ r.entry = None
                  THEN [r EXCEPT !.current = edge] ELSE r
        departs == r.dwelling /\ dwellOver
        releases == IF r.length = 0 \/ edge = None THEN {{}}
                    ELSE CollectTailReleases(t, edge, distance)
    IN  /\ Idle
        /\ t \in Registered
        /\ \/ /\ departs
              /\ trains' = [trains EXCEPT ![t] = Advanced([seeded EXCEPT !.dwelling = FALSE])]
              /\ agenda' = <<PlanTask(t)>>
              /\ UNCHANGED cleared
           \/ /\ ~departs
              /\ trains' = [trains EXCEPT ![t] = seeded]
              /\ \E freed \in releases :
                    /\ cleared' = [cleared EXCEPT ![t] = @ \ freed]
                    /\ agenda' = IF freed = {} THEN agenda ELSE <<RetryAll>>
        /\ UNCHANGED <<arrival, held, requested, deadlock, trackVars, deviceVars>>

(* clearance_request: one tryGrantClearance, and nobody is retried. *)
HandleClearanceRequest(t, e) ==
    /\ Idle
    /\ t \in Registered
    /\ \/ /\ Grantable(t, e)
          /\ cleared' = [cleared EXCEPT ![t] = @ \cup {e}]
          /\ trains' = [trains EXCEPT ![t].limit = To(e)]
          /\ UNCHANGED requested
       \/ /\ MustThrowSwitch(t, e)
          /\ requested' = [requested EXCEPT ![From(e)] = Switched[e]]
          /\ UNCHANGED <<cleared, trains>>
    /\ UNCHANGED <<arrival, held, deadlock, agenda, trackVars, deviceVars>>

-----------------------------------------------------------------------------
(* Switches, gates and zones.                                              *)

(* An unconfirmed switch_state_changed changes nothing. *)
HandleSwitchStateChanged(j, p) ==
    /\ Idle
    /\ position' = [position EXCEPT ![j] = p]
    /\ requested' = [requested EXCEPT ![j] = p]
    /\ agenda' = <<RetryAll>>
    /\ UNCHANGED <<arrival, cleared, held, trains, deadlock, known, paired, deviceVars>>

(* What a gate or a zone device asserts of one marker. *)
Asserted(S, m, denied) == IF denied THEN S \cup {m} ELSE S \ {m}

HandleGateStateChanged(d, m, withholding) ==
    /\ Idle
    /\ d \in devices
    /\ withheld' = [withheld EXCEPT ![d] = Asserted(@, m, withholding)]
    /\ agenda' = <<RetryAll>>
    /\ UNCHANGED <<arrival, cleared, held, trains, requested, deadlock, trackVars,
                   devices, full, boundary>>

(* The boundary is recorded for any sender; its occupancy, and the retry,  *)
(* take a registered one.                                                  *)
HandleZoneStateChanged(d, z, isFull) ==
    /\ Idle
    /\ boundary' = [boundary EXCEPT ![z] = d]
    /\ full' = IF d \notin devices THEN full
               ELSE [full EXCEPT ![d] = Asserted(@, z, isFull)]
    /\ agenda' = IF d \in devices THEN <<RetryAll>> ELSE <<>>
    /\ UNCHANGED <<arrival, cleared, held, trains, requested, deadlock, trackVars,
                   devices, withheld>>

HandleZoneTrainReleased(d, z, t) ==
    LET onward == AtScheduledStop(trains[t], z)
        freed  == [trains[t] EXCEPT !.in_zone = None]
    IN  /\ Idle
        /\ boundary[z] = d
        /\ t \in Registered
        /\ trains[t].in_zone = z
        /\ trains' = [trains EXCEPT ![t] = IF onward THEN Advanced(freed) ELSE freed]
        /\ agenda' = IF onward THEN <<PlanTask(t)>> ELSE <<RetryAll>>
        /\ UNCHANGED <<arrival, cleared, held, requested, deadlock, trackVars, deviceVars>>

(* Any other event of a registered device goes to dispatchToCapabilities,  *)
(* which retries the trains whatever it was.                               *)
OtherEvent ==
    /\ Idle
    /\ arrival # <<>> \/ devices # {}
    /\ agenda' = <<RetryAll>>
    /\ UNCHANGED <<arrival, cleared, held, trains, requested, deadlock, trackVars, deviceVars>>

-----------------------------------------------------------------------------
(* Devices come and go.                                                    *)

RegisterTrain(t) ==
    /\ Idle
    /\ arrival' = IF t \in Registered THEN arrival ELSE Append(arrival, t)
    /\ trains' = [trains EXCEPT ![t].length = IF TrainLength[t] > 0 THEN TrainLength[t] ELSE @]
    /\ UNCHANGED <<cleared, held, requested, deadlock, agenda, trackVars, deviceVars>>

(* A registration starts the capability's state afresh, and retries nobody. *)
RegisterDevice(d) ==
    /\ Idle
    /\ devices' = devices \cup {d}
    /\ withheld' = [withheld EXCEPT ![d] = {}]
    /\ full' = [full EXCEPT ![d] = {}]
    /\ UNCHANGED <<arrival, cleared, held, trains, requested, deadlock, agenda, trackVars,
                   boundary>>

RecordSwitchPairing(j) ==
    /\ Idle
    /\ paired' = paired \cup {j}
    /\ UNCHANGED <<arrival, cleared, held, trains, requested, deadlock, agenda,
                   known, position, deviceVars>>

ForgetTrain(t) ==
    /\ Idle
    /\ t \in Registered
    /\ arrival' = RemoveAt(arrival, RegistrationSeq(t))
    /\ cleared' = [cleared EXCEPT ![t] = {}]
    /\ held' = [held EXCEPT ![t] = FALSE]
    /\ trains' = [trains EXCEPT ![t] = InitialTrainState]
    /\ agenda' = <<RetryTask(Registered \ {t}, None)>>
    /\ UNCHANGED <<requested, deadlock, trackVars, deviceVars>>

(* Its zone boundaries stay on record. *)
ForgetDevice(d) ==
    /\ Idle
    /\ d \in devices
    /\ devices' = devices \ {d}
    /\ withheld' = [withheld EXCEPT ![d] = {}]
    /\ full' = [full EXCEPT ![d] = {}]
    /\ agenda' = <<RetryAll>>
    /\ UNCHANGED <<arrival, cleared, held, trains, requested, deadlock, trackVars, boundary>>

HandleTrainLengthChanged(t, mm) ==
    /\ Idle
    /\ t \in Registered
    /\ trains' = [trains EXCEPT ![t].length = mm]
    /\ UNCHANGED <<arrival, cleared, held, requested, deadlock, agenda, trackVars, deviceVars>>

-----------------------------------------------------------------------------
(* Operator commands.                                                      *)

AssignSchedule(t, stops) ==
    LET start == IF trains[t].last = None THEN stops[1] ELSE trains[t].last IN
    /\ Idle
    /\ t \in Registered
    /\ cleared' = [cleared EXCEPT ![t] = {}]
    /\ held' = [held EXCEPT ![t] = FALSE]
    /\ trains' = [trains EXCEPT ![t] =
                    [@ EXCEPT !.last = start, !.transit = <<>>, !.progress = 1,
                              !.stops = stops,
                              !.stop = IF start = stops[1] /\ Len(stops) > 1 THEN 2 ELSE 1]]
    /\ agenda' = <<PlanTask(t)>>
    /\ UNCHANGED <<arrival, requested, deadlock, trackVars, deviceVars>>

RevokeClearance(t) ==
    /\ Idle
    /\ t \in Registered
    /\ cleared' = [cleared EXCEPT ![t] = {}]
    /\ held' = [held EXCEPT ![t] = FALSE]
    /\ trains' = [trains EXCEPT ![t].limit = IF trains[t].last = None THEN @ ELSE trains[t].last]
    /\ agenda' = <<RetryTask(Registered \ {t}, t)>>
    /\ UNCHANGED <<arrival, requested, deadlock, trackVars, deviceVars>>

(* Mutant: the hold is lifted, the uncertain region kept.                 *)
RecoverKeepingBlocks(t, m) ==
    /\ held' = [held EXCEPT ![t] = FALSE]
    /\ trains' = [trains EXCEPT ![t].last = m, ![t].transit = <<>>, ![t].progress = 1]
    /\ agenda' = <<RetryAll>>
    /\ UNCHANGED <<arrival, cleared, requested, deadlock>>

(* Both recoveries: the train restarts from m with nothing, and replans. *)
RecoverAt(t, m) ==
    /\ cleared' = [cleared EXCEPT ![t] = {}]
    /\ held' = [held EXCEPT ![t] = FALSE]
    /\ trains' = [trains EXCEPT ![t] = [@ EXCEPT !.last = m, !.limit = m,
                                                 !.transit = <<>>, !.progress = 1]]
    /\ agenda' = IF trains[t].stops = <<>> THEN <<RetryAll>> ELSE <<PlanTask(t), RetryAll>>
    /\ UNCHANGED <<arrival, requested, deadlock>>

Reanchor(t, m) ==
    /\ Idle
    /\ held[t]
    /\ RecoverAt(t, m)
    /\ UNCHANGED <<trackVars, deviceVars>>

ConfirmNewTrack(t) ==
    /\ Idle
    /\ held[t]
    /\ \E e \in cleared[t] \ known :
        /\ known' = known \cup {e}
        /\ RecoverAt(t, To(e))
    /\ UNCHANGED <<position, paired, deviceVars>>

(* Scheduler.reset and LayoutState.reset; the pairings go too. *)
Reset ==
    /\ Idle
    /\ arrival' = <<>>
    /\ cleared' = [t \in Train |-> {}]
    /\ held' = [t \in Train |-> FALSE]
    /\ trains' = [t \in Train |-> InitialTrainState]
    /\ known' = Declared
    /\ position' = InitialPosition
    /\ requested' = [m \in Marker |-> None]
    /\ paired' = {}
    /\ devices' = {}
    /\ withheld' = [d \in Device |-> {}]
    /\ full' = [d \in Device |-> {}]
    /\ boundary' = [m \in Marker |-> None]
    /\ deadlock' = {}
    /\ UNCHANGED agenda

-----------------------------------------------------------------------------
(* What may arrive, one event at a time, and in any order.                 *)

MarkerReport(t, m) ==
    \/ HandleTopologyViolation(t, m)
    \/ HandleZoneEntry(t, m)
    \/ HandleTrainAtMarker(t, m)

TrainEvent(t) ==
    \/ RegisterTrain(t)
    \/ ForgetTrain(t)
    \/ \E m \in Marker : MarkerReport(t, m)
    \/ \E e \in Block \cup {None}, mm \in Distances, dwellOver \in BOOLEAN :
           HandleTrainStatus(t, e, mm, dwellOver)
    \/ \E e \in Requests : HandleClearanceRequest(t, e)
    \/ \E mm \in Lengths : HandleTrainLengthChanged(t, mm)

SwitchEvent(j) ==
    \/ RecordSwitchPairing(j)
    \/ \E p \in Position : HandleSwitchStateChanged(j, p)

DeviceEvent(d) ==
    \/ RegisterDevice(d)
    \/ ForgetDevice(d)
    \/ \E m \in GateMarkers[d], withholding \in BOOLEAN :
           HandleGateStateChanged(d, m, withholding)
    \/ \E z \in ZoneMarkers[d] :
           \/ \E isFull \in BOOLEAN : HandleZoneStateChanged(d, z, isFull)
           \/ \E t \in Train : HandleZoneTrainReleased(d, z, t)

OperatorCommand(t) ==
    \/ \E stops \in Schedules : AssignSchedule(t, stops)
    \/ RevokeClearance(t)
    \/ \E m \in Marker : Reanchor(t, m)
    \/ ConfirmNewTrack(t)

Next ==
    \/ Step
    \/ \E t \in Train : TrainEvent(t) \/ OperatorCommand(t)
    \/ \E j \in Junction : SwitchEvent(j)
    \/ \E d \in Device : DeviceEvent(d)
    \/ OtherEvent
    \/ Reset

Safety == Init /\ [][Next]_vars

(* A handler is a synchronous call: once begun, it runs. *)
Spec == Safety /\ WF_vars(Step)

-----------------------------------------------------------------------------
(* The trains' records are coherent: a train with a schedule has a place   *)
(* to plan from and a stop to head for, and only such a train dwells.      *)
Coherent(r) ==
    /\ r.stops # <<>> => r.stop \in DOMAIN r.stops /\ r.last # None
    /\ r.dwelling => r.stops # <<>>

TrainsOK ==
    /\ arrival \in Seq(Train) /\ IsInjective(arrival)
    /\ cleared \in [Train -> SUBSET Block]
    /\ held \in [Train -> BOOLEAN]
    /\ trains \in [Train -> TrainState]
    /\ \A t \in Train : Coherent(trains[t])

(* The graph never loses declared track. *)
TrackOK ==
    /\ Declared \subseteq known /\ known \subseteq Block
    /\ position \in [Marker -> Position \cup {None}]
    /\ requested \in [Marker -> Position \cup {None}]
    /\ paired \subseteq Junction

DevicesOK ==
    /\ devices \subseteq Device
    /\ withheld \in [Device -> SUBSET Marker]
    /\ full \in [Device -> SUBSET Marker]
    /\ boundary \in [Marker -> Device \cup {None}]

(* Only a train with a schedule is ever planned. *)
AgendaOK ==
    /\ deadlock \subseteq Train
    /\ agenda \in Seq(Task)
    /\ \A i \in DOMAIN agenda : agenda[i].op = "plan" => trains[agenda[i].train].stops # <<>>

(* Every variable has its type, whatever devices report, in any order, and *)
(* whatever operators ask for: no handler leaves a pointer into a list it  *)
(* has shortened, or a task for a train that cannot be planned.            *)
TypeOK == TrainsOK /\ TrackOK /\ DevicesOK /\ AgendaOK

(* What the scheduler promises about who holds which block. *)
Promise == INSTANCE Clearance WITH cleared <- cleared, held <- held

(* Block exclusivity (ADR-002, ADR-011): the blocks of two trains share no *)
(* marker, unless one of the two is held because its position is in doubt. *)
(* Grants, yields, reverses, recoveries and retries all have to keep it.   *)
Exclusive == Promise!Exclusive

(* Every step of every handler is one that Clearance allows: blocks are    *)
(* claimed only while free of all other trains, and a hold is lifted only  *)
(* together with all that the train holds.                                 *)
ImplementsClearance == Promise!Spec

(* No lost wakeup (retryBlockedClearances): when a pass has considered     *)
(* every train, none is left waiting for an edge it could have had.  The   *)
(* pass considers each train once, so a grant to one must never make       *)
(* another's edge available after its turn.                                *)
PassLeavesNobodyBehind ==
    Resolving /\ Head(agenda).train = None =>
        \A t \in CollectWaitingTrains : ~Grantable(t, NextEdge(t))

(* The deadlock banner tells the truth (emitDeadlockState): when no        *)
(* handler is running, it is up if trains wait for each other in a circle, *)
(* and down if none do.  What changes who waits for whom must end in a     *)
(* pass; marker reports that contradict the graph are the exception.       *)
DeadlockReported ==
    Idle => (deadlock # {} <=> WaitsForCycles # {})

(* Stop-on-gap (extendClearanceHorizon): a train is granted an edge of its *)
(* route only if it then holds every edge of the route before it.          *)
NoGrantAcrossGap ==
    [][~Idle => \A t \in Train : \A e \in cleared'[t] \ cleared[t] :
          \E i \in DOMAIN trains[t].transit :
              /\ trains[t].transit[i] = e
              /\ \A k \in trains[t].progress..i : trains[t].transit[k] \in cleared'[t]]_vars

(* Points are thrown for one train only (tryGrantClearance's order of      *)
(* checks): a new position is asked for only when some train's route needs *)
(* it there and no other train holds a block touching the junction.        *)
Needs(t, j, p) ==
    \E i \in DOMAIN trains[t].transit :
        LET e == trains[t].transit[i] IN
        i >= trains[t].progress /\ From(e) = j /\ e \in DOMAIN Switched /\ Switched[e] = p

SwitchNotThrownUnderPeer ==
    [][~Idle => \A j \in Junction : requested'[j] # requested[j] =>
          \E t \in Train :
              /\ Needs(t, j, requested'[j])
              /\ \A u \in Train \ {t} : ~Touches(cleared[u], j)]_vars

(* Deadlock resolution never takes the ground from under a train           *)
(* (tryYieldLowestRanked, tryReverseToBreakStandoff): a block that a train *)
(* loses while a pass resolves a cycle either lies clear of its head, or   *)
(* the head was first moved back out of it; and the train in whose favour  *)
(* it happened is no longer denied by the victim.                          *)
ResolutionVacates ==
    [][Resolving => \A v \in Train : cleared'[v] # cleared[v] =>
          /\ \A e \in cleared[v] \ cleared'[v] : To(e) # trains'[v].last
          /\ \E u \in CollectWaitingTrains :
                /\ AnyEdgeSharesMarker(cleared[v], NextEdge(u))
                /\ ~AnyEdgeSharesMarker(cleared'[v], NextEdge(u))]_vars

(* A suspected position stays guarded (ADR-019): while a train is held, it *)
(* loses no block, except to its own tail leaving it, its own reports, or  *)
(* an operator; no peer's need and no deadlock ever takes one.             *)
HeldKeepsItsGround ==
    [][\A t \in Train : held[t] /\ ~Idle => cleared[t] \subseteq cleared'[t]]_vars

(* A denial binds (anyCapabilityDeniesClearance): while a registered gate  *)
(* withholds a marker, or a registered zone is full, no train is granted   *)
(* an edge that ends there, whatever event brings the occasion.            *)
NoGrantAgainstDenial ==
    [][\A t \in Train : \A e \in cleared'[t] \ cleared[t] :
          AnyCapabilityDeniesClearance(e) => held'[t]]_vars

(* Every handler ends: the scheduler always comes back to take an event.   *)
HandlersTerminate == []<>Idle

=============================================================================
