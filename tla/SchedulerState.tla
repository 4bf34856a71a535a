--------------------------- MODULE SchedulerState ---------------------------
(***************************************************************************)
(* The state of the scheduler and the questions it asks of that state.     *)
(* Scheduler adds the event handlers.                                      *)
(*                                                                         *)
(* The parts of TrainState that decide who may be where, cleared_edges and *)
(* block_reason, are the variables cleared and held; everything else a     *)
(* train's record carries is in trains[t].  LayoutState contributes known  *)
(* (the edges of the graph) and position (confirmed switch positions).     *)
(***************************************************************************)
EXTENDS Track, Integers, FiniteSets, SequencesExt

CONSTANTS
    Train,                  \* devices declaring core.controls_motion
    Device,                 \* gate and zone devices (core.gates_clearance, core.gates_zone)
    None,                   \* "undefined"
    Declared,               \* the edges of the declared layout
    Switched,               \* requires_switch_state of the switched edges
    EdgeLength,             \* estimated_length_mm, None when unknown
    Priority,               \* announced priority of each train
    TrainLength,            \* announced length of each train, 0 for a point train
    CanReverse,             \* trains that declared core.can_reverse
    Reports,                \* bound: consecutive markers a train's reader can report
    Requests,               \* bound: edges a clearance_request may name
    HORIZON_EDGES,          \* CLEARANCE_HORIZON_EDGES, the floor of the look-ahead
    HORIZON_MAX_EDGES,      \* CLEARANCE_HORIZON_MAX_EDGES, its ceiling
    Plan(_, _, _, _)        \* planTransit(edges, from, to, heading); <<>> when unreachable

Block == Declared \cup Reports \cup Requests
Position == Range(Switched)
Junction == {From(e) : e \in DOMAIN Switched}

ASSUME LayoutAssumption ==
    /\ None \notin Marker /\ None \notin EdgeRef
    /\ None \notin Train /\ None \notin Device
    /\ Block \subseteq EdgeRef
    /\ DOMAIN Switched \subseteq Declared
    /\ None \notin Position
    /\ EdgeLength \in [EdgeRef -> Nat \cup {None}]
    /\ \A e \in EdgeRef \ Declared : EdgeLength[e] = None

ASSUME TrainAssumption ==
    /\ IsFiniteSet(Train)
    /\ Priority \in [Train -> Int]
    /\ TrainLength \in [Train -> Nat]
    /\ CanReverse \subseteq Train

ASSUME HorizonAssumption ==
    /\ HORIZON_EDGES \in Nat \ {0}
    /\ HORIZON_MAX_EDGES \in Nat
    /\ HORIZON_EDGES <= HORIZON_MAX_EDGES

(* A planned route uses only edges of the graph it was planned on, and the *)
(* edge the train reports to be on, which the graph need not have.         *)
ASSUME PlanAssumption ==
    \A learned \in SUBSET (Block \ Declared) :
        \A from, to \in Marker : \A heading \in Block \cup {None} :
            Plan(Declared \cup learned, from, to, heading) \in
                Seq(Declared \cup learned \cup ({heading} \ {None}))

VARIABLES
    arrival,      \* registered trains, in registration_seq order
    cleared,      \* cleared_edges of each train
    held,         \* block_reason = 'unknown_topology'
    trains,       \* the rest of each train's TrainState
    known,        \* edges of the layout graph, declared and learned
    position,     \* confirmed position of each junction's switch
    requested,    \* requestedSwitchPositions
    paired,       \* junctions with a switch device on record
    devices,      \* registered gate and zone devices
    withheld,     \* markers each gate withholds
    full,         \* zones each zone device last reported full
    boundary,     \* zoneBoundaries: marker -> owning device
    deadlock,     \* currentDeadlock
    agenda        \* what is left of the handler that is running

trackVars == <<known, position, paired>>
deviceVars == <<devices, withheld, full, boundary>>
vars == <<arrival, cleared, held, trains, requested, deadlock, agenda,
          known, position, paired, devices, withheld, full, boundary>>

-----------------------------------------------------------------------------
(* One train's record, and the work a handler may still have to do.        *)

TrainState ==
    [last     : Marker \cup {None},      \* last_marker_id
     limit    : Marker \cup {None},      \* clearance_limit_marker_id
     current  : Block \cup {None},       \* current_edge
     entry    : Block \cup {None},       \* zone_entry_edge
     transit  : Seq(Block),              \* transit.edges, <<>> for no transit
     progress : Nat \ {0},               \* transit.progress_index, counted from 1
     stops    : Seq(Marker),             \* schedule.stops, <<>> for no schedule
     stop     : Nat \ {0},               \* current_stop_index, counted from 1
     dwelling : BOOLEAN,                 \* dwell_until is defined
     in_zone  : Marker \cup {None},
     length   : Nat]                     \* length_mm, 0 for a point train

InitialTrainState ==
    [last |-> None, limit |-> None, current |-> None, entry |-> None,
     transit |-> <<>>, progress |-> 1, stops |-> <<>>, stop |-> 1,
     dwelling |-> FALSE, in_zone |-> None, length |-> 0]

(* plan: planAndExecuteCurrentTransit(train).  extend: the train's own     *)
(* extendClearanceHorizon.  retry: retryBlockedClearances with the trains  *)
(* still to be considered and the train it must skip; an empty pending set *)
(* leaves resolveDeadlockOrEmitState.                                      *)
Task ==
    [op : {"plan", "extend"}, train : Train, pending : {{}}]
    \cup [op : {"retry"}, train : Train \cup {None}, pending : SUBSET Train]

PlanTask(t)   == [op |-> "plan", train |-> t, pending |-> {}]
ExtendTask(t) == [op |-> "extend", train |-> t, pending |-> {}]
RetryTask(pending, skip) == [op |-> "retry", train |-> skip, pending |-> pending]

Idle == agenda = <<>>
Registered == Range(arrival)

-----------------------------------------------------------------------------
(* Clearance.                                                              *)

(* Mutant: only the same edge is in conflict.                             *)
ConflictsOnTheEdgeOnly(t, e) == \E u \in Train \ {t} : e \in cleared[u]

EdgeConflictsWithAnotherTrain(t, e) ==
    \E u \in Train \ {t} : AnyEdgeSharesMarker(cleared[u], e)

(* Mutant: the position asked for is taken for the position reached.      *)
RequestedIsMismatched(e) == e \in DOMAIN Switched /\ requested[From(e)] # Switched[e]

EdgeRequiresMismatchedSwitch(e) ==
    e \in DOMAIN Switched /\ position[From(e)] # Switched[e]

(* What a gate withholds, and the zones a zone device has no room in. *)
Denied(d) == withheld[d] \cup full[d]

AnyCapabilityDeniesClearance(e) == \E d \in devices : To(e) \in Denied(d)

(* Mutant: the capabilities are not consulted.                            *)
GrantableUnconsulted(t, e) ==
    ~EdgeConflictsWithAnotherTrain(t, e) /\ ~EdgeRequiresMismatchedSwitch(e)

Grantable(t, e) ==
    /\ ~EdgeConflictsWithAnotherTrain(t, e)
    /\ ~EdgeRequiresMismatchedSwitch(e)
    /\ ~AnyCapabilityDeniesClearance(e)

(* Mutant: the switch is thrown before looking for conflicts.             *)
MustThrowSwitchFirst(t, e) ==
    /\ EdgeRequiresMismatchedSwitch(e)
    /\ From(e) \in paired
    /\ requested[From(e)] # Switched[e]

(* Mutant: a switch that was asked once is never asked again.             *)
MustThrowSwitchOnce(t, e) ==
    /\ ~EdgeConflictsWithAnotherTrain(t, e)
    /\ EdgeRequiresMismatchedSwitch(e)
    /\ From(e) \in paired
    /\ requested[From(e)] = None

(* tryGrantClearance gets as far as the switch: nobody else is in the way, *)
(* the points are wrong, and they have not been asked for yet.             *)
MustThrowSwitch(t, e) ==
    /\ ~EdgeConflictsWithAnotherTrain(t, e)
    /\ EdgeRequiresMismatchedSwitch(e)
    /\ From(e) \in paired
    /\ requested[From(e)] # Switched[e]

(* Mutant: the walk goes on past an edge it could not grant.              *)
WalkedAcrossGaps(t, h) ==
    {i \in DOMAIN trains[t].transit :
        trains[t].progress <= i /\ i < trains[t].progress + h}

(* The walk of extendClearanceHorizon over a horizon of h edges: it visits *)
(* the edges of the transit from progress on, and goes past one only when  *)
(* the train holds it already or is granted it now.                        *)
Walked(t, h) ==
    LET r == trains[t] IN
    {i \in DOMAIN r.transit :
        /\ r.progress <= i /\ i < r.progress + h
        /\ \A k \in r.progress..(i - 1) :
              r.transit[k] \in cleared[t] \/ Grantable(t, r.transit[k])}

NewlyGranted(t, h) ==
    {i \in Walked(t, h) :
        /\ trains[t].transit[i] \notin cleared[t]
        /\ Grantable(t, trains[t].transit[i])}

(* The edges at which the walk stops to throw a switch: at most one. *)
SwitchesToThrow(t, h) ==
    {e \in {trains[t].transit[i] : i \in Walked(t, h)} :
        e \notin cleared[t] /\ MustThrowSwitch(t, e)}

-----------------------------------------------------------------------------
(* The total order over trains, and the waits-for graph.                   *)

RegistrationSeq(t) == CHOOSE i \in DOMAIN arrival : arrival[i] = t

(* compareTrains(a, b) < 0: a is preferred over b. *)
Outranks(a, b) ==
    \/ Priority[a] > Priority[b]
    \/ Priority[a] = Priority[b] /\ RegistrationSeq(a) < RegistrationSeq(b)

InTransit(t) == trains[t].progress \in DOMAIN trains[t].transit
NextEdge(t) == trains[t].transit[trains[t].progress]

(* Mutant: a held train counts as waiting for clearance.                  *)
WaitingOrHeld == {t \in Registered : InTransit(t) /\ NextEdge(t) \notin cleared[t]}

CollectWaitingTrains ==
    {t \in Registered : ~held[t] /\ InTransit(t) /\ NextEdge(t) \notin cleared[t]}

WaitsFor(a, b) ==
    /\ a \in CollectWaitingTrains
    /\ a # b
    /\ AnyEdgeSharesMarker(cleared[b], NextEdge(a))

(* The simple cycles of the waits-for graph through train t, starting at t. *)
CyclesThrough(t) ==
    {c \in UNION {[1..n -> CollectWaitingTrains] : n \in 2..Cardinality(Train)} :
        /\ c[1] = t
        /\ IsInjective(c)
        /\ \A i \in 1..Len(c) : WaitsFor(c[i], c[1 + (i % Len(c))])}

(* The cycles findCycleStartingFromAny may return: one through the first   *)
(* registered train that lies on any.                                      *)
WaitsForCycles ==
    LET onCycle == {i \in DOMAIN arrival : CyclesThrough(arrival[i]) # {}}
    IN  IF onCycle = {} THEN {} ELSE CyclesThrough(arrival[Min(onCycle)])

(* peerWantedEdgeBlockedByVictim: the first train round the cycle whose    *)
(* next edge is denied by what the victim holds.                           *)
Blocked(c, v) == {i \in DOMAIN c : c[i] # v /\ AnyEdgeSharesMarker(cleared[v], NextEdge(c[i]))}
PeerWantedEdge(c, v) == NextEdge(c[Min(Blocked(c, v))])

LowestRanked(v, S) == v \in S /\ \A u \in S \ {v} : Outranks(u, v)

-----------------------------------------------------------------------------
(* Yielding and backing out.                                               *)

(* Mutant: the victim gives up everything.                                *)
ReleasableAll(v, wanted) == cleared[v]

(* What the victim of a yield may give up of the peer's way: everything    *)
(* but the block its head stands in.                                       *)
Releasable(v, wanted) ==
    {e \in cleared[v] : EdgeSharesMarker(e, wanted) /\ To(e) # trains[v].last}

CanYield(c, v) ==
    /\ LowestRanked(v, Range(c))
    /\ Blocked(c, v) # {}
    /\ LET wanted == PeerWantedEdge(c, v) IN
        /\ Releasable(v, wanted) # {}
        /\ ~AnyEdgeSharesMarker(cleared[v] \ Releasable(v, wanted), wanted)

(* Runs of edges of S leading backwards from marker m, never twice to one. *)
BackwardRuns(S, m) ==
    {p \in UNION {[1..n -> S] : n \in 1..Cardinality(S)} :
        /\ To(p[1]) = m
        /\ \A i \in 1..(Len(p) - 1) : To(p[i + 1]) = From(p[i])
        /\ IsInjective([i \in DOMAIN p |-> To(p[i])])}

AllMeasured(p) == \A i \in DOMAIN p : EdgeLength[p[i]] # None
RunLength(p) == MapThenSumSet(LAMBDA i : EdgeLength[p[i]], DOMAIN p)

(* Mutant: a reverse needs no room for the train's body.                  *)
CoveredUnchecked(v, m, S) == TRUE

(* A train of v's length whose head stands at m lies entirely on blocks of *)
(* S, all of known length.                                                 *)
ReverseBodyCoveredByHeldTail(v, m, S) ==
    \/ trains[v].length = 0
    \/ \E p \in BackwardRuns(S, m) :
          /\ AllMeasured(p)
          /\ RunLength(p) >= trains[v].length

(* computeReverseTarget: the blocks v vacates, head first, when it backs   *)
(* up as far as it must, and no further, to leave its peer's way.          *)
Retreats(c, v) ==
    LET wanted == PeerWantedEdge(c, v)
        kept(p, k) == cleared[v] \ {p[i] : i \in 1..k}
        behind(p) == {From(p[i]) : i \in DOMAIN p}
    IN  {p \in BackwardRuns(cleared[v], trains[v].last) :
            /\ Blocked(c, v) # {}
            /\ trains[v].last \notin behind(p)
            /\ Cardinality(behind(p)) = Len(p)
            /\ \A u \in Train \ {v}, m \in behind(p) : ~Touches(cleared[u], m)
            /\ \A k \in DOMAIN p : AnyEdgeSharesMarker(kept(p, k), wanted) <=> k # Len(p)
            /\ ReverseBodyCoveredByHeldTail(v, From(p[Len(p)]), kept(p, Len(p)))}

(* The trains of a cycle that could back out of it, and a cycle that *)
(* nobody can resolve.                                                     *)
AbleToReverse(c) == {v \in Range(c) : Retreats(c, v) # {}}
NobodyYields(c) == \A v \in Range(c) : ~CanYield(c, v)
Unresolvable(c) == NobodyYields(c) /\ AbleToReverse(c) = {}

-----------------------------------------------------------------------------
(* Where the tail is.                                                      *)

(* Mutant: whatever the head is not on counts as behind it.               *)
ForwardUnderHead(t, edge) == {edge}

(* buildForwardEdgeKeys: what is ahead of the head, or under it. *)
Forward(t, edge) ==
    {edge} \cup {trains[t].transit[i] :
                   i \in {k \in DOMAIN trains[t].transit : k >= trains[t].progress}}

(* Mutant: the tail leaves a block together with the head.                *)
TailLeavesWithHead(t, nearer, distance) == AllMeasured(nearer)

(* The tail has left a block when the head is distance past the start of   *)
(* its edge and the blocks nearer to it than this one are measured.        *)
TailHasLeft(t, nearer, distance) ==
    AllMeasured(nearer) /\ distance + RunLength(nearer) >= trains[t].length

(* collectTailReleases: the held blocks behind the start of the edge the   *)
(* head is on, as far back as they run on, that the tail has left; none is *)
(* freed behind a block of unknown length.  Where two held blocks lead to  *)
(* one marker, the run may follow either.                                  *)
CollectTailReleases(t, edge, distance) ==
    LET runs == BackwardRuns(cleared[t] \ Forward(t, edge), From(edge))
        whole == {p \in runs : \A r \in runs : ~IsStrictPrefix(p, r)}
        freed(p) == {p[k] : k \in {i \in DOMAIN p :
                                     TailHasLeft(t, SubSeq(p, 1, i - 1), distance)}}
    IN  IF runs = {} THEN {{}} ELSE {freed(p) : p \in whole}
=============================================================================
