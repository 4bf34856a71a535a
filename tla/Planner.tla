------------------------------ MODULE Planner ------------------------------
(***************************************************************************)
(* planTransit: a cheapest route through the graph of markers that never   *)
(* turns the train round, and never crosses a turnout from leg to leg.     *)
(* Dijkstra's search as the code runs it, one label per marker.            *)
(***************************************************************************)
EXTENDS Track, Integers, FiniteSets, Sequences

CONSTANTS None, EdgeLength, Switched

(* estimated_length_mm, or 1 for an edge without one. *)
Cost(e) == IF EdgeLength[e] = None THEN 1 ELSE EdgeLength[e]

(* isLegToLegMove: m is a turnout, and the train would pass it from one of *)
(* its switched legs to another.                                           *)
IsSwitchedLeg(edges, m, neighbour) == <<m, neighbour>> \in edges \cap DOMAIN Switched
IsLegToLegMove(edges, m, arrivedFrom, to) ==
    /\ arrivedFrom # None
    /\ IsSwitchedLeg(edges, m, arrivedFrom)
    /\ IsSwitchedLeg(edges, m, to)

-----------------------------------------------------------------------------
(* The search: cheapest cost and predecessor of each marker reached, and   *)
(* the frontier, a set: the order of the entries only breaks ties.         *)

SearchStart(from) ==
    [best |-> [m \in {from} |-> 0], cameFrom |-> [m \in {} |-> None],
     frontier |-> {[marker |-> from, cost |-> 0]}]

(* Mutant: the comparison the wrong way round.                            *)
PopHighestCost(frontier) == CHOOSE f \in frontier : \A g \in frontier : f.cost >= g.cost

PopLowestCost(frontier) == CHOOSE f \in frontier : \A g \in frontier : f.cost <= g.cost

IsStale(search, entry) == entry.cost > search.best[entry.marker]

(* Mutant: the heading the train starts with is forgotten.                *)
ArrivedFromSearched(search, m, start) ==
    IF m \in DOMAIN search.cameFrom THEN search.cameFrom[m] ELSE None

(* How the search reached m. *)
ArrivedFrom(search, m, start) ==
    IF m \in DOMAIN search.cameFrom THEN search.cameFrom[m] ELSE start

(* The neighbours of current that are reached, or reached at less cost.    *)
Improved(edges, search, current, forbidden, startArrivedFrom) ==
    LET arrivedFrom == ArrivedFrom(search, current.marker, startArrivedFrom) IN
    {n \in Marker :
        /\ <<current.marker, n>> \in edges \ {forbidden}
        /\ ~IsLegToLegMove(edges, current.marker, arrivedFrom, n)
        /\ n \in DOMAIN search.best
               => current.cost + Cost(<<current.marker, n>>) < search.best[n]}

RelaxNeighbours(edges, search, current, forbidden, startArrivedFrom) ==
    LET improved == Improved(edges, search, current, forbidden, startArrivedFrom)
        cost(n)  == current.cost + Cost(<<current.marker, n>>)
    IN  [best     |-> [n \in improved \cup DOMAIN search.best |->
                          IF n \in improved THEN cost(n) ELSE search.best[n]],
         cameFrom |-> [n \in improved \cup DOMAIN search.cameFrom |->
                          IF n \in improved THEN current.marker ELSE search.cameFrom[n]],
         frontier |-> search.frontier \cup {[marker |-> n, cost |-> cost(n)] : n \in improved}]

(* One turn of the loop.  A search that has popped its target stays so.    *)
Turn(edges, to, forbidden, startArrivedFrom, search) ==
    LET current == PopLowestCost(search.frontier)
        popped  == [search EXCEPT !.frontier = @ \ {current}]
    IN  IF search.frontier = {} THEN search
        ELSE IF IsStale(search, current) THEN popped
        ELSE IF current.marker = to THEN search
        ELSE RelaxNeighbours(edges, popped, current, forbidden, startArrivedFrom)

(* Each edge enters the frontier at most once, so the loop ends within one *)
(* turn per edge and one for the source.                                   *)
Searched(edges, from, to, forbidden, startArrivedFrom) ==
    LET turns == Cardinality(edges) + 1
        search[i \in 0..turns] ==
            IF i = 0 THEN SearchStart(from)
            ELSE Turn(edges, to, forbidden, startArrivedFrom, search[i - 1])
    IN  search[turns]

(* One step back along the predecessors. *)
StepBack(cameFrom, from, path) ==
    LET cursor == From(path[1])
    IN  IF cursor = from THEN path ELSE <<<<cameFrom[cursor], cursor>>>> \o path

ReconstructTransit(cameFrom, from, to) ==
    LET steps == Cardinality(DOMAIN cameFrom)
        path[i \in 0..steps] ==
            IF i = 0 THEN << <<cameFrom[to], to>> >>
            ELSE StepBack(cameFrom, from, path[i - 1])
    IN  path[steps]

Dijkstra(edges, from, to, forbidden, startArrivedFrom) ==
    LET found == Searched(edges, from, to, forbidden, startArrivedFrom)
    IN  IF from = to \/ to \notin DOMAIN found.best THEN <<>>
        ELSE ReconstructTransit(found.cameFrom, from, to)

(* Mutant: the train may turn round at the end of its edge.               *)
ContinuingFreely(edges, from, to, continueTo) ==
    IF continueTo = to THEN << <<from, to>> >>
    ELSE << <<from, continueTo>> >> \o Dijkstra(edges, continueTo, to, None, None)

(* Mutant: no further than the end of the edge.                           *)
ContinuingOneEdge(edges, from, to, continueTo) ==
    IF continueTo = to THEN << <<from, to>> >> ELSE <<>>

(* The route must go on along the edge the train is on. *)
PlanContinuing(edges, from, to, continueTo) ==
    LET head == <<from, continueTo>>
        rest == Dijkstra(edges, continueTo, to, <<continueTo, from>>, from)
    IN  IF continueTo = to THEN <<head>>
        ELSE IF rest = <<>> THEN <<>> ELSE <<head>> \o rest

(* <<>> stands both for null and for the empty route to where one is.  A   *)
(* heading that leaves its marker for itself is no heading.                *)
PlanTransit(edges, from, to, heading) ==
    LET leaving == heading # None /\ From(heading) = from /\ To(heading) # from
        arrived == heading # None /\ To(heading) = from /\ From(heading) # from
    IN  IF from = to THEN <<>>
        ELSE IF leaving THEN PlanContinuing(edges, from, to, To(heading))
        ELSE IF arrived THEN Dijkstra(edges, from, to, <<from, From(heading)>>, From(heading))
        ELSE Dijkstra(edges, from, to, None, None)
=============================================================================
