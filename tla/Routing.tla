------------------------------ MODULE Routing ------------------------------
(***************************************************************************)
(* The questions a scheduler puts to the planner, and what it relies on in *)
(* the answers: the routes a train may take, defined apart from the search *)
(* that chooses among them.                                                *)
(***************************************************************************)
EXTENDS Planner, SequencesExt

CONSTANT Layouts              \* the graphs the questions are about

ASSUME GraphAssumption ==
    /\ IsFiniteSet(Marker)
    /\ Layouts \subseteq SUBSET EdgeRef
    /\ None \notin Marker /\ None \notin EdgeRef
    /\ EdgeLength \in [EdgeRef -> Nat \cup {None}]

VARIABLE query

Queries ==
    {q \in [edges : Layouts, from : Marker, to : Marker, heading : EdgeRef \cup {None}] :
        /\ q.from # q.to
        /\ q.heading # None => /\ q.heading \in q.edges /\ From(q.heading) # To(q.heading)
                               /\ q.from \in {From(q.heading), To(q.heading)}}

Init == query \in Queries

(* The same train asks for the way to another stop. *)
Next == \E m \in Marker \ {query.from} : query' = [query EXCEPT !.to = m]

Spec == Init /\ [][Next]_query

-----------------------------------------------------------------------------
(* The routes a train may take.                                            *)

(* The train, come from arrivedFrom, may leave marker m along e: not back  *)
(* the way it came, nor across a turnout from leg to leg.                  *)
MayLeave(edges, m, arrivedFrom, e) ==
    e \in edges /\ From(e) = m /\ To(e) # arrivedFrom /\ ~IsLegToLegMove(edges, m, arrivedFrom, To(e))

(* A run along the graph that comes back to no marker it has been at.      *)
IsRun(edges, from, to, arrivedFrom, p) ==
    /\ p \in Seq(edges) /\ p # <<>>
    /\ MayLeave(edges, from, arrivedFrom, p[1])
    /\ \A i \in 1..(Len(p) - 1) : MayLeave(edges, To(p[i]), From(p[i]), p[i + 1])
    /\ \A i \in DOMAIN p : /\ To(p[i]) # from
                           /\ \A j \in DOMAIN p \ {i} : To(p[i]) # To(p[j])
    /\ To(p[Len(p)]) = to

(* A train under way on heading must finish it first. *)
IsRoute(edges, from, to, heading, p) ==
    IF heading # None /\ From(heading) = from
    THEN /\ p # <<>> /\ p[1] = heading
         /\ IF To(heading) = to THEN Len(p) = 1
            ELSE IsRun(edges, To(heading), to, from, Tail(p))
    ELSE IsRun(edges, from, to, IF heading # None THEN From(heading) ELSE None, p)

(* The same, enumerated: runs of one edge, and of one edge more.           *)
Longer(edges, runs) ==
    LET visited(p) == {From(p[1])} \cup {To(p[i]) : i \in DOMAIN p}
    IN  runs \cup UNION {{Append(p, e) : e \in {x \in edges :
                            /\ MayLeave(edges, To(Last(p)), From(Last(p)), x)
                            /\ To(x) \notin visited(p)}} : p \in runs}

Runs(edges, from, arrivedFrom) ==
    LET edgewise == {<<e>> : e \in {x \in edges :
                        MayLeave(edges, from, arrivedFrom, x) /\ To(x) # from}}
        runs[i \in 0..Cardinality(Marker)] ==
            IF i = 0 THEN edgewise ELSE Longer(edges, runs[i - 1])
    IN  runs[Cardinality(Marker)]

RunsTo(edges, from, to, arrivedFrom) ==
    {p \in Runs(edges, from, arrivedFrom) : To(Last(p)) = to}

LegalRoutes(edges, from, to, heading) ==
    IF heading # None /\ From(heading) = from
    THEN IF To(heading) = to THEN {<<heading>>}
         ELSE {<<heading>> \o p : p \in RunsTo(edges, To(heading), to, from)}
    ELSE RunsTo(edges, from, to, IF heading # None THEN From(heading) ELSE None)

(* Only one leg of each turnout is there: nothing crosses from leg to leg. *)
PlainTrack(edges) ==
    \A e, g \in DOMAIN Switched \cap edges : From(e) = From(g) => e = g

-----------------------------------------------------------------------------
Route == PlanTransit(query.edges, query.from, query.to, query.heading)
Legal == LegalRoutes(query.edges, query.from, query.to, query.heading)

Length(p) ==
    LET sum[i \in 0..Len(p)] == IF i = 0 THEN 0 ELSE sum[i - 1] + Cost(p[i])
    IN  sum[Len(p)]

(* What the planner returns is a route the train may take, turnouts or no. *)
RouteIsLegal ==
    Route # <<>> => IsRoute(query.edges, query.from, query.to, query.heading, Route)

(* On plain track, no route that the train may take is shorter (planner.ts *)
(* minimises the traversal time).                                          *)
RouteIsCheapestOnPlainTrack ==
    PlainTrack(query.edges) /\ Route # <<>> => \A p \in Legal : Length(Route) <= Length(p)

(* On plain track there is a route whenever the train may take one.        *)
RouteIsFoundOnPlainTrack == PlainTrack(query.edges) /\ Legal # {} => Route # <<>>
=============================================================================
