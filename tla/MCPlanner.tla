----------------------------- MODULE MCPlanner -----------------------------
(* Every question a scheduler can put to the planner, on every sub-graph   *)
(* of a small layout whose tracks run both ways.                           *)
EXTENDS Routing

CONSTANTS a, b, c, d, f

BothWays(tracks) == tracks \cup {<<e[2], e[1]>> : e \in tracks}

(* A ring a-b-c-d with a diagonal and a spur; uneven, zero, unknown lengths. *)
Tracks == {<<a, b>>, <<b, c>>, <<c, d>>, <<d, a>>, <<a, c>>, <<c, f>>}
SubGraphs == {BothWays(T) : T \in SUBSET Tracks}

MCEdgeLength ==
    [e \in Marker \X Marker |->
        CASE e \in BothWays({<<a, b>>, <<c, f>>}) -> None
          [] e \in BothWays({<<a, c>>}) -> 4
          [] e = <<c, d>> -> 0
          [] OTHER -> 2]

(* c is a turnout: its trunk leads to f, its legs to a and b. *)
Turnout == (<<c, a>> :> "main") @@ (<<c, b>> :> "diverging")
=============================================================================
