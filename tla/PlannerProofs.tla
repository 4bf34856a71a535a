---------------------------- MODULE PlannerProofs ---------------------------
(***************************************************************************)
(* The planner on every graph: what it returns follows the edges of the    *)
(* graph, and is a route the train may take.                               *)
(***************************************************************************)
EXTENDS Routing, FiniteSetTheorems, NaturalsInduction, SequenceTheorems,
        WellFoundedInduction, TLAPS

-----------------------------------------------------------------------------
(* Loops.                                                                  *)

(* A set of numbers has a least one. *)
LEMMA LeastNatural ==
    ASSUME NEW T \in SUBSET Nat, T # {}
    PROVE  \E m \in T : \A k \in T : m <= k
<1> DEFINE R == {ss \in Nat \X Nat : ss[1] < ss[2]}
<1>1. IsWellFoundedOn(R, Nat)
  BY NatLessThanWellFounded DEF OpToRel
<1>2. \A x, y \in Nat : x < y => <<x, y>> \in R
  OBVIOUS
<1> HIDE DEF R
<1>3. PICK x \in T : \A y \in T : ~(<<y, x>> \in R)
  BY <1>1, WFMin
<1>4. x \in Nat
  OBVIOUS
<1>5. ASSUME NEW k \in T
      PROVE  x <= k
  <2>1. k \in Nat
    OBVIOUS
  <2>2. ~(k < x)
    BY <1>2, <1>3, <1>4, <2>1
  <2> QED
    BY <1>4, <2>1, <2>2
<1> QED
  BY <1>5

(* What holds before a loop and is kept by every turn holds after it. *)
LEMMA LoopInduction ==
    ASSUME NEW n \in Nat, NEW T, 0 \in T,
           \A i \in 1..n : i - 1 \in T => i \in T
    PROVE  n \in T
<1> DEFINE Bad == {k \in 0..n : k \notin T}
<1>1. ASSUME Bad # {}
      PROVE  FALSE
  <2>1. Bad \in SUBSET Nat
    OBVIOUS
  <2>2. PICK m \in Bad : \A k \in Bad : m <= k
    BY <1>1, <2>1, LeastNatural
  <2>3. m \in 1..n
    OBVIOUS
  <2>4. m - 1 \in 0..n /\ ~(m <= m - 1)
    BY <2>3
  <2>5. m - 1 \in T
    BY <2>2, <2>4
  <2> QED
    BY <2>3, <2>5
<1> QED
  BY <1>1

(* A loop over S is a function: the value after turn i from the one before *)
(* it, by F[i].                                                            *)
IsLoop(g, n, b, F) == g[0] = b /\ \A i \in 1..n : g[i] = F[i][g[i - 1]]

(* There is such a function. *)
LEMMA LoopExists ==
    ASSUME NEW S, NEW n \in Nat, NEW b \in S, NEW F \in [Nat -> [S -> S]]
    PROVE  \E g \in [0..n -> S] : IsLoop(g, n, b, F)
<1> DEFINE T == {k \in 0..n : \E g \in [0..k -> S] : IsLoop(g, k, b, F)}
<1>1. 0 \in T
  <2> DEFINE g == [i \in 0..0 |-> b]
  <2>1. g \in [0..0 -> S] /\ IsLoop(g, 0, b, F)
    BY DEF IsLoop
  <2> QED
    BY <2>1
<1>2. ASSUME NEW k \in 1..n, k - 1 \in T
      PROVE  k \in T
  <2>1. PICK g \in [0..(k - 1) -> S] : IsLoop(g, k - 1, b, F)
    BY <1>2
  <2> DEFINE h == [i \in 0..k |-> IF i = k THEN F[k][g[k - 1]] ELSE g[i]]
  <2>2. h \in [0..k -> S]
    OBVIOUS
  <2>3. h[0] = b
    BY <2>1 DEF IsLoop
  <2>4. ASSUME NEW i \in 1..k
        PROVE  h[i] = F[i][h[i - 1]]
    <3>1. CASE i = k
      BY <3>1
    <3>2. CASE i # k
      BY <2>1, <3>2 DEF IsLoop
    <3> QED
      BY <3>1, <3>2
  <2> HIDE DEF h
  <2> QED
    BY <2>2, <2>3, <2>4 DEF IsLoop
<1> HIDE DEF T
<1>3. n \in T
  BY <1>1, <1>2, LoopInduction
<1> QED
  BY <1>3 DEF T

-----------------------------------------------------------------------------
(* What is true of a search.                                               *)

Partial(R) == UNION {[D -> R] : D \in SUBSET Marker}

Entry == [marker : Marker, cost : Nat]

SearchState == [best : Partial(Nat), cameFrom : Partial(Marker), frontier : SUBSET Entry]

Reached(s) == DOMAIN s.best

(* Every marker reached but the source has a predecessor, and nothing in   *)
(* the frontier is better than what is known.                              *)
Shaped(s, from) ==
    /\ Reached(s) = {from} \cup DOMAIN s.cameFrom
    /\ from \notin DOMAIN s.cameFrom
    /\ s.best[from] = 0
    /\ \A f \in s.frontier : f.marker \in Reached(s) /\ s.best[f.marker] <= f.cost

(* A marker whose best entry has left the frontier. *)
Settled(s, m) ==
    m \in Reached(s) /\ \A f \in s.frontier : f.marker = m => s.best[m] < f.cost

(* What is still to come costs no less than what is settled. *)
Ahead(s) == \A m \in Marker : Settled(s, m) => \A f \in s.frontier : s.best[m] <= f.cost

(* A marker was reached from a settled one, by a move the train may make,  *)
(* at the cost of that move.                                               *)
Move(edges, s, forbidden, start, m) ==
    /\ Settled(s, s.cameFrom[m])
    /\ <<s.cameFrom[m], m>> \in edges \ {forbidden}
    /\ ~IsLegToLegMove(edges, s.cameFrom[m], ArrivedFrom(s, s.cameFrom[m], start), m)
    /\ s.best[m] = s.best[s.cameFrom[m]] + Cost(<<s.cameFrom[m], m>>)

Moves(edges, s, forbidden, start) ==
    \A m \in DOMAIN s.cameFrom : Move(edges, s, forbidden, start, m)

(* The predecessors lead back to the source without going round. *)
IsRank(r, s) == r \in [Reached(s) -> Nat]
                /\ \A m \in DOMAIN s.cameFrom : r[s.cameFrom[m]] < r[m]

Ranked(s) == \E r : IsRank(r, s)

SearchInv(edges, from, forbidden, start, s) ==
    /\ s \in SearchState /\ Shaped(s, from) /\ Ahead(s)
    /\ Moves(edges, s, forbidden, start) /\ Ranked(s)

(* A partial function on the markers is a function on its domain. *)
LEMMA PartialFunction ==
    ASSUME NEW R, NEW f
    PROVE  f \in Partial(R) <=> DOMAIN f \subseteq Marker /\ f \in [DOMAIN f -> R]
<1>1. ASSUME f \in Partial(R)
      PROVE  DOMAIN f \subseteq Marker /\ f \in [DOMAIN f -> R]
  <2>1. PICK D \in SUBSET Marker : f \in [D -> R]
    BY <1>1 DEF Partial
  <2>2. DOMAIN f = D
    BY <2>1
  <2> QED
    BY <2>1, <2>2
<1>2. ASSUME DOMAIN f \subseteq Marker, f \in [DOMAIN f -> R]
      PROVE  f \in Partial(R)
  BY <1>2 DEF Partial
<1> QED
  BY <1>1, <1>2

(* The parts of a search's state. *)
LEMMA SearchParts ==
    ASSUME NEW s \in SearchState
    PROVE  /\ Reached(s) \subseteq Marker /\ s.best \in [Reached(s) -> Nat]
           /\ DOMAIN s.cameFrom \subseteq Marker
           /\ s.cameFrom \in [DOMAIN s.cameFrom -> Marker]
           /\ \A f \in s.frontier : f \in Entry /\ f.marker \in Marker /\ f.cost \in Nat
<1>1. s.best \in Partial(Nat) /\ s.cameFrom \in Partial(Marker) /\ s.frontier \subseteq Entry
  BY DEF SearchState
<1>2. \A f \in Entry : f.marker \in Marker /\ f.cost \in Nat
  BY DEF Entry
<1> QED
  BY <1>1, <1>2, PartialFunction DEF Reached

(* Edges cost something or nothing. *)
LEMMA CostIsNatural ==
    ASSUME NEW e \in EdgeRef
    PROVE  Cost(e) \in Nat
  BY GraphAssumption DEF Cost

(* A search begins well. *)
LEMMA SearchBegins ==
    ASSUME NEW edges, NEW from \in Marker, NEW forbidden, NEW start
    PROVE  SearchInv(edges, from, forbidden, start, SearchStart(from))
<1> DEFINE s == SearchStart(from)
<1>1. /\ s.best = [x \in {from} |-> 0] /\ s.cameFrom = [x \in {} |-> None]
      /\ s.frontier = {[marker |-> from, cost |-> 0]}
  BY DEF SearchStart
<1>2. DOMAIN s.cameFrom = {} /\ Reached(s) = {from}
  BY <1>1 DEF Reached
<1>3. s \in SearchState
  <2>1. [x \in {from} |-> 0] \in Partial(Nat)
    <3>1. [x \in {from} |-> 0] \in [{from} -> Nat] /\ {from} \in SUBSET Marker
      OBVIOUS
    <3> QED
      BY <3>1 DEF Partial
  <2>3. [x \in {} |-> None] \in Partial(Marker)
    <3>1. [x \in {} |-> None] \in [{} -> Marker]
      OBVIOUS
    <3> QED
      BY <3>1 DEF Partial
  <2>2. {[marker |-> from, cost |-> 0]} \subseteq Entry
    BY DEF Entry
  <2> QED
    BY <2>1, <2>2, <2>3 DEF SearchStart, SearchState
<1> HIDE DEF s
<1>4. Shaped(s, from)
  BY <1>1, <1>2 DEF Shaped
<1>5. Ahead(s)
  BY <1>1, <1>2 DEF Ahead, Settled
<1>6. Moves(edges, s, forbidden, start)
  BY <1>2 DEF Moves
<1>7. Ranked(s)
  <2>1. IsRank(s.best, s)
    BY <1>1, <1>2 DEF IsRank
  <2> QED
    BY <2>1 DEF Ranked
<1> QED
  BY <1>3, <1>4, <1>5, <1>6, <1>7 DEF SearchInv, s

(* A frontier that is not empty has a cheapest entry. *)
LEMMA CheapestEntry ==
    ASSUME NEW s \in SearchState, s.frontier # {}
    PROVE  /\ PopLowestCost(s.frontier) \in s.frontier
           /\ \A g \in s.frontier : PopLowestCost(s.frontier).cost <= g.cost
<1>1. \A f \in s.frontier : f.cost \in Nat
  BY SearchParts
<1>2. {f.cost : f \in s.frontier} \in SUBSET Nat /\ {f.cost : f \in s.frontier} # {}
  BY <1>1
<1>3. PICK c \in {f.cost : f \in s.frontier} : \A k \in {f.cost : f \in s.frontier} : c <= k
  BY <1>2, LeastNatural
<1>4. \E f \in s.frontier : \A g \in s.frontier : f.cost <= g.cost
  BY <1>3
<1> QED
  BY <1>4 DEF PopLowestCost

(* Dropping an entry that is out of date changes nothing of substance. *)
LEMMA StaleEntryIsDropped ==
    ASSUME NEW edges, NEW from, NEW forbidden, NEW start, NEW s, NEW f \in s.frontier,
           SearchInv(edges, from, forbidden, start, s), IsStale(s, f)
    PROVE  SearchInv(edges, from, forbidden, start, [s EXCEPT !.frontier = @ \ {f}])
<1> DEFINE n == [s EXCEPT !.frontier = @ \ {f}]
<1>1. s \in SearchState /\ Shaped(s, from) /\ Ahead(s)
      /\ Moves(edges, s, forbidden, start) /\ Ranked(s)
  BY DEF SearchInv
<1>2. n.best = s.best /\ n.cameFrom = s.cameFrom /\ n.frontier = s.frontier \ {f}
      /\ n \in SearchState
  BY <1>1 DEF SearchState
<1> HIDE DEF n
<1>3. Reached(n) = Reached(s)
  BY <1>2 DEF Reached
<1>4. \A m : Settled(n, m) <=> Settled(s, m)
  BY <1>2, <1>3 DEF Settled, IsStale
<1>5. \A m : ArrivedFrom(n, m, start) = ArrivedFrom(s, m, start)
  BY <1>2 DEF ArrivedFrom
<1>6. Shaped(n, from)
  BY <1>1, <1>2, <1>3 DEF Shaped
<1>7. Ahead(n)
  BY <1>1, <1>2, <1>4 DEF Ahead
<1>8. Moves(edges, n, forbidden, start)
  BY <1>1, <1>2, <1>4, <1>5 DEF Moves, Move
<1>9. Ranked(n)
  BY <1>1, <1>2, <1>3 DEF Ranked, IsRank
<1> QED
  BY <1>2, <1>6, <1>7, <1>8, <1>9 DEF SearchInv, n

(* What relaxing does to a search: the improved neighbours are known at    *)
(* their new cost, from current, and wait in the frontier; the rest of the *)
(* markers are as they were.                                               *)
IsRelaxed(n, s, imp, current, cost) ==
    /\ Reached(n) = imp \cup Reached(s)
    /\ DOMAIN n.cameFrom = imp \cup DOMAIN s.cameFrom
    /\ \A m \in imp : n.best[m] = cost[m] /\ n.cameFrom[m] = current.marker
    /\ \A m \in Reached(s) \ imp : n.best[m] = s.best[m]
    /\ \A m \in DOMAIN s.cameFrom \ imp : n.cameFrom[m] = s.cameFrom[m]
    /\ n.frontier = (s.frontier \ {current}) \cup {[marker |-> m, cost |-> cost[m]] : m \in imp}

(* What makes a neighbour of current an improved one, and what keeps the   *)
(* others from being one.                                                  *)
AreImproved(imp, s, edges, forbidden, start, current, cost) ==
    /\ imp \subseteq Marker
    /\ cost \in [imp -> Nat]
    /\ \A m \in imp :
        /\ <<current.marker, m>> \in edges \ {forbidden}
        /\ ~IsLegToLegMove(edges, current.marker, ArrivedFrom(s, current.marker, start), m)
        /\ cost[m] = current.cost + Cost(<<current.marker, m>>) /\ current.cost <= cost[m]
        /\ m \in Reached(s) => cost[m] < s.best[m]
    /\ \A m \in Marker \ imp :
        <<current.marker, m>> \in edges \ {forbidden} =>
            \/ IsLegToLegMove(edges, current.marker, ArrivedFrom(s, current.marker, start), m)
            \/ m \in Reached(s) /\ s.best[m] <= current.cost + Cost(<<current.marker, m>>)

(* RelaxNeighbours is such a step. *)
LEMMA Relaxing ==
    ASSUME NEW edges \in SUBSET EdgeRef, NEW s \in SearchState, NEW current \in s.frontier,
           NEW forbidden, NEW start
    PROVE  \E imp, cost :
              LET n == RelaxNeighbours(edges, [s EXCEPT !.frontier = @ \ {current}],
                                       current, forbidden, start)
              IN  /\ AreImproved(imp, s, edges, forbidden, start, current, cost)
                  /\ IsRelaxed(n, s, imp, current, cost)
                  /\ n \in SearchState
<1> DEFINE t == [s EXCEPT !.frontier = @ \ {current}]
           imp == Improved(edges, t, current, forbidden, start)
           cost == [m \in imp |-> current.cost + Cost(<<current.marker, m>>)]
           n == RelaxNeighbours(edges, t, current, forbidden, start)
<1>1. t.best = s.best /\ t.cameFrom = s.cameFrom /\ t.frontier = s.frontier \ {current}
  BY DEF SearchState
<1> HIDE DEF t
<1>2. imp \subseteq Marker /\ \A m \in imp :
        /\ <<current.marker, m>> \in edges \ {forbidden}
        /\ ~IsLegToLegMove(edges, current.marker, ArrivedFrom(s, current.marker, start), m)
        /\ m \in Reached(s) => current.cost + Cost(<<current.marker, m>>) < s.best[m]
  BY <1>1 DEF Improved, ArrivedFrom, Reached
<1>2a. ASSUME NEW m \in Marker \ imp, <<current.marker, m>> \in edges \ {forbidden}
      PROVE  \/ IsLegToLegMove(edges, current.marker, ArrivedFrom(s, current.marker, start), m)
             \/ m \in Reached(s) /\ ~(current.cost + Cost(<<current.marker, m>>) < s.best[m])
  BY <1>1, <1>2a DEF Improved, ArrivedFrom, Reached
<1>3. n = [best     |-> [m \in imp \cup DOMAIN s.best |->
                            IF m \in imp THEN current.cost + Cost(<<current.marker, m>>) ELSE s.best[m]],
           cameFrom |-> [m \in imp \cup DOMAIN s.cameFrom |->
                            IF m \in imp THEN current.marker ELSE s.cameFrom[m]],
           frontier |-> (s.frontier \ {current})
                            \cup {[marker |-> m, cost |-> current.cost + Cost(<<current.marker, m>>)] : m \in imp}]
  BY <1>1 DEF RelaxNeighbours
<1> HIDE DEF imp, n
<1>4. current.marker \in Marker /\ current.cost \in Nat
  BY SearchParts
<1>5. \A m \in imp : Cost(<<current.marker, m>>) \in Nat
  BY <1>2, <1>4, CostIsNatural DEF EdgeRef
<1>6. AreImproved(imp, s, edges, forbidden, start, current, cost)
  <2>1. ASSUME NEW m \in Marker \ imp, <<current.marker, m>> \in edges \ {forbidden}
        PROVE  \/ IsLegToLegMove(edges, current.marker, ArrivedFrom(s, current.marker, start), m)
               \/ m \in Reached(s) /\ s.best[m] <= current.cost + Cost(<<current.marker, m>>)
    <3>1. Cost(<<current.marker, m>>) \in Nat
      BY <2>1, CostIsNatural
    <3>2. m \in Reached(s) => s.best[m] \in Nat
      BY SearchParts
    <3> QED
      BY <1>4, <1>2a, <2>1, <3>1, <3>2
  <2>2. \A m \in imp : cost[m] = current.cost + Cost(<<current.marker, m>>)
    OBVIOUS
  <2>3. \A m \in imp : cost[m] \in Nat /\ current.cost <= cost[m]
    BY <1>4, <1>5, <2>2
  <2>4. cost \in [imp -> Nat]
    BY <2>3
  <2> HIDE DEF cost
  <2> QED
    BY <1>2, <2>1, <2>2, <2>3, <2>4 DEF AreImproved
<1>7. IsRelaxed(n, s, imp, current, cost)
  BY <1>3 DEF IsRelaxed, Reached
<1>8. n \in SearchState
  <2>1. s.best \in [Reached(s) -> Nat] /\ Reached(s) \subseteq Marker
        /\ s.cameFrom \in [DOMAIN s.cameFrom -> Marker] /\ DOMAIN s.cameFrom \subseteq Marker
        /\ s.frontier \subseteq Entry
    BY SearchParts
  <2>2. \A m \in imp : cost[m] \in Nat
    BY <1>4, <1>5
  <2>3. n.best \in Partial(Nat)
    <3>1. n.best \in [imp \cup Reached(s) -> Nat]
      BY <1>3, <2>1, <2>2 DEF Reached
    <3>2. imp \cup Reached(s) \in SUBSET Marker
      BY <1>2, <2>1
    <3> QED
      BY <3>1, <3>2 DEF Partial
  <2>4. n.cameFrom \in Partial(Marker)
    <3>1. n.cameFrom \in [imp \cup DOMAIN s.cameFrom -> Marker]
      BY <1>3, <1>4, <2>1
    <3>2. imp \cup DOMAIN s.cameFrom \in SUBSET Marker
      BY <1>2, <2>1
    <3> QED
      BY <3>1, <3>2 DEF Partial
  <2>5. n.frontier \subseteq Entry
    <3>1. ASSUME NEW m \in imp
          PROVE  [marker |-> m, cost |-> current.cost + Cost(<<current.marker, m>>)] \in Entry
      <4>1. m \in Marker /\ current.cost + Cost(<<current.marker, m>>) \in Nat
        BY <1>2, <1>4, <1>5
      <4> QED
        BY <4>1 DEF Entry
    <3>2. n.frontier = (s.frontier \ {current})
            \cup {[marker |-> m, cost |-> current.cost + Cost(<<current.marker, m>>)] : m \in imp}
      BY <1>3
    <3> QED
      BY <2>1, <3>1, <3>2
  <2> QED
    BY <1>3, <2>3, <2>4, <2>5 DEF SearchState
<1> QED
  BY <1>6, <1>7, <1>8 DEF n, t

(* Relaxing the cheapest entry, if it is up to date, settles its marker    *)
(* and no other.                                                           *)
LEMMA SettledAfterRelaxing ==
    ASSUME NEW edges, NEW from, NEW forbidden, NEW start, NEW s, NEW current \in s.frontier,
           SearchInv(edges, from, forbidden, start, s), ~IsStale(s, current),
           \A g \in s.frontier : current.cost <= g.cost,
           NEW imp, NEW cost, AreImproved(imp, s, edges, forbidden, start, current, cost),
           NEW n \in SearchState, IsRelaxed(n, s, imp, current, cost)
    PROVE  /\ current.marker \in Reached(s) /\ current.marker \notin imp
           /\ s.best[current.marker] = current.cost
           /\ \A m \in imp : ~Settled(s, m) /\ m # from
           /\ \A m \in Marker : Settled(n, m) <=> Settled(s, m) \/ m = current.marker
<1>1. s \in SearchState /\ Shaped(s, from) /\ Ahead(s)
  BY DEF SearchInv
<1>2. /\ Reached(s) \subseteq Marker /\ s.best \in [Reached(s) -> Nat]
      /\ \A f \in s.frontier : f \in Entry /\ f.marker \in Marker /\ f.cost \in Nat
  BY <1>1, SearchParts
<1>3. \A f \in s.frontier : f.marker \in Reached(s) /\ s.best[f.marker] <= f.cost
  BY <1>1 DEF Shaped
<1>4. current.marker \in Reached(s) /\ s.best[current.marker] = current.cost
  <2>1. s.best[current.marker] <= current.cost /\ ~(current.cost > s.best[current.marker])
    BY <1>3 DEF IsStale
  <2> QED
    BY <1>2, <1>3, <2>1
<1>5. \A m \in imp : /\ m \in Marker /\ cost[m] \in Nat /\ current.cost <= cost[m]
                     /\ m \in Reached(s) => cost[m] < s.best[m]
  BY DEF AreImproved
<1>6. current.marker \notin imp
  <2>1. SUFFICES ASSUME current.marker \in imp
                 PROVE  FALSE
    OBVIOUS
  <2>2. cost[current.marker] < s.best[current.marker]
        /\ current.cost <= cost[current.marker] /\ cost[current.marker] \in Nat
    BY <1>4, <1>5, <2>1
  <2> QED
    BY <1>2, <1>4, <2>2
<1>7. ASSUME NEW m \in imp
      PROVE  ~Settled(s, m) /\ m # from
  <2>1. m \in Marker /\ cost[m] \in Nat /\ current.cost <= cost[m] /\ current.cost \in Nat
    BY <1>2, <1>5
  <2>2. ~Settled(s, m)
    <3>1. SUFFICES ASSUME Settled(s, m)
                   PROVE  FALSE
      OBVIOUS
    <3>2. m \in Reached(s)
      BY <3>1 DEF Settled
    <3>3. s.best[m] <= current.cost
      BY <1>1, <2>1, <3>1 DEF Ahead
    <3>4. cost[m] < s.best[m] /\ s.best[m] \in Nat
      BY <1>2, <1>5, <3>2
    <3> QED
      BY <2>1, <3>3, <3>4
  <2>3. m # from
    <3>1. SUFFICES ASSUME m = from
                   PROVE  FALSE
      OBVIOUS
    <3>2. from \in Reached(s) /\ s.best[from] = 0
      BY <1>1 DEF Shaped
    <3>3. cost[m] < 0
      BY <1>5, <3>1, <3>2
    <3> QED
      BY <2>1, <3>3
  <2> QED
    BY <2>2, <2>3
<1>8. ASSUME NEW m \in Marker
      PROVE  Settled(n, m) <=> Settled(s, m) \/ m = current.marker
  <2>1. ASSUME m \in imp
        PROVE  ~Settled(n, m)
    <3>1. [marker |-> m, cost |-> cost[m]] \in n.frontier /\ n.best[m] = cost[m]
      BY <2>1 DEF IsRelaxed
    <3>2. ~(cost[m] < cost[m])
      BY <1>5, <2>1
    <3> QED
      BY <3>1, <3>2 DEF Settled
  <2>2. ASSUME m \notin imp
        PROVE  Settled(n, m) <=> m \in Reached(s)
                                 /\ \A f \in s.frontier \ {current} : f.marker = m => s.best[m] < f.cost
    <3>1. m \in Reached(n) <=> m \in Reached(s)
      BY <2>2 DEF IsRelaxed
    <3>2. m \in Reached(s) => n.best[m] = s.best[m]
      BY <2>2 DEF IsRelaxed
    <3>3. \A f \in n.frontier : f.marker = m => f \in s.frontier \ {current}
      BY <2>2 DEF IsRelaxed
    <3>4. s.frontier \ {current} \subseteq n.frontier
      BY DEF IsRelaxed
    <3> QED
      BY <3>1, <3>2, <3>3, <3>4 DEF Settled
  <2>3. CASE m \in imp
    BY <1>6, <1>7, <2>1, <2>3
  <2>4. CASE m = current.marker
    <3>1. \A f \in s.frontier \ {current} : f.marker = m => f.cost # current.cost
      BY <1>2, <2>4 DEF Entry
    <3>2. \A f \in s.frontier \ {current} : f.marker = m => s.best[m] < f.cost
      <4>1. SUFFICES ASSUME NEW f \in s.frontier \ {current}, f.marker = m
                     PROVE  s.best[m] < f.cost
        OBVIOUS
      <4>2. current.cost <= f.cost /\ f.cost # current.cost /\ f.cost \in Nat /\ current.cost \in Nat
        BY <1>2, <3>1, <4>1
      <4>3. s.best[m] = current.cost
        BY <1>4, <2>4
      <4> QED
        BY <4>2, <4>3
    <3> QED
      BY <1>4, <1>6, <2>2, <2>4, <3>2
  <2>5. CASE m \notin imp /\ m # current.marker
    BY <2>2, <2>5 DEF Settled
  <2> QED
    BY <2>3, <2>4, <2>5
<1> QED
  BY <1>4, <1>6, <1>7, <1>8

(* And the search stays sound. *)
LEMMA RelaxingIsSound ==
    ASSUME NEW edges \in SUBSET EdgeRef, NEW from \in Marker, NEW forbidden, NEW start,
           NEW s, NEW current \in s.frontier,
           SearchInv(edges, from, forbidden, start, s), ~IsStale(s, current),
           \A g \in s.frontier : current.cost <= g.cost,
           NEW imp, NEW cost, AreImproved(imp, s, edges, forbidden, start, current, cost),
           NEW n \in SearchState, IsRelaxed(n, s, imp, current, cost)
    PROVE  SearchInv(edges, from, forbidden, start, n)
<1>1. s \in SearchState /\ Shaped(s, from) /\ Ahead(s)
      /\ Moves(edges, s, forbidden, start) /\ Ranked(s)
  BY DEF SearchInv
<1>2. /\ Reached(s) \subseteq Marker /\ s.best \in [Reached(s) -> Nat]
      /\ s.cameFrom \in [DOMAIN s.cameFrom -> Marker]
      /\ \A f \in s.frontier : f \in Entry /\ f.marker \in Marker /\ f.cost \in Nat
  BY <1>1, SearchParts
<1>3. /\ current.marker \in Reached(s) /\ current.marker \notin imp
      /\ s.best[current.marker] = current.cost
      /\ \A m \in imp : ~Settled(s, m) /\ m # from
      /\ \A m \in Marker : Settled(n, m) <=> Settled(s, m) \/ m = current.marker
  BY SettledAfterRelaxing
<1>4. \A m \in imp : /\ m \in Marker /\ cost[m] \in Nat /\ current.cost <= cost[m]
                     /\ <<current.marker, m>> \in edges \ {forbidden}
                     /\ ~IsLegToLegMove(edges, current.marker,
                                        ArrivedFrom(s, current.marker, start), m)
                     /\ m \in Reached(s) => cost[m] < s.best[m]
                     /\ cost[m] = current.cost + Cost(<<current.marker, m>>)
  BY DEF AreImproved
<1>5. \A f \in n.frontier : \/ f \in s.frontier
                            \/ f.marker \in imp /\ f.cost = cost[f.marker]
  BY DEF IsRelaxed
<1>6. Shaped(n, from)
  <2>1. Reached(n) = {from} \cup DOMAIN n.cameFrom /\ from \notin DOMAIN n.cameFrom
    BY <1>1, <1>3 DEF Shaped, IsRelaxed
  <2>2. n.best[from] = 0
    BY <1>1, <1>3 DEF Shaped, IsRelaxed
  <2>3. ASSUME NEW f \in n.frontier
        PROVE  f.marker \in Reached(n) /\ n.best[f.marker] <= f.cost
    <3>1. CASE f.marker \in imp /\ f.cost = cost[f.marker]
      <4>1. n.best[f.marker] = cost[f.marker] /\ f.marker \in Reached(n) /\ cost[f.marker] \in Nat
        BY <1>4, <3>1 DEF IsRelaxed
      <4> QED
        BY <3>1, <4>1
    <3>2. CASE f \in s.frontier /\ f.marker \notin imp
      BY <1>1, <3>2 DEF Shaped, IsRelaxed
    <3>3. CASE f \in s.frontier /\ f.marker \in imp
      <4>1. f.marker \in Reached(s) /\ s.best[f.marker] <= f.cost
        BY <1>1, <3>3 DEF Shaped
      <4>2. n.best[f.marker] = cost[f.marker] /\ f.marker \in Reached(n)
        BY <3>3 DEF IsRelaxed
      <4>3. cost[f.marker] < s.best[f.marker] /\ cost[f.marker] \in Nat
        BY <1>4, <3>3, <4>1
      <4>4. s.best[f.marker] \in Nat /\ f.cost \in Nat
        BY <1>2, <3>3, <4>1
      <4> QED
        BY <4>1, <4>2, <4>3, <4>4
    <3> QED
      BY <1>5, <3>1, <3>2, <3>3
  <2> QED
    BY <2>1, <2>2, <2>3 DEF Shaped
<1>7. Ahead(n)
  <2>1. SUFFICES ASSUME NEW m \in Marker, Settled(n, m), NEW f \in n.frontier
                 PROVE  n.best[m] <= f.cost
    BY DEF Ahead
  <2>2. Settled(s, m) \/ m = current.marker
    BY <1>3, <2>1
  <2>3. m \in Reached(s) /\ m \notin imp
    BY <1>3, <2>2 DEF Settled
  <2>4. n.best[m] = s.best[m] /\ s.best[m] \in Nat
    BY <1>2, <2>3 DEF IsRelaxed
  <2>5. s.best[m] <= current.cost
    <3>1. CASE Settled(s, m)
      BY <1>1, <3>1 DEF Ahead
    <3>2. CASE m = current.marker
      BY <1>2, <1>3, <3>2
    <3> QED
      BY <2>2, <3>1, <3>2
  <2>6. current.cost <= f.cost /\ f.cost \in Nat
    BY <1>2, <1>4, <1>5
  <2>7. current.cost \in Nat
    BY <1>2
  <2> QED
    BY <2>4, <2>5, <2>6, <2>7
<1>8. Moves(edges, n, forbidden, start)
  <2>1. SUFFICES ASSUME NEW m \in DOMAIN n.cameFrom
                 PROVE  Move(edges, n, forbidden, start, m)
    BY DEF Moves
  <2>2. ASSUME NEW k \in Marker, k \notin imp
        PROVE  ArrivedFrom(n, k, start) = ArrivedFrom(s, k, start)
    BY <2>2 DEF IsRelaxed, ArrivedFrom
  <2>3. CASE m \in imp
    <3>1. n.cameFrom[m] = current.marker
      BY <2>3 DEF IsRelaxed
    <3>2. Settled(n, current.marker) /\ current.marker \in Marker
      BY <1>2, <1>3
    <3>3. ArrivedFrom(n, current.marker, start) = ArrivedFrom(s, current.marker, start)
      BY <1>3, <2>2, <3>2
    <3>4. n.best[m] = n.best[current.marker] + Cost(<<current.marker, m>>)
      BY <1>3, <1>4, <2>3 DEF IsRelaxed
    <3> QED
      BY <1>4, <2>3, <3>1, <3>2, <3>3, <3>4 DEF Move
  <2>4. CASE m \notin imp
    <3>1. m \in DOMAIN s.cameFrom /\ n.cameFrom[m] = s.cameFrom[m]
      BY <2>4 DEF IsRelaxed
    <3>2. Move(edges, s, forbidden, start, m)
      BY <1>1, <3>1 DEF Moves
    <3>3. s.cameFrom[m] \in Marker /\ s.cameFrom[m] \notin imp /\ Settled(n, s.cameFrom[m])
      BY <1>2, <1>3, <3>1, <3>2 DEF Move
    <3>4. ArrivedFrom(n, s.cameFrom[m], start) = ArrivedFrom(s, s.cameFrom[m], start)
      BY <2>2, <3>3
    <3>5. n.best[m] = s.best[m] /\ n.best[s.cameFrom[m]] = s.best[s.cameFrom[m]]
      <4>1. m \in Reached(s) /\ s.cameFrom[m] \in Reached(s)
        BY <1>1, <3>1, <3>2 DEF Shaped, Move, Settled
      <4> QED
        BY <2>4, <3>3, <4>1 DEF IsRelaxed
    <3> QED
      BY <3>1, <3>2, <3>3, <3>4, <3>5 DEF Move
  <2> QED
    BY <2>3, <2>4
<1>9. Ranked(n)
  <2>1. PICK r : IsRank(r, s)
    BY <1>1 DEF Ranked
  <2> DEFINE q == [m \in Reached(n) |-> IF m \in imp THEN r[current.marker] + 1 ELSE r[m]]
  <2>2. r \in [Reached(s) -> Nat] /\ \A m \in DOMAIN s.cameFrom : r[s.cameFrom[m]] < r[m]
    BY <2>1 DEF IsRank
  <2>3. Reached(n) = imp \cup Reached(s)
    BY DEF IsRelaxed
  <2>4. r[current.marker] \in Nat
    BY <1>3, <2>2
  <2>5. q \in [Reached(n) -> Nat]
    BY <2>2, <2>3, <2>4
  <2>6. ASSUME NEW m \in DOMAIN n.cameFrom
        PROVE  q[n.cameFrom[m]] < q[m]
    <3>1. CASE m \in imp
      <4>1. n.cameFrom[m] = current.marker /\ m \in Reached(n) /\ current.marker \in Reached(n)
        BY <1>3, <2>3, <3>1 DEF IsRelaxed
      <4>2. q[m] = r[current.marker] + 1 /\ q[current.marker] = r[current.marker]
        BY <1>3, <3>1, <4>1
      <4> QED
        BY <2>4, <4>1, <4>2
    <3>2. CASE m \notin imp
      <4>1. m \in DOMAIN s.cameFrom /\ n.cameFrom[m] = s.cameFrom[m]
        BY <3>2 DEF IsRelaxed
      <4>2. Settled(s, s.cameFrom[m])
        BY <1>1, <4>1 DEF Moves, Move
      <4>3. s.cameFrom[m] \in Reached(s) /\ s.cameFrom[m] \notin imp
        BY <1>3, <4>2 DEF Settled
      <4>4. m \in Reached(n)
        BY <1>6 DEF Shaped
      <4>5. q[m] = r[m] /\ q[s.cameFrom[m]] = r[s.cameFrom[m]]
        BY <2>3, <3>2, <4>3, <4>4
      <4> QED
        BY <2>2, <4>1, <4>5
    <3> QED
      BY <3>1, <3>2
  <2> HIDE DEF q
  <2>7. IsRank(q, n)
    BY <2>5, <2>6 DEF IsRank
  <2> QED
    BY <2>7 DEF Ranked
<1> QED
  BY <1>6, <1>7, <1>8, <1>9 DEF SearchInv

(* A turn of the loop keeps a search sound. *)
LEMMA TurnIsSound ==
    ASSUME NEW edges \in SUBSET EdgeRef, NEW from \in Marker, NEW to, NEW forbidden, NEW start,
           NEW s, SearchInv(edges, from, forbidden, start, s)
    PROVE  SearchInv(edges, from, forbidden, start, Turn(edges, to, forbidden, start, s))
<1> DEFINE current == PopLowestCost(s.frontier)
           popped == [s EXCEPT !.frontier = @ \ {current}]
<1>1. s \in SearchState
  BY DEF SearchInv
<1>2. CASE s.frontier = {}
  BY <1>2 DEF Turn
<1>3. CASE s.frontier # {} /\ IsStale(s, current)
  <2>1. current \in s.frontier
    BY <1>1, <1>3, CheapestEntry
  <2>2. Turn(edges, to, forbidden, start, s) = popped
    BY <1>3 DEF Turn
  <2> HIDE DEF current
  <2> QED
    BY <1>3, <2>1, <2>2, StaleEntryIsDropped
<1>4. CASE s.frontier # {} /\ ~IsStale(s, current) /\ current.marker = to
  BY <1>4 DEF Turn
<1>5. CASE s.frontier # {} /\ ~IsStale(s, current) /\ current.marker # to
  <2>1. current \in s.frontier /\ \A g \in s.frontier : current.cost <= g.cost
    BY <1>1, <1>5, CheapestEntry
  <2>2. Turn(edges, to, forbidden, start, s) = RelaxNeighbours(edges, popped, current, forbidden, start)
    BY <1>5 DEF Turn
  <2> HIDE DEF current
  <2> DEFINE n == RelaxNeighbours(edges, popped, current, forbidden, start)
  <2>3. PICK imp, cost : /\ AreImproved(imp, s, edges, forbidden, start, current, cost)
                         /\ IsRelaxed(n, s, imp, current, cost)
                         /\ n \in SearchState
    BY <1>1, <2>1, Relaxing
  <2> HIDE DEF n
  <2>4. SearchInv(edges, from, forbidden, start, n)
    BY <1>5, <2>1, <2>3, RelaxingIsSound
  <2> QED
    BY <2>2, <2>4 DEF n
<1> QED
  BY <1>2, <1>3, <1>4, <1>5

(* A graph has finitely many edges. *)
LEMMA GraphIsFinite ==
    ASSUME NEW edges \in SUBSET EdgeRef
    PROVE  IsFiniteSet(edges) /\ Cardinality(edges) \in Nat
<1>1. IsFiniteSet(EdgeRef)
  BY GraphAssumption, FS_Product DEF EdgeRef
<1> QED
  BY <1>1, FS_Subset, FS_CardinalityType

IsSearch(g, turns, edges, from, to, forbidden, start) ==
    g = [i \in 0..turns |-> IF i = 0 THEN SearchStart(from)
                            ELSE Turn(edges, to, forbidden, start, g[i - 1])]

(* The search goes from turn to turn, and is sound after each. *)
LEMMA SearchByTurns ==
    ASSUME NEW edges \in SUBSET EdgeRef, NEW from \in Marker, NEW to, NEW forbidden, NEW start
    PROVE  \E g :
        /\ g[0] = SearchStart(from)
        /\ \A i \in 1..(Cardinality(edges) + 1) :
               g[i] = Turn(edges, to, forbidden, start, g[i - 1])
        /\ \A i \in 0..(Cardinality(edges) + 1) : SearchInv(edges, from, forbidden, start, g[i])
        /\ Searched(edges, from, to, forbidden, start) = g[Cardinality(edges) + 1]
<1> DEFINE Inv(s) == SearchInv(edges, from, forbidden, start, s)
           next(s) == Turn(edges, to, forbidden, start, s)
           turns == Cardinality(edges) + 1
           S == {s \in SearchState : Inv(s)}
           F == [i \in Nat |-> [s \in S |-> next(s)]]
<1>1. turns \in Nat
  BY GraphIsFinite
<1>2. \A s : Inv(s) => Inv(next(s)) /\ s \in SearchState
  BY TurnIsSound DEF SearchInv
<1>3. Inv(SearchStart(from))
  BY SearchBegins
<1> DEFINE chosen == CHOOSE g : IsSearch(g, turns, edges, from, to, forbidden, start)
<1>4. Searched(edges, from, to, forbidden, start) = chosen[turns]
  BY DEF Searched, IsSearch
<1>5. \E g : IsSearch(g, turns, edges, from, to, forbidden, start)
  <2> HIDE DEF Inv
  <2>1. SearchStart(from) \in S /\ F \in [Nat -> [S -> S]]
    BY <1>2, <1>3
  <2> HIDE DEF S, turns
  <2>2. PICK g \in [0..turns -> S] : IsLoop(g, turns, SearchStart(from), F)
    BY <1>1, <2>1, LoopExists
  <2>3. ASSUME NEW i \in 1..turns
        PROVE  g[i] = next(g[i - 1])
    <3>1. g[i - 1] \in S
      BY <1>1
    <3>2. g[i] = F[i][g[i - 1]]
      BY <2>2 DEF IsLoop
    <3> QED
      BY <3>1, <3>2
  <2>4. g[0] = SearchStart(from)
    BY <2>2 DEF IsLoop
  <2> HIDE DEF next
  <2>5. g = [i \in 0..turns |-> IF i = 0 THEN SearchStart(from) ELSE next(g[i - 1])]
    BY <1>1, <2>2, <2>3, <2>4
  <2> QED
    BY <2>5 DEF IsSearch, next
<1>6. IsSearch(chosen, turns, edges, from, to, forbidden, start)
  BY <1>5
<1> HIDE DEF chosen, turns, Inv, next
<1>7. chosen = [i \in 0..turns |-> IF i = 0 THEN SearchStart(from) ELSE next(chosen[i - 1])]
  BY <1>6 DEF IsSearch, next
<1>8. chosen[0] = SearchStart(from) /\ \A i \in 1..turns : chosen[i] = next(chosen[i - 1])
  BY <1>1, <1>7
<1>9. ASSUME NEW k \in 0..turns
      PROVE  Inv(chosen[k])
  <2> DEFINE T == {i \in 0..k : Inv(chosen[i])}
  <2>1. 0 \in T
    BY <1>3, <1>8
  <2>2. \A i \in 1..k : i - 1 \in T => i \in T
    BY <1>1, <1>2, <1>8
  <2>3. k \in Nat
    BY <1>1
  <2> HIDE DEF T
  <2>4. k \in T
    BY <2>1, <2>2, <2>3, LoopInduction
  <2> QED
    BY <2>4 DEF T
<1> QED
  BY <1>4, <1>8, <1>9 DEF turns, Inv, next

(* The search the loop ends with is sound. *)
LEMMA SearchIsSound ==
    ASSUME NEW edges \in SUBSET EdgeRef, NEW from \in Marker, NEW to, NEW forbidden, NEW start
    PROVE  SearchInv(edges, from, forbidden, start, Searched(edges, from, to, forbidden, start))
<1>1. Cardinality(edges) + 1 \in 0..(Cardinality(edges) + 1)
  BY GraphIsFinite
<1> QED
  BY <1>1, SearchByTurns

-----------------------------------------------------------------------------
(* The way back along the predecessors.                                    *)

(* A path along predecessors that ends at to, and how far it can be:       *)
(* ranks rise along it.                                                    *)
IsTrail(s, r, to, p) ==
    /\ p \in Seq(EdgeRef) /\ p # <<>>
    /\ To(p[Len(p)]) = to
    /\ From(p[1]) \in Reached(s)
    /\ \A i \in 1..Len(p) : /\ To(p[i]) \in DOMAIN s.cameFrom
                            /\ p[i] = <<s.cameFrom[To(p[i])], To(p[i])>>
                            /\ r[From(p[1])] < r[To(p[i])]
    /\ \A i \in 1..(Len(p) - 1) : From(p[i + 1]) = To(p[i])
    /\ \A i, j \in 1..Len(p) : i < j => r[To(p[i])] < r[To(p[j])]

(* The edge into the target is a trail. *)
LEMMA TrailBegins ==
    ASSUME NEW s \in SearchState, NEW from \in Marker, Shaped(s, from),
           NEW r, IsRank(r, s), NEW to \in DOMAIN s.cameFrom,
           s.cameFrom[to] \in Reached(s)
    PROVE  IsTrail(s, r, to, << <<s.cameFrom[to], to>> >>)
<1> DEFINE e == <<s.cameFrom[to], to>>
           p == <<e>>
<1>1. s.cameFrom[to] \in Marker /\ to \in Marker
  BY SearchParts
<1>2. e \in EdgeRef /\ From(e) = s.cameFrom[to] /\ To(e) = to
  BY <1>1 DEF EdgeRef, From, To
<1> HIDE DEF e
<1>3. p \in Seq(EdgeRef) /\ p # <<>> /\ Len(p) = 1 /\ p[1] = e
  BY <1>2
<1> HIDE DEF p
<1>4. r[From(p[1])] < r[To(p[1])]
  BY <1>2, <1>3 DEF IsRank
<1>5. \A i \in 1..Len(p) : i = 1
  BY <1>3
<1>6. \A i \in 1..(Len(p) - 1) : FALSE
  BY <1>3
<1>7. \A i, j \in 1..Len(p) : ~(i < j)
  BY <1>3
<1>8. p[1] = <<s.cameFrom[To(p[1])], To(p[1])>>
  BY <1>2, <1>3 DEF e
<1>9. IsTrail(s, r, to, p)
  BY <1>2, <1>3, <1>4, <1>5, <1>6, <1>7, <1>8 DEF IsTrail
<1> QED
  BY <1>9 DEF p, e

(* One step back makes the trail one edge longer, or it is at the source. *)
LEMMA TrailStep ==
    ASSUME NEW s \in SearchState, NEW from \in Marker, Shaped(s, from),
           NEW r, IsRank(r, s), NEW to,
           \A m \in DOMAIN s.cameFrom : s.cameFrom[m] \in Reached(s),
           NEW p, IsTrail(s, r, to, p), From(p[1]) # from
    PROVE  LET q == StepBack(s.cameFrom, from, p)
           IN  IsTrail(s, r, to, q) /\ Len(q) = Len(p) + 1
<1> DEFINE c == From(p[1])
           e == <<s.cameFrom[c], c>>
           q == <<e>> \o p
<1>1. /\ p \in Seq(EdgeRef) /\ p # <<>>
      /\ To(p[Len(p)]) = to
      /\ c \in Reached(s)
      /\ \A i \in 1..Len(p) : /\ To(p[i]) \in DOMAIN s.cameFrom
                              /\ p[i] = <<s.cameFrom[To(p[i])], To(p[i])>>
                              /\ r[c] < r[To(p[i])]
      /\ \A i \in 1..(Len(p) - 1) : From(p[i + 1]) = To(p[i])
      /\ \A i, j \in 1..Len(p) : i < j => r[To(p[i])] < r[To(p[j])]
  BY DEF IsTrail
<1>2. StepBack(s.cameFrom, from, p) = q
  BY DEF StepBack
<1>3. c \in DOMAIN s.cameFrom
  BY <1>1 DEF Shaped
<1>4. From(p[1]) = c
  OBVIOUS
<1> HIDE DEF c
<1>5. s.cameFrom[c] \in Marker /\ c \in Marker /\ s.cameFrom[c] \in Reached(s)
  BY <1>3, SearchParts
<1>6. e \in EdgeRef /\ From(e) = s.cameFrom[c] /\ To(e) = c
  BY <1>5 DEF EdgeRef, From, To
<1>7. e = <<s.cameFrom[To(e)], To(e)>>
  BY <1>6
<1> HIDE DEF e
<1>8. Len(p) \in Nat /\ Len(p) >= 1
  BY <1>1, EmptySeq, LenProperties
<1>9. /\ q \in Seq(EdgeRef) /\ Len(q) = Len(p) + 1 /\ q[1] = e
      /\ \A i \in 2..Len(q) : q[i] = p[i - 1]
  <2>1. <<e>> \in Seq(EdgeRef) /\ Len(<<e>>) = 1 /\ <<e>>[1] = e
    BY <1>6
  <2>2. /\ q \in Seq(EdgeRef) /\ Len(q) = 1 + Len(p)
        /\ \A i \in 1..Len(q) : q[i] = IF i <= 1 THEN <<e>>[i] ELSE p[i - 1]
    BY <1>1, <2>1, ConcatProperties
  <2> HIDE DEF q
  <2> QED
    BY <1>8, <2>1, <2>2
<1> HIDE DEF q
<1>10. q # <<>> /\ To(q[Len(q)]) = to
  BY <1>1, <1>8, <1>9
<1>11. r \in [Reached(s) -> Nat] /\ DOMAIN s.cameFrom \subseteq Reached(s)
       /\ r[s.cameFrom[c]] < r[c]
  BY <1>3 DEF IsRank, Shaped
<1>12. \A i \in 1..Len(p) : r[To(p[i])] \in Nat
  BY <1>1, <1>11
<1>13. r[c] \in Nat /\ r[s.cameFrom[c]] \in Nat
  BY <1>3, <1>5, <1>11
<1>14. From(q[1]) \in Reached(s) /\ From(q[1]) = s.cameFrom[c]
  BY <1>5, <1>6, <1>9
<1>15. ASSUME NEW i \in 1..Len(q)
       PROVE  /\ To(q[i]) \in DOMAIN s.cameFrom
              /\ q[i] = <<s.cameFrom[To(q[i])], To(q[i])>>
              /\ r[From(q[1])] < r[To(q[i])]
  <2>1. CASE i = 1
    BY <1>3, <1>6, <1>7, <1>9, <1>11, <1>14, <2>1
  <2>2. CASE i # 1
    <3>1. i - 1 \in 1..Len(p) /\ q[i] = p[i - 1]
      BY <1>8, <1>9, <2>2
    <3>2. r[c] < r[To(p[i - 1])] /\ r[To(p[i - 1])] \in Nat
      BY <1>1, <1>12, <3>1
    <3>3. r[s.cameFrom[c]] < r[To(p[i - 1])]
      BY <1>11, <1>13, <3>2
    <3> QED
      BY <1>1, <1>14, <3>1, <3>3
  <2> QED
    BY <2>1, <2>2
<1>16. ASSUME NEW i \in 1..(Len(q) - 1)
       PROVE  From(q[i + 1]) = To(q[i])
  <2>1. i \in 1..Len(p) /\ q[i + 1] = p[i]
    BY <1>8, <1>9
  <2>2. CASE i = 1
    BY <1>4, <1>6, <1>9, <2>1, <2>2
  <2>3. CASE i # 1
    <3>1. i - 1 \in 1..(Len(p) - 1) /\ q[i] = p[i - 1] /\ (i - 1) + 1 = i
      BY <1>8, <1>9, <2>1, <2>3
    <3> QED
      BY <1>1, <2>1, <3>1
  <2> QED
    BY <2>2, <2>3
<1>17. ASSUME NEW i \in 1..Len(q), NEW j \in 1..Len(q), i < j
       PROVE  r[To(q[i])] < r[To(q[j])]
  <2>1. j - 1 \in 1..Len(p) /\ q[j] = p[j - 1]
    BY <1>8, <1>9, <1>17
  <2>2. CASE i = 1
    BY <1>1, <1>6, <1>9, <2>1, <2>2
  <2>3. CASE i # 1
    <3>1. i - 1 \in 1..Len(p) /\ q[i] = p[i - 1] /\ i - 1 < j - 1
      BY <1>8, <1>9, <1>17, <2>3
    <3> QED
      BY <1>1, <2>1, <3>1
  <2> QED
    BY <2>2, <2>3
<1>18. IsTrail(s, r, to, q)
  BY <1>9, <1>10, <1>14, <1>15, <1>16, <1>17 DEF IsTrail
<1> QED
  BY <1>2, <1>9, <1>18

(* No trail has more edges than there are markers with a predecessor. *)
LEMMA TrailIsShort ==
    ASSUME NEW s \in SearchState, NEW from, Shaped(s, from), NEW r, IsRank(r, s), NEW to,
           NEW p, IsTrail(s, r, to, p)
    PROVE  /\ Cardinality(DOMAIN s.cameFrom) \in Nat
           /\ Len(p) <= Cardinality(DOMAIN s.cameFrom)
<1> DEFINE D == DOMAIN s.cameFrom
           m == [i \in 1..Len(p) |-> To(p[i])]
<1>1. D \subseteq Marker
  BY SearchParts
<1>2. IsFiniteSet(D) /\ Cardinality(D) \in Nat
  BY <1>1, GraphAssumption, FS_Subset, FS_CardinalityType
<1>3. p \in Seq(EdgeRef) /\ Len(p) \in Nat
  BY DEF IsTrail
<1>4. IsFiniteSet(1..Len(p)) /\ Cardinality(1..Len(p)) = Len(p)
  BY <1>3, FS_Interval
<1>5. m \in [1..Len(p) -> D]
  BY DEF IsTrail
<1>6. \A i, j \in 1..Len(p) : i # j => m[i] # m[j]
  <2>1. SUFFICES ASSUME NEW i \in 1..Len(p), NEW j \in 1..Len(p), i < j, m[i] = m[j]
                 PROVE  FALSE
    BY <1>3
  <2>2. r[To(p[i])] < r[To(p[j])] /\ To(p[i]) = To(p[j])
    BY <2>1 DEF IsTrail
  <2>3. To(p[i]) \in Reached(s)
    BY <2>1 DEF IsTrail, Shaped
  <2>4. r[To(p[i])] \in Nat
    BY <2>3 DEF IsRank
  <2> QED
    BY <2>2, <2>4
<1> HIDE DEF D, m
<1>7. ~(Cardinality(D) < Len(p))
  BY <1>2, <1>4, <1>5, <1>6, FS_PigeonHole
<1> QED
  BY <1>2, <1>3, <1>7 DEF D

IsWayBack(g, steps, cameFrom, from, to) ==
    g = [i \in 0..steps |-> IF i = 0 THEN << <<cameFrom[to], to>> >>
                            ELSE StepBack(cameFrom, from, g[i - 1])]

(* What the search is asked for is reconstructed: a trail from the source. *)
LEMMA TransitIsTrail ==
    ASSUME NEW s \in SearchState, NEW from \in Marker, Shaped(s, from),
           NEW r, IsRank(r, s), NEW to \in DOMAIN s.cameFrom,
           \A m \in DOMAIN s.cameFrom : s.cameFrom[m] \in Reached(s)
    PROVE  LET p == ReconstructTransit(s.cameFrom, from, to)
           IN  IsTrail(s, r, to, p) /\ From(p[1]) = from
<1> DEFINE Trail(p) == IsTrail(s, r, to, p)
           step(p) == StepBack(s.cameFrom, from, p)
           b == << <<s.cameFrom[to], to>> >>
           steps == Cardinality(DOMAIN s.cameFrom)
           S == {p \in Seq(EdgeRef) : Trail(p)}
           F == [i \in Nat |-> [p \in S |-> step(p)]]
           chosen == CHOOSE g : IsWayBack(g, steps, s.cameFrom, from, to)
<1>1. Trail(b)
  BY TrailBegins
<1>2. steps \in Nat /\ \A p : Trail(p) => Len(p) <= steps
  BY <1>1, TrailIsShort
<1>3. \A p : Trail(p) => /\ p \in Seq(EdgeRef) /\ Len(p) \in Nat /\ Len(p) >= 1
  BY EmptySeq, LenProperties DEF IsTrail
<1>4. ASSUME NEW p, Trail(p)
      PROVE  /\ Trail(step(p))
             /\ From(p[1]) = from => step(p) = p
             /\ From(p[1]) # from => Len(step(p)) = Len(p) + 1
  <2>1. CASE From(p[1]) = from
    BY <1>4, <2>1 DEF StepBack
  <2>2. CASE From(p[1]) # from
    <3> DEFINE q == step(p)
    <3>1. IsTrail(s, r, to, q) /\ Len(q) = Len(p) + 1
      BY <1>4, <2>2, TrailStep
    <3> QED
      BY <2>2, <3>1
  <2> QED
    BY <2>1, <2>2
<1>5. ReconstructTransit(s.cameFrom, from, to) = chosen[steps]
  BY DEF ReconstructTransit, IsWayBack
<1>6. \E g : IsWayBack(g, steps, s.cameFrom, from, to)
  <2> HIDE DEF Trail, step, b, steps
  <2>1. b \in S /\ F \in [Nat -> [S -> S]]
    BY <1>1, <1>3, <1>4
  <2> HIDE DEF S
  <2>2. PICK g \in [0..steps -> S] : IsLoop(g, steps, b, F)
    BY <1>2, <2>1, LoopExists
  <2>3. ASSUME NEW i \in 1..steps
        PROVE  g[i] = step(g[i - 1])
    <3>1. g[i - 1] \in S
      BY <1>2
    <3>2. g[i] = F[i][g[i - 1]]
      BY <2>2 DEF IsLoop
    <3> QED
      BY <3>1, <3>2
  <2>4. g[0] = b
    BY <2>2 DEF IsLoop
  <2>5. g = [i \in 0..steps |-> IF i = 0 THEN b ELSE step(g[i - 1])]
    BY <1>2, <2>2, <2>3, <2>4
  <2> QED
    BY <2>5 DEF IsWayBack, step, b
<1>7. IsWayBack(chosen, steps, s.cameFrom, from, to)
  BY <1>6
<1> HIDE DEF chosen, Trail, step, b, steps
<1>8. chosen = [i \in 0..steps |-> IF i = 0 THEN b ELSE step(chosen[i - 1])]
  BY <1>7 DEF IsWayBack, step, b
<1> DEFINE T == {i \in 0..steps : /\ Trail(chosen[i])
                                  /\ From(chosen[i][1]) = from \/ Len(chosen[i]) > i}
<1>9. 0 \in T
  <2>1. chosen[0] = b
    BY <1>2, <1>8
  <2> QED
    BY <1>1, <1>2, <1>3, <2>1
<1>10. ASSUME NEW i \in 1..steps, i - 1 \in T
       PROVE  i \in T
  <2>1. chosen[i] = step(chosen[i - 1])
    BY <1>2, <1>8
  <2>2. Trail(chosen[i - 1]) /\ (From(chosen[i - 1][1]) = from \/ Len(chosen[i - 1]) > i - 1)
    BY <1>10
  <2>3. Trail(chosen[i])
    BY <1>4, <2>1, <2>2
  <2>4. CASE From(chosen[i - 1][1]) = from
    BY <1>4, <2>1, <2>2, <2>3, <2>4
  <2>5. CASE From(chosen[i - 1][1]) # from
    <3>1. Len(chosen[i]) = Len(chosen[i - 1]) + 1 /\ Len(chosen[i - 1]) > i - 1
      BY <1>4, <2>1, <2>2, <2>5
    <3>2. Len(chosen[i - 1]) \in Nat
      BY <1>3, <2>2
    <3>3. Len(chosen[i]) > i
      BY <3>1, <3>2
    <3> QED
      BY <2>3, <3>3
  <2> QED
    BY <2>4, <2>5
<1> HIDE DEF T
<1>11. steps \in T
  BY <1>2, <1>9, <1>10, LoopInduction
<1>12. Trail(chosen[steps]) /\ (From(chosen[steps][1]) = from \/ Len(chosen[steps]) > steps)
  BY <1>11 DEF T
<1>13. Len(chosen[steps]) <= steps /\ Len(chosen[steps]) \in Nat
  BY <1>2, <1>3, <1>12
<1>14. Trail(chosen[steps]) /\ From(chosen[steps][1]) = from
  BY <1>2, <1>12, <1>13
<1> QED
  BY <1>5, <1>14 DEF Trail

-----------------------------------------------------------------------------
(* The routes.                                                             *)

(* What the train, come from arrivedFrom, is forbidden: to turn round.     *)
Heads(from, forbidden, arrivedFrom) ==
    \/ forbidden = None /\ arrivedFrom = None
    \/ arrivedFrom \in Marker /\ forbidden = <<from, arrivedFrom>>

(* Dijkstra's answer is a run of the graph. *)
LEMMA DijkstraFindsRuns ==
    ASSUME NEW edges \in SUBSET EdgeRef, NEW from \in Marker, NEW to \in Marker,
           NEW forbidden, NEW start, Heads(from, forbidden, start),
           Dijkstra(edges, from, to, forbidden, start) # <<>>
    PROVE  IsRun(edges, from, to, start, Dijkstra(edges, from, to, forbidden, start))
<1> DEFINE s == Searched(edges, from, to, forbidden, start)
           p == ReconstructTransit(s.cameFrom, from, to)
<1>1. from # to /\ to \in Reached(s) /\ Dijkstra(edges, from, to, forbidden, start) = p
  BY DEF Dijkstra, Reached
<1>2. SearchInv(edges, from, forbidden, start, s)
  BY SearchIsSound
<1> HIDE DEF s
<1>3. s \in SearchState /\ Shaped(s, from) /\ Moves(edges, s, forbidden, start) /\ Ranked(s)
  BY <1>2 DEF SearchInv
<1>4. PICK r : IsRank(r, s)
  BY <1>3 DEF Ranked
<1>5. to \in DOMAIN s.cameFrom
  BY <1>1, <1>3 DEF Shaped
<1>6. \A m \in DOMAIN s.cameFrom :
         /\ s.cameFrom[m] \in Reached(s) /\ m \in Marker /\ s.cameFrom[m] \in Marker
         /\ <<s.cameFrom[m], m>> \in edges \ {forbidden}
         /\ ~IsLegToLegMove(edges, s.cameFrom[m], ArrivedFrom(s, s.cameFrom[m], start), m)
  BY <1>3, SearchParts DEF Moves, Move, Settled
<1>7. IsTrail(s, r, to, p) /\ From(p[1]) = from
  BY <1>3, <1>4, <1>5, <1>6, TransitIsTrail
<1> HIDE DEF p
<1>8. /\ p \in Seq(EdgeRef) /\ p # <<>> /\ Len(p) \in Nat /\ Len(p) >= 1 /\ DOMAIN p = 1..Len(p)
      /\ To(p[Len(p)]) = to
      /\ \A i \in 1..Len(p) : /\ To(p[i]) \in DOMAIN s.cameFrom
                              /\ p[i] = <<s.cameFrom[To(p[i])], To(p[i])>>
                              /\ r[From(p[1])] < r[To(p[i])]
      /\ \A i \in 1..(Len(p) - 1) : From(p[i + 1]) = To(p[i])
      /\ \A i, j \in 1..Len(p) : i < j => r[To(p[i])] < r[To(p[j])]
  BY <1>7, EmptySeq, LenProperties DEF IsTrail
<1>9. ASSUME NEW i \in 1..Len(p)
      PROVE  /\ p[i] \in edges \ {forbidden} /\ From(p[i]) = s.cameFrom[To(p[i])]
             /\ ~IsLegToLegMove(edges, From(p[i]), ArrivedFrom(s, From(p[i]), start), To(p[i]))
  <2>1. From(p[i]) = s.cameFrom[To(p[i])]
    BY <1>8 DEF From
  <2> QED
    BY <1>6, <1>8, <2>1
<1>10. p \in Seq(edges)
  <2>1. \A i \in 1..Len(p) : p[i] \in edges
    BY <1>9
  <2> QED
    BY <1>8, <2>1, ElementOfSeq, SeqDef
<1>11. r \in [Reached(s) -> Nat] /\ from \in Reached(s) /\ DOMAIN s.cameFrom \subseteq Reached(s)
  BY <1>3, <1>4 DEF IsRank, Shaped
<1>12. MayLeave(edges, from, start, p[1])
  <2>1. 1 \in 1..Len(p)
    BY <1>8
  <2>2. p[1] \in edges \ {forbidden} /\ From(p[1]) = from
    BY <1>7, <1>9, <2>1
  <2>3. ArrivedFrom(s, from, start) = start
    BY <1>3 DEF ArrivedFrom, Shaped
  <2>4. To(p[1]) # start
    <3>1. To(p[1]) \in Marker /\ p[1] = <<From(p[1]), To(p[1])>>
      BY <1>6, <1>8, <1>9, <2>1
    <3> QED
      BY <2>2, <3>1, GraphAssumption DEF Heads
  <2> QED
    BY <1>9, <2>1, <2>2, <2>3, <2>4 DEF MayLeave
<1>13. ASSUME NEW i \in 1..(Len(p) - 1)
       PROVE  MayLeave(edges, To(p[i]), From(p[i]), p[i + 1])
  <2>1. i \in 1..Len(p) /\ i + 1 \in 1..Len(p) /\ i < i + 1
    BY <1>8
  <2>2. From(p[i + 1]) = To(p[i])
    BY <1>8
  <2>3. ArrivedFrom(s, To(p[i]), start) = From(p[i])
    BY <1>8, <1>9, <2>1 DEF ArrivedFrom
  <2>4. To(p[i + 1]) # From(p[i])
    <3>1. r[From(p[i])] < r[To(p[i])]
      BY <1>4, <1>8, <1>9, <2>1 DEF IsRank
    <3>2. r[To(p[i])] < r[To(p[i + 1])]
      BY <1>8, <2>1
    <3>3. From(p[i]) \in Reached(s) /\ To(p[i]) \in Reached(s) /\ To(p[i + 1]) \in Reached(s)
      BY <1>6, <1>8, <1>9, <1>11, <2>1
    <3>4. r[From(p[i])] \in Nat /\ r[To(p[i])] \in Nat /\ r[To(p[i + 1])] \in Nat
      BY <1>11, <3>3
    <3> QED
      BY <3>1, <3>2, <3>4
  <2> QED
    BY <1>9, <2>1, <2>2, <2>3, <2>4 DEF MayLeave
<1>14. ASSUME NEW i \in DOMAIN p
       PROVE  To(p[i]) # from /\ \A j \in DOMAIN p \ {i} : To(p[i]) # To(p[j])
  <2>1. To(p[i]) # from
    BY <1>3, <1>8 DEF Shaped
  <2>2. \A j \in 1..Len(p) : r[To(p[j])] \in Nat
    BY <1>8, <1>11
  <2>3. ASSUME NEW j \in 1..Len(p), i # j
        PROVE  To(p[i]) # To(p[j])
    <3>1. i \in 1..Len(p) /\ (i < j \/ j < i)
      BY <1>8, <2>3
    <3>2. r[To(p[i])] < r[To(p[j])] \/ r[To(p[j])] < r[To(p[i])]
      BY <1>8, <3>1
    <3> QED
      BY <2>2, <3>1, <3>2
  <2> QED
    BY <1>8, <2>1, <2>3
<1> QED
  BY <1>1, <1>8, <1>10, <1>12, <1>13, <1>14 DEF IsRun

(* An answer is empty or made of edges of the graph; the edge the train is *)
(* on comes first when it is under way.                                    *)
LEMMA DijkstraFollowsTheGraph ==
    ASSUME NEW edges \in SUBSET EdgeRef, NEW from \in Marker, NEW to \in Marker,
           NEW forbidden, NEW start, Heads(from, forbidden, start)
    PROVE  Dijkstra(edges, from, to, forbidden, start) \in Seq(edges)
<1> DEFINE p == Dijkstra(edges, from, to, forbidden, start)
<1>1. CASE p = <<>>
  BY <1>1, EmptySeq
<1>2. CASE p # <<>>
  <2>1. IsRun(edges, from, to, start, p)
    BY <1>2, DijkstraFindsRuns
  <2> QED
    BY <2>1 DEF IsRun
<1> QED
  BY <1>1, <1>2

(* One edge before a route. *)
LEMMA HeadBeforeRest ==
    ASSUME NEW S, NEW e \in S, NEW rest \in Seq(S)
    PROVE  /\ <<e>> \o rest \in Seq(S) /\ <<e>> \o rest # <<>>
           /\ (<<e>> \o rest)[1] = e /\ Tail(<<e>> \o rest) = rest
<1> DEFINE p == <<e>> \o rest
<1>1. <<e>> \in Seq(S) /\ Len(<<e>>) = 1 /\ <<e>>[1] = e /\ Len(rest) \in Nat
  OBVIOUS
<1>2. /\ p \in Seq(S) /\ Len(p) = 1 + Len(rest)
      /\ \A i \in 1..Len(p) : p[i] = IF i <= 1 THEN <<e>>[i] ELSE rest[i - 1]
  BY <1>1, ConcatProperties
<1> HIDE DEF p
<1>3. p # <<>> /\ p[1] = e
  BY <1>1, <1>2
<1>4. Tail(p) \in Seq(S) /\ Len(Tail(p)) = Len(rest) /\ \A i \in 1..Len(rest) : Tail(p)[i] = p[i + 1]
  BY <1>1, <1>2, <1>3, HeadTailProperties
<1>5. \A i \in 1..Len(rest) : Tail(p)[i] = rest[i]
  BY <1>1, <1>2, <1>4
<1>6. Tail(p) = rest
  BY <1>4, <1>5, SeqEqual
<1> QED
  BY <1>2, <1>3, <1>6 DEF p

(* Every route planTransit answers with uses only edges of the graph it    *)
(* was asked about and the edge the train is on (planner.ts, planTransit): *)
(* what the scheduler assumes of its planner.                              *)
THEOREM PlanFollowsTheGraph ==
    ASSUME NEW edges \in SUBSET EdgeRef, NEW from \in Marker, NEW to \in Marker,
           NEW heading \in EdgeRef \cup {None}
    PROVE  PlanTransit(edges, from, to, heading) \in Seq(edges \cup ({heading} \ {None}))
<1> DEFINE S == edges \cup ({heading} \ {None})
<1>1. \A p \in Seq(edges) : p \in Seq(S)
  BY SeqMonotonic
<1>2. CASE from = to
  BY <1>2, EmptySeq DEF PlanTransit
<1>3. CASE from # to /\ heading # None /\ From(heading) = from /\ To(heading) # from
  <2> DEFINE rest == Dijkstra(edges, To(heading), to, <<To(heading), from>>, from)
             head == <<from, To(heading)>>
  <2>1. To(heading) \in Marker /\ head = heading /\ head \in S
    BY <1>3 DEF EdgeRef, From, To
  <2>2. rest \in Seq(edges)
    BY <2>1, DijkstraFollowsTheGraph DEF Heads
  <2>3. PlanTransit(edges, from, to, heading) = PlanContinuing(edges, from, to, To(heading))
    BY <1>3 DEF PlanTransit
  <2>4. rest \in Seq(S)
    BY <1>1, <2>2
  <2>5. <<head>> \in Seq(S)
    BY <2>1
  <2>6. <<head>> \o rest \in Seq(S)
    BY <2>1, <2>4, HeadBeforeRest
  <2>7. PlanContinuing(edges, from, to, To(heading)) \in {<<>>, <<head>>, <<head>> \o rest}
    BY DEF PlanContinuing
  <2> HIDE DEF rest, head, S
  <2> QED
    BY <2>3, <2>5, <2>6, <2>7, EmptySeq DEF S
<1>4. CASE from # to /\ heading # None /\ To(heading) = from /\ From(heading) # from
  <2>1. From(heading) \in Marker
    BY <1>4 DEF EdgeRef, From
  <2>2. PlanTransit(edges, from, to, heading)
          = Dijkstra(edges, from, to, <<from, From(heading)>>, From(heading))
    BY <1>4 DEF PlanTransit
  <2>3. Dijkstra(edges, from, to, <<from, From(heading)>>, From(heading)) \in Seq(edges)
    BY <2>1, DijkstraFollowsTheGraph DEF Heads
  <2> QED
    BY <1>1, <2>2, <2>3
<1>5. CASE /\ from # to
           /\ ~(heading # None /\ From(heading) = from /\ To(heading) # from)
           /\ ~(heading # None /\ To(heading) = from /\ From(heading) # from)
  <2>1. PlanTransit(edges, from, to, heading) = Dijkstra(edges, from, to, None, None)
    BY <1>5 DEF PlanTransit
  <2>2. Dijkstra(edges, from, to, None, None) \in Seq(edges)
    BY DijkstraFollowsTheGraph DEF Heads
  <2> QED
    BY <1>1, <2>1, <2>2
<1> QED
  BY <1>2, <1>3, <1>4, <1>5

(* Whatever the graph, its lengths and its turnouts, a plan is a route.    *)
LEMMA PlansAreRoutes ==
    ASSUME NEW edges \in SUBSET EdgeRef, NEW from \in Marker, NEW to \in Marker, from # to,
           NEW heading \in EdgeRef \cup {None},
           heading # None => From(heading) # To(heading) /\ from \in {From(heading), To(heading)},
           PlanTransit(edges, from, to, heading) # <<>>
    PROVE  IsRoute(edges, from, to, heading, PlanTransit(edges, from, to, heading))
<1>1. CASE heading # None /\ From(heading) = from
  <2> DEFINE rest == Dijkstra(edges, To(heading), to, <<To(heading), from>>, from)
             head == <<from, To(heading)>>
  <2>1. To(heading) \in Marker /\ head = heading /\ head \in EdgeRef
    BY <1>1 DEF EdgeRef, From, To
  <2>2. PlanTransit(edges, from, to, heading) = PlanContinuing(edges, from, to, To(heading))
    BY <1>1 DEF PlanTransit
  <2>3. CASE To(heading) = to
    <3>1. PlanTransit(edges, from, to, heading) = <<head>>
      BY <2>2, <2>3 DEF PlanContinuing
    <3> QED
      BY <1>1, <2>1, <2>3, <3>1 DEF IsRoute
  <2>4. CASE To(heading) # to
    <3>1. rest # <<>> /\ PlanTransit(edges, from, to, heading) = <<head>> \o rest
      BY <2>2, <2>4 DEF PlanContinuing
    <3>2. IsRun(edges, To(heading), to, from, rest)
      BY <2>1, <3>1, DijkstraFindsRuns DEF Heads
    <3>3. rest \in Seq(EdgeRef)
      BY <3>2, SeqMonotonic DEF IsRun
    <3> HIDE DEF rest, head
    <3>4. <<head>> \o rest # <<>> /\ (<<head>> \o rest)[1] = head /\ Tail(<<head>> \o rest) = rest
      BY <2>1, <3>3, HeadBeforeRest
    <3> QED
      BY <1>1, <2>1, <2>4, <3>1, <3>2, <3>4 DEF IsRoute
  <2> QED
    BY <2>3, <2>4
<1>2. CASE heading # None /\ From(heading) # from
  <2>1. To(heading) = from /\ From(heading) \in Marker
    BY <1>2 DEF EdgeRef, From
  <2>2. PlanTransit(edges, from, to, heading)
          = Dijkstra(edges, from, to, <<from, From(heading)>>, From(heading))
    BY <1>2, <2>1 DEF PlanTransit
  <2>3. IsRun(edges, from, to, From(heading), PlanTransit(edges, from, to, heading))
    BY <2>1, <2>2, DijkstraFindsRuns DEF Heads
  <2> QED
    BY <1>2, <2>3 DEF IsRoute
<1>3. CASE heading = None
  <2>1. PlanTransit(edges, from, to, heading) = Dijkstra(edges, from, to, None, None)
    BY <1>3 DEF PlanTransit
  <2>2. IsRun(edges, from, to, None, PlanTransit(edges, from, to, heading))
    BY <2>1, DijkstraFindsRuns DEF Heads
  <2> QED
    BY <1>3, <2>2 DEF IsRoute
<1> QED
  BY <1>1, <1>2, <1>3

(* A question stays a question. *)
LEMMA QueryStays ==
    Spec => [](query \in Queries)
<1>1. Init => query \in Queries
  BY DEF Init
<1>2. query \in Queries /\ [Next]_query => (query \in Queries)'
  <2> SUFFICES ASSUME query \in Queries, [Next]_query
               PROVE  query' \in Queries
    OBVIOUS
  <2>1. CASE Next
    <3>1. PICK m \in Marker \ {query.from} : query' = [query EXCEPT !.to = m]
      BY <2>1 DEF Next
    <3> QED
      BY <3>1 DEF Queries
  <2>2. CASE query' = query
    BY <2>2
  <2> QED
    BY <2>1, <2>2
<1> QED
  BY <1>1, <1>2, PTL DEF Spec

(* On every railway, whatever it asks and wherever the train is under way, *)
(* a scheduler is answered with a route the train may take: it goes on     *)
(* along the edge the train is on, never turns round, never crosses a      *)
(* turnout from leg to leg, comes back to no marker, and ends at the stop  *)
(* (planner.ts, planTransit).                                              *)
THEOREM RoutesAreLegal == Spec => []RouteIsLegal
<1>1. query \in Queries => RouteIsLegal
  <2> SUFFICES ASSUME query \in Queries, Route # <<>>
               PROVE  IsRoute(query.edges, query.from, query.to, query.heading, Route)
    BY DEF RouteIsLegal
  <2>1. /\ query.edges \in SUBSET EdgeRef /\ query.from \in Marker /\ query.to \in Marker
        /\ query.heading \in EdgeRef \cup {None} /\ query.from # query.to
        /\ query.heading # None => /\ From(query.heading) # To(query.heading)
                                   /\ query.from \in {From(query.heading), To(query.heading)}
    BY GraphAssumption DEF Queries
  <2> QED
    BY <2>1, PlansAreRoutes DEF Route
<1> QED
  BY <1>1, QueryStays, PTL

-----------------------------------------------------------------------------
(* The loop ends.                                                          *)

Lowest(s) == PopLowestCost(s.frontier)

(* The loop is over: nothing left to pop, or the target is popped. *)
Over(s, to) == s.frontier = {} \/ (~IsStale(s, Lowest(s)) /\ Lowest(s).marker = to)

(* Edges that may still bring an entry to the frontier. *)
Untried(edges, s) == {e \in edges : ~Settled(s, From(e))}

(* A turn that is not the last uses up an entry, and brings at most one    *)
(* for each edge it tries.                                                 *)
LEMMA TurnsAreUsedUp ==
    ASSUME NEW edges \in SUBSET EdgeRef, NEW from \in Marker, NEW to, NEW forbidden, NEW start,
           NEW s, SearchInv(edges, from, forbidden, start, s),
           IsFiniteSet(s.frontier), ~Over(s, to),
           NEW n, n = Turn(edges, to, forbidden, start, s)
    PROVE  /\ IsFiniteSet(n.frontier)
           /\ Cardinality(n.frontier) + Cardinality(Untried(edges, n)) + 1
                <= Cardinality(s.frontier) + Cardinality(Untried(edges, s))
<1> DEFINE current == Lowest(s)
           popped == [s EXCEPT !.frontier = @ \ {current}]
           rest == s.frontier \ {current}
<1>1. s \in SearchState /\ s.frontier # {}
  BY DEF SearchInv, Over
<1>2. current \in s.frontier /\ \A g \in s.frontier : current.cost <= g.cost
  BY <1>1, CheapestEntry DEF Lowest
<1>3. IsFiniteSet(rest) /\ Cardinality(rest) \in Nat /\ Cardinality(s.frontier) = Cardinality(rest) + 1
  <2> HIDE DEF current
  <2>1. /\ IsFiniteSet(s.frontier \ {current})
        /\ Cardinality(s.frontier \ {current}) = Cardinality(s.frontier) - 1
    BY <1>2, FS_RemoveElement
  <2>2. Cardinality(s.frontier) \in Nat /\ Cardinality(s.frontier \ {current}) \in Nat
    BY <2>1, FS_CardinalityType
  <2> QED
    BY <2>1, <2>2
<1>4. \A X \in SUBSET edges : IsFiniteSet(X) /\ Cardinality(X) \in Nat
  <2>1. IsFiniteSet(EdgeRef)
    BY GraphAssumption, FS_Product DEF EdgeRef
  <2> QED
    BY <2>1, FS_Subset, FS_CardinalityType
<1>5. \A t : Untried(edges, t) \in SUBSET edges
  BY DEF Untried
<1>6. CASE IsStale(s, current)
  <2>1. n = popped
    BY <1>1, <1>6 DEF Turn, Lowest
  <2>2. n.best = s.best /\ n.frontier = rest
    BY <1>1, <2>1 DEF SearchState
  <2>3. \A m : Settled(n, m) <=> Settled(s, m)
    BY <1>6, <2>2 DEF Settled, IsStale, Reached
  <2>4. Untried(edges, n) = Untried(edges, s)
    BY <2>3 DEF Untried
  <2>5. Cardinality(Untried(edges, s)) \in Nat
    BY <1>4, <1>5
  <2> HIDE DEF rest
  <2> QED
    BY <1>3, <2>2, <2>4, <2>5
<1>7. CASE ~IsStale(s, current)
  <2>1. current.marker # to
    BY <1>7 DEF Over
  <2>2. n = RelaxNeighbours(edges, popped, current, forbidden, start)
    BY <1>1, <1>7, <2>1 DEF Turn, Lowest
  <2> HIDE DEF current
  <2>3. PICK imp, cost : /\ AreImproved(imp, s, edges, forbidden, start, current, cost)
                         /\ IsRelaxed(n, s, imp, current, cost)
                         /\ n \in SearchState
    <3> DEFINE m == RelaxNeighbours(edges, popped, current, forbidden, start)
    <3>1. \E imp, cost : /\ AreImproved(imp, s, edges, forbidden, start, current, cost)
                         /\ IsRelaxed(m, s, imp, current, cost)
                         /\ m \in SearchState
      BY <1>1, <1>2, Relaxing
    <3>2. n = m
      BY <2>2
    <3> HIDE DEF m
    <3> QED
      BY <3>1, <3>2
  <2>4. \A m \in Marker : Settled(n, m) <=> Settled(s, m) \/ m = current.marker
    BY <1>2, <1>7, <2>3, SettledAfterRelaxing
  <2>5. ~Settled(s, current.marker)
    <3>1. s.best[current.marker] <= current.cost /\ current.marker \in Reached(s)
      BY <1>2 DEF SearchInv, Shaped
    <3>2. ~(s.best[current.marker] < current.cost)
      <4>1. s.best[current.marker] \in Nat /\ current.cost \in Nat
        BY <1>1, <1>2, <3>1, SearchParts
      <4> QED
        BY <1>7, <4>1 DEF IsStale
    <3> QED
      BY <1>2, <3>2 DEF Settled
  <2> DEFINE tried == {e \in edges : From(e) = current.marker}
             new == {[marker |-> m, cost |-> cost[m]] : m \in imp}
             f == [e \in tried |-> [marker |-> To(e), cost |-> cost[To(e)]]]
             image == {f[e] : e \in tried}
  <2>6. new \subseteq image
    <3>1. SUFFICES ASSUME NEW m \in imp
                   PROVE  [marker |-> m, cost |-> cost[m]] \in image
      OBVIOUS
    <3>2. <<current.marker, m>> \in tried /\ To(<<current.marker, m>>) = m
      BY <2>3 DEF AreImproved, From, To
    <3>3. f[<<current.marker, m>>] = [marker |-> m, cost |-> cost[m]]
      BY <3>2
    <3> QED
      BY <3>2, <3>3
  <2>7. IsFiniteSet(tried) /\ Cardinality(tried) \in Nat
    BY <1>4
  <2>8. IsFiniteSet(image) /\ Cardinality(image) \in Nat /\ Cardinality(image) <= Cardinality(tried)
    <3>1. f \in Surjection(tried, image)
      BY DEF Surjection
    <3> HIDE DEF f, image, tried
    <3> QED
      BY <2>7, <3>1, FS_Surjection, FS_CardinalityType
  <2>9. IsFiniteSet(new) /\ Cardinality(new) \in Nat /\ Cardinality(new) <= Cardinality(tried)
    <3> HIDE DEF new, image, tried
    <3> QED
      BY <2>6, <2>7, <2>8, FS_Subset, FS_CardinalityType
  <2>10. n.frontier = rest \cup new
    BY <2>3 DEF IsRelaxed
  <2>11. /\ Untried(edges, s) = Untried(edges, n) \cup tried
         /\ Untried(edges, n) \cap tried = {}
    <3>1. \A e \in edges : From(e) \in Marker
      BY DEF EdgeRef, From
    <3> QED
      BY <2>4, <2>5, <3>1 DEF Untried
  <2> HIDE DEF tried, new, image, rest
  <2>12. /\ IsFiniteSet(n.frontier) /\ Cardinality(n.frontier) \in Nat
         /\ Cardinality(n.frontier) <= Cardinality(rest) + Cardinality(new)
    <3>1. /\ IsFiniteSet(rest \cup new)
          /\ Cardinality(rest \cup new)
                = Cardinality(rest) + Cardinality(new) - Cardinality(rest \cap new)
      BY <1>3, <2>9, FS_Union
    <3>2. Cardinality(rest \cap new) \in Nat
      BY <1>3, FS_Intersection, FS_CardinalityType
    <3>3. Cardinality(rest \cup new) \in Nat
      BY <3>1, FS_CardinalityType
    <3> QED
      BY <1>3, <2>9, <2>10, <3>1, <3>2, <3>3
  <2>13. Cardinality(Untried(edges, s)) = Cardinality(Untried(edges, n)) + Cardinality(tried)
    <3>1. IsFiniteSet(Untried(edges, n)) /\ Cardinality(Untried(edges, n)) \in Nat
      BY <1>4, <1>5
    <3> QED
      <4>1. Cardinality(Untried(edges, n) \cup tried)
              = Cardinality(Untried(edges, n)) + Cardinality(tried)
                - Cardinality(Untried(edges, n) \cap tried)
        BY <2>7, <3>1, FS_Union
      <4>2. Cardinality(Untried(edges, n) \cap tried) = 0
        BY <2>11, FS_EmptySet
      <4> QED
        BY <2>7, <2>11, <3>1, <4>1, <4>2
  <2>14. Cardinality(Untried(edges, n)) \in Nat
    BY <1>4, <1>5
  <2> QED
    BY <1>3, <2>7, <2>9, <2>12, <2>13, <2>14
<1> QED
  BY <1>6, <1>7

(* When the loop has had its turns, it is over. *)
LEMMA LoopIsOver ==
    ASSUME NEW edges \in SUBSET EdgeRef, NEW from \in Marker, NEW to, NEW forbidden, NEW start
    PROVE  Over(Searched(edges, from, to, forbidden, start), to)
<1> DEFINE turns == Cardinality(edges) + 1
           size(s) == Cardinality(s.frontier) + Cardinality(Untried(edges, s))
           inv(s) == SearchInv(edges, from, forbidden, start, s)
<1>1. PICK g : /\ g[0] = SearchStart(from)
               /\ \A i \in 1..turns : g[i] = Turn(edges, to, forbidden, start, g[i - 1])
               /\ \A i \in 0..turns : inv(g[i])
               /\ Searched(edges, from, to, forbidden, start) = g[turns]
  BY SearchByTurns
<1>2. turns \in Nat
  BY GraphIsFinite
<1>3. ASSUME NEW s
      PROVE  Cardinality(Untried(edges, s)) \in Nat /\ Cardinality(Untried(edges, s)) <= Cardinality(edges)
  <2>1. IsFiniteSet(edges)
    BY GraphIsFinite
  <2>2. Untried(edges, s) \subseteq edges
    BY DEF Untried
  <2> QED
    BY <2>1, <2>2, FS_Subset, FS_CardinalityType
<1> DEFINE T == {i \in 0..turns : /\ IsFiniteSet(g[i].frontier)
                                  /\ Over(g[i], to) \/ size(g[i]) + i <= turns}
<1>4. 0 \in T
  <2>1. g[0].frontier = {[marker |-> from, cost |-> 0]}
    BY <1>1 DEF SearchStart
  <2>2. IsFiniteSet(g[0].frontier) /\ Cardinality(g[0].frontier) = 1
    BY <2>1, FS_Singleton
  <2> QED
    BY <1>2, <1>3, <2>2, GraphIsFinite
<1>5. ASSUME NEW i \in 1..turns, i - 1 \in T
      PROVE  i \in T
  <2>1. i - 1 \in 0..turns /\ i \in 0..turns
    BY <1>2
  <2>2. inv(g[i - 1]) /\ IsFiniteSet(g[i - 1].frontier)
        /\ g[i] = Turn(edges, to, forbidden, start, g[i - 1])
    BY <1>1, <1>5, <2>1
  <2>3. CASE Over(g[i - 1], to)
    <3>1. g[i] = g[i - 1]
      BY <2>2, <2>3 DEF Turn, Over, Lowest
    <3> QED
      BY <2>1, <2>2, <2>3, <3>1
  <2>4. CASE ~Over(g[i - 1], to)
    <3>1. IsFiniteSet(g[i].frontier) /\ size(g[i]) + 1 <= size(g[i - 1])
      BY <2>2, <2>4, TurnsAreUsedUp
    <3>2. size(g[i - 1]) + (i - 1) <= turns
      BY <1>5, <2>4
    <3>3. size(g[i]) \in Nat /\ size(g[i - 1]) \in Nat
      BY <1>3, <2>2, <3>1, FS_CardinalityType
    <3> HIDE DEF size, turns
    <3>4. size(g[i]) + i <= turns
      BY <1>2, <3>1, <3>2, <3>3
    <3> QED
      BY <2>1, <3>1, <3>4
  <2> QED
    BY <2>3, <2>4
<1> HIDE DEF T
<1>6. turns \in T
  BY <1>2, <1>4, <1>5, LoopInduction
<1>7. IsFiniteSet(g[turns].frontier) /\ (Over(g[turns], to) \/ size(g[turns]) + turns <= turns)
  BY <1>6 DEF T
<1>8. Cardinality(g[turns].frontier) \in Nat /\ Cardinality(Untried(edges, g[turns])) \in Nat
  BY <1>3, <1>7, FS_CardinalityType
<1>9. Over(g[turns], to) \/ Cardinality(g[turns].frontier) = 0
  BY <1>2, <1>7, <1>8
<1>10. Cardinality(g[turns].frontier) = 0 => g[turns].frontier = {}
  BY <1>7, FS_EmptySet
<1> QED
  BY <1>1, <1>9, <1>10 DEF Over

-----------------------------------------------------------------------------
(* What the loop finds on plain track.                                     *)

(* Every way on from a settled marker is known at no more than its cost.   *)
Explored(edges, s, forbidden) ==
    \A m, x \in Marker :
        Settled(s, m) /\ <<m, x>> \in edges \ {forbidden} =>
            x \in Reached(s) /\ s.best[x] <= s.best[m] + Cost(<<m, x>>)

(* A turn keeps it so: a move from leg to leg could only lead back to      *)
(* where the search came from.                                             *)
LEMMA TurnExplores ==
    ASSUME NEW edges \in SUBSET EdgeRef, NEW from \in Marker, NEW to, NEW forbidden, NEW start,
           PlainTrack(edges), Heads(from, forbidden, start),
           NEW s, SearchInv(edges, from, forbidden, start, s), Explored(edges, s, forbidden),
           NEW n, n = Turn(edges, to, forbidden, start, s)
    PROVE  Explored(edges, n, forbidden)
<1> DEFINE current == Lowest(s)
           popped == [s EXCEPT !.frontier = @ \ {current}]
<1>1. s \in SearchState
  BY DEF SearchInv
<1>2. CASE Over(s, to)
  BY <1>2 DEF Turn, Over, Lowest
<1>3. CASE ~Over(s, to) /\ IsStale(s, current)
  <2>1. n = popped
    BY <1>3 DEF Turn, Lowest, Over
  <2>2. n.best = s.best /\ n.frontier = s.frontier \ {current}
    BY <1>1, <2>1 DEF SearchState
  <2>3. \A m : Settled(n, m) <=> Settled(s, m)
    BY <1>3, <2>2 DEF Settled, IsStale, Reached
  <2> QED
    BY <2>2, <2>3 DEF Explored, Reached
<1>4. CASE ~Over(s, to) /\ ~IsStale(s, current)
  <2>1. current \in s.frontier /\ \A g \in s.frontier : current.cost <= g.cost
    BY <1>1, <1>4, CheapestEntry DEF Lowest, Over
  <2>2. n = RelaxNeighbours(edges, popped, current, forbidden, start)
    BY <1>4 DEF Turn, Lowest, Over
  <2> HIDE DEF current
  <2>3. PICK imp, cost : /\ AreImproved(imp, s, edges, forbidden, start, current, cost)
                         /\ IsRelaxed(n, s, imp, current, cost)
                         /\ n \in SearchState
    <3> DEFINE m == RelaxNeighbours(edges, popped, current, forbidden, start)
    <3>1. \E imp, cost : /\ AreImproved(imp, s, edges, forbidden, start, current, cost)
                         /\ IsRelaxed(m, s, imp, current, cost)
                         /\ m \in SearchState
      BY <1>1, <2>1, Relaxing
    <3>2. n = m
      BY <2>2
    <3> HIDE DEF m
    <3> QED
      BY <3>1, <3>2
  <2>4. /\ current.marker \in Reached(s) /\ current.marker \notin imp
        /\ s.best[current.marker] = current.cost
        /\ \A m \in imp : ~Settled(s, m) /\ m # from
        /\ \A m \in Marker : Settled(n, m) <=> Settled(s, m) \/ m = current.marker
    BY <1>4, <2>1, <2>3, SettledAfterRelaxing
  <2>5. /\ Reached(s) \subseteq Marker /\ s.best \in [Reached(s) -> Nat]
        /\ current.marker \in Marker /\ current.cost \in Nat
    BY <1>1, <2>1, SearchParts
  <2>6. /\ \A m \in Reached(s) \ imp : m \in Reached(n) /\ n.best[m] = s.best[m]
        /\ \A m \in imp : /\ m \in Reached(n) /\ n.best[m] = cost[m] /\ cost[m] \in Nat
                          /\ cost[m] = current.cost + Cost(<<current.marker, m>>)
                          /\ m \in Reached(s) => cost[m] < s.best[m]
    BY <2>3 DEF IsRelaxed, AreImproved
  <2>7. ASSUME NEW m \in Reached(s)
        PROVE  m \in Reached(n) /\ n.best[m] <= s.best[m] /\ n.best[m] \in Nat
    <3>1. s.best[m] \in Nat
      BY <2>5
    <3>2. CASE m \in imp
      <4>1. cost[m] \in Nat /\ cost[m] < s.best[m] /\ n.best[m] = cost[m] /\ m \in Reached(n)
        BY <2>6, <3>2
      <4> QED
        BY <3>1, <4>1
    <3>3. CASE m \notin imp
      BY <2>6, <3>1, <3>3
    <3> QED
      BY <3>2, <3>3
  <2>8. ASSUME NEW m \in Marker, NEW x \in Marker, Settled(s, m), <<m, x>> \in edges \ {forbidden}
        PROVE  x \in Reached(n) /\ n.best[x] <= n.best[m] + Cost(<<m, x>>)
    <3>1. x \in Reached(s) /\ s.best[x] <= s.best[m] + Cost(<<m, x>>)
      BY <2>8 DEF Explored
    <3>2. m \in Reached(s) /\ m \notin imp
      BY <2>4, <2>8 DEF Settled
    <3>3. n.best[m] = s.best[m] /\ s.best[m] \in Nat /\ s.best[x] \in Nat
      BY <2>5, <2>6, <3>1, <3>2
    <3>4. Cost(<<m, x>>) \in Nat
      BY <2>8, CostIsNatural
    <3>5. x \in Reached(n) /\ n.best[x] <= s.best[x] /\ n.best[x] \in Nat
      BY <2>7, <3>1
    <3> QED
      BY <3>1, <3>3, <3>4, <3>5
  <2>9. ASSUME NEW x \in Marker, <<current.marker, x>> \in edges \ {forbidden}
        PROVE  x \in Reached(n) /\ n.best[x] <= current.cost + Cost(<<current.marker, x>>)
    <3> DEFINE k == Cost(<<current.marker, x>>)
    <3>1. k \in Nat
      BY <2>9, CostIsNatural
    <3>2. CASE x \in imp
      BY <2>5, <2>6, <3>1, <3>2
    <3>3. ASSUME x \in Reached(s), s.best[x] <= current.cost + k
          PROVE  x \in Reached(n) /\ n.best[x] <= current.cost + k
      BY <2>5, <2>7, <3>1, <3>3
    <3>4. CASE /\ x \notin imp
               /\ IsLegToLegMove(edges, current.marker, ArrivedFrom(s, current.marker, start), x)
      <4> DEFINE a == ArrivedFrom(s, current.marker, start)
      <4>1. a # None /\ <<current.marker, a>> \in edges \cap DOMAIN Switched
            /\ <<current.marker, x>> \in edges \cap DOMAIN Switched
        BY <3>4 DEF IsLegToLegMove, IsSwitchedLeg
      <4>2. a = x
        <5>1. <<current.marker, a>> = <<current.marker, x>>
          BY <4>1 DEF PlainTrack, From
        <5> QED
          BY <5>1
      <4>3. current.marker # from
        <5>1. SUFFICES ASSUME current.marker = from
                       PROVE  FALSE
          OBVIOUS
        <5>2. a = start
          BY <5>1 DEF ArrivedFrom, SearchInv, Shaped
        <5>3. forbidden = <<from, start>>
          BY <4>1, <5>2 DEF Heads
        <5> QED
          BY <2>9, <4>2, <5>1, <5>2, <5>3
      <4>4. current.marker \in DOMAIN s.cameFrom
        BY <2>4, <4>3 DEF SearchInv, Shaped
      <4>5. Settled(s, x)
        BY <4>2, <4>4 DEF ArrivedFrom, SearchInv, Moves, Move
      <4>6. x \in Reached(s) /\ s.best[x] <= current.cost
        BY <2>1, <4>5 DEF SearchInv, Ahead, Settled
      <4>7. s.best[x] <= current.cost + k
        BY <2>5, <3>1, <4>6
      <4> QED
        BY <3>3, <4>6, <4>7
    <3>5. CASE x \in Reached(s) /\ s.best[x] <= current.cost + k
      BY <3>3, <3>5
    <3> QED
      BY <2>3, <2>9, <3>2, <3>4, <3>5 DEF AreImproved
  <2>10. n.best[current.marker] = current.cost
    BY <2>4, <2>6
  <2> QED
    BY <2>4, <2>8, <2>9, <2>10 DEF Explored
<1> QED
  BY <1>2, <1>3, <1>4

(* The loop has explored what it has settled. *)
LEMMA LoopExplores ==
    ASSUME NEW edges \in SUBSET EdgeRef, NEW from \in Marker, NEW to, NEW forbidden, NEW start,
           PlainTrack(edges), Heads(from, forbidden, start)
    PROVE  Explored(edges, Searched(edges, from, to, forbidden, start), forbidden)
<1> DEFINE turns == Cardinality(edges) + 1
           inv(s) == SearchInv(edges, from, forbidden, start, s)
<1>1. PICK g : /\ g[0] = SearchStart(from)
               /\ \A i \in 1..turns : g[i] = Turn(edges, to, forbidden, start, g[i - 1])
               /\ \A i \in 0..turns : inv(g[i])
               /\ Searched(edges, from, to, forbidden, start) = g[turns]
  BY SearchByTurns
<1>2. turns \in Nat
  BY GraphIsFinite
<1> DEFINE T == {i \in 0..turns : Explored(edges, g[i], forbidden)}
<1>3. 0 \in T
  <2>1. g[0].best = [x \in {from} |-> 0] /\ g[0].frontier = {[marker |-> from, cost |-> 0]}
    BY <1>1 DEF SearchStart
  <2>2. \A m : ~Settled(g[0], m)
    BY <2>1 DEF Settled, Reached
  <2> QED
    BY <1>2, <2>2 DEF Explored
<1>4. ASSUME NEW i \in 1..turns, i - 1 \in T
      PROVE  i \in T
  <2>1. i - 1 \in 0..turns /\ i \in 0..turns
    BY <1>2
  <2>2. inv(g[i - 1]) /\ Explored(edges, g[i - 1], forbidden)
        /\ g[i] = Turn(edges, to, forbidden, start, g[i - 1])
    BY <1>1, <1>4, <2>1
  <2>3. Explored(edges, g[i], forbidden)
    BY <2>2, TurnExplores
  <2> QED
    BY <2>1, <2>3
<1> HIDE DEF T
<1>5. turns \in T
  BY <1>2, <1>3, <1>4, LoopInduction
<1> QED
  BY <1>1, <1>5 DEF T

(* Length adds up the edges one by one. *)
LEMMA LengthIsSum ==
    ASSUME NEW p \in Seq(EdgeRef)
    PROVE  \E g \in [0..Len(p) -> Nat] :
              /\ g[0] = 0 /\ \A i \in 1..Len(p) : g[i] = g[i - 1] + Cost(p[i])
              /\ Length(p) = g[Len(p)]
<1> DEFINE F == [i \in Nat |-> [x \in Nat |-> IF i \in 1..Len(p) THEN x + Cost(p[i]) ELSE x]]
           IsSum(g) == g = [i \in 0..Len(p) |-> IF i = 0 THEN 0 ELSE g[i - 1] + Cost(p[i])]
           chosen == CHOOSE g : IsSum(g)
<1>1. Len(p) \in Nat /\ \A i \in 1..Len(p) : p[i] \in EdgeRef /\ Cost(p[i]) \in Nat
  BY LenProperties, ElementOfSeq, CostIsNatural
<1>2. F \in [Nat -> [Nat -> Nat]]
  BY <1>1
<1>3. Length(p) = chosen[Len(p)]
  BY DEF Length
<1>4. \E g : IsSum(g)
  <2>1. PICK g \in [0..Len(p) -> Nat] : IsLoop(g, Len(p), 0, F)
    BY <1>1, <1>2, LoopExists
  <2>2. ASSUME NEW i \in 1..Len(p)
        PROVE  g[i] = g[i - 1] + Cost(p[i])
    <3>1. g[i - 1] \in Nat /\ i \in Nat
      <4>1. i - 1 \in 0..Len(p) /\ i \in Nat
        BY <1>1
      <4> QED
        BY <4>1
    <3>2. g[i] = F[i][g[i - 1]]
      BY <2>1 DEF IsLoop
    <3> QED
      BY <3>1, <3>2
  <2>3. g[0] = 0
    BY <2>1 DEF IsLoop
  <2> QED
    BY <1>1, <2>2, <2>3
<1>5. IsSum(chosen)
  BY <1>4
<1> HIDE DEF chosen, F
<1>6. chosen[0] = 0 /\ \A i \in 1..Len(p) : chosen[i] = chosen[i - 1] + Cost(p[i])
  BY <1>1, <1>5
<1>7. ASSUME NEW k \in 0..Len(p)
      PROVE  chosen[k] \in Nat
  <2> DEFINE T == {i \in 0..k : chosen[i] \in Nat}
  <2>1. 0 \in T
    BY <1>6
  <2>2. ASSUME NEW i \in 1..k, i - 1 \in T
        PROVE  i \in T
    <3>1. i \in 1..Len(p) /\ i \in 0..k
      BY <1>1
    <3>2. chosen[i] = chosen[i - 1] + Cost(p[i]) /\ Cost(p[i]) \in Nat
      BY <1>1, <1>6, <3>1
    <3> QED
      BY <2>2, <3>1, <3>2
  <2> HIDE DEF T
  <2>3. k \in T
    BY <1>1, <2>1, <2>2, LoopInduction
  <2> QED
    BY <2>3 DEF T
<1>8. chosen \in [0..Len(p) -> Nat]
  BY <1>5, <1>7
<1> QED
  BY <1>3, <1>6, <1>8

(* A trail from the source costs what the search says of its end. *)
LEMMA TrailCosts ==
    ASSUME NEW edges \in SUBSET EdgeRef, NEW from \in Marker, NEW to, NEW forbidden, NEW start,
           NEW s, SearchInv(edges, from, forbidden, start, s),
           NEW r, NEW p, IsTrail(s, r, to, p), From(p[1]) = from
    PROVE  Length(p) = s.best[to]
<1>1. /\ p \in Seq(EdgeRef) /\ p # <<>> /\ Len(p) \in Nat /\ Len(p) >= 1
      /\ To(p[Len(p)]) = to
      /\ \A i \in 1..Len(p) : To(p[i]) \in DOMAIN s.cameFrom
                              /\ p[i] = <<s.cameFrom[To(p[i])], To(p[i])>>
      /\ \A i \in 1..(Len(p) - 1) : From(p[i + 1]) = To(p[i])
  <2>1. p \in Seq(EdgeRef) /\ p # <<>>
    BY DEF IsTrail
  <2>2. Len(p) \in Nat /\ Len(p) >= 1
    BY <2>1, EmptySeq, LenProperties
  <2> QED
    BY <2>1, <2>2 DEF IsTrail
<1>2. PICK g \in [0..Len(p) -> Nat] :
              /\ g[0] = 0 /\ \A i \in 1..Len(p) : g[i] = g[i - 1] + Cost(p[i])
              /\ Length(p) = g[Len(p)]
  BY <1>1, LengthIsSum
<1>3. \A i \in 1..Len(p) : s.best[To(p[i])] = s.best[From(p[i])] + Cost(p[i])
  <2>1. SUFFICES ASSUME NEW i \in 1..Len(p)
                 PROVE  s.best[To(p[i])] = s.best[From(p[i])] + Cost(p[i])
    OBVIOUS
  <2>2. p[i] = <<s.cameFrom[To(p[i])], To(p[i])>> /\ To(p[i]) \in DOMAIN s.cameFrom
    BY <1>1
  <2>3. From(p[i]) = s.cameFrom[To(p[i])]
    BY <2>2 DEF From
  <2>4. Move(edges, s, forbidden, start, To(p[i]))
    BY <2>2 DEF SearchInv, Moves
  <2> QED
    BY <2>2, <2>3, <2>4 DEF Move
<1>4. s.best[from] = 0
  BY DEF SearchInv, Shaped
<1> DEFINE T == {i \in 0..Len(p) : i >= 1 => g[i] = s.best[To(p[i])]}
<1>5. 0 \in T
  BY <1>1
<1>6. ASSUME NEW i \in 1..Len(p), i - 1 \in T
      PROVE  i \in T
  <2>1. g[i] = g[i - 1] + Cost(p[i])
    BY <1>2
  <2>2. g[i - 1] = s.best[From(p[i])]
    <3>1. CASE i = 1
      BY <1>2, <1>4, <3>1
    <3>2. CASE i # 1
      <4>1. i - 1 >= 1 /\ i - 1 \in 1..(Len(p) - 1) /\ (i - 1) + 1 = i
        BY <1>1, <3>2
      <4>2. From(p[i]) = To(p[i - 1])
        BY <1>1, <4>1
      <4> QED
        BY <1>6, <4>1, <4>2
    <3> QED
      BY <3>1, <3>2
  <2> QED
    BY <1>1, <1>3, <2>1, <2>2
<1> HIDE DEF T
<1>7. Len(p) \in T
  BY <1>1, <1>5, <1>6, LoopInduction
<1> QED
  BY <1>1, <1>2, <1>7 DEF T

(* A marker the search has reached is settled, or the target is cheaper. *)
LEMMA SettledOrDearer ==
    ASSUME NEW edges, NEW from, NEW to, NEW forbidden, NEW start,
           NEW s, SearchInv(edges, from, forbidden, start, s), Over(s, to),
           NEW x \in Reached(s)
    PROVE  Settled(s, x) \/ (to \in Reached(s) /\ s.best[to] <= s.best[x])
<1>1. SUFFICES ASSUME ~Settled(s, x)
               PROVE  to \in Reached(s) /\ s.best[to] <= s.best[x]
  OBVIOUS
<1>2. s \in SearchState
  BY DEF SearchInv
<1>3. PICK f \in s.frontier : f.marker = x /\ ~(s.best[x] < f.cost)
  BY <1>1 DEF Settled
<1>4. Lowest(s) \in s.frontier /\ Lowest(s).cost <= f.cost /\ Lowest(s).marker = to
  BY <1>2, <1>3, CheapestEntry DEF Lowest, Over
<1>5. to \in Reached(s) /\ s.best[to] <= Lowest(s).cost
  BY <1>4 DEF SearchInv, Shaped
<1>6. /\ s.best[to] \in Nat /\ s.best[x] \in Nat
      /\ Lowest(s).cost \in Nat /\ f.cost \in Nat
  BY <1>2, <1>3, <1>4, <1>5, SearchParts
<1> QED
  BY <1>3, <1>4, <1>5, <1>6

(* No run to the target is cheaper than what the search knows of it. *)
LEMMA SearchIsCheapest ==
    ASSUME NEW edges \in SUBSET EdgeRef, NEW from \in Marker, NEW to \in Marker,
           NEW forbidden, NEW start, PlainTrack(edges), Heads(from, forbidden, start),
           NEW s, s = Searched(edges, from, to, forbidden, start),
           NEW p, IsRun(edges, from, to, start, p)
    PROVE  to \in Reached(s) /\ s.best[to] <= Length(p)
<1>1. SearchInv(edges, from, forbidden, start, s) /\ Over(s, to) /\ Explored(edges, s, forbidden)
  BY SearchIsSound, LoopIsOver, LoopExplores
<1>2. /\ p \in Seq(edges) /\ p \in Seq(EdgeRef) /\ Len(p) \in Nat /\ Len(p) >= 1
      /\ DOMAIN p = 1..Len(p) /\ To(p[Len(p)]) = to
  BY SeqMonotonic, EmptySeq, LenProperties DEF IsRun
<1>3. PICK g \in [0..Len(p) -> Nat] :
              /\ g[0] = 0 /\ \A i \in 1..Len(p) : g[i] = g[i - 1] + Cost(p[i])
              /\ Length(p) = g[Len(p)]
  BY <1>2, LengthIsSum
<1>4. s \in SearchState /\ s.best \in [Reached(s) -> Nat]
  BY <1>1, SearchParts DEF SearchInv
<1> DEFINE at(i) == IF i = 0 THEN from ELSE To(p[i])
<1>5. ASSUME NEW i \in 1..Len(p)
      PROVE  /\ p[i] = <<at(i - 1), at(i)>> /\ p[i] \in edges \ {forbidden}
             /\ at(i - 1) \in Marker /\ at(i) \in Marker /\ Cost(p[i]) \in Nat
  <2>1. p[i] \in edges /\ p[i] \in EdgeRef
    BY <1>2, ElementOfSeq
  <2>2. From(p[i]) \in Marker /\ To(p[i]) \in Marker /\ p[i] = <<From(p[i]), To(p[i])>>
    BY <2>1 DEF EdgeRef, From, To
  <2>3. CASE i = 1
    <3>1. From(p[1]) = from /\ To(p[1]) # start
      BY DEF IsRun, MayLeave
    <3>2. p[1] # forbidden
      BY <2>1, <2>2, <2>3, <3>1, GraphAssumption DEF Heads
    <3> QED
      BY <2>1, <2>2, <2>3, <3>1, <3>2, CostIsNatural
  <2>4. CASE i # 1
    <3>1. i - 1 \in 1..(Len(p) - 1) /\ i - 1 \in DOMAIN p /\ (i - 1) + 1 = i /\ i - 1 # 0
      BY <1>2, <2>4
    <3>2. MayLeave(edges, To(p[i - 1]), From(p[i - 1]), p[i])
      BY <3>1 DEF IsRun
    <3>3. From(p[i]) = To(p[i - 1]) /\ To(p[i - 1]) # from
      BY <3>1, <3>2 DEF IsRun, MayLeave
    <3>4. p[i] # forbidden
      BY <2>1, <2>2, <3>3, GraphAssumption DEF Heads
    <3> QED
      BY <1>2, <2>1, <2>2, <3>1, <3>3, <3>4, CostIsNatural
  <2> QED
    BY <2>3, <2>4
<1> DEFINE found(i) == to \in Reached(s) /\ s.best[to] <= g[i]
           T == {i \in 0..Len(p) : found(i) \/ (Settled(s, at(i)) /\ s.best[at(i)] <= g[i])}
<1>6. ASSUME NEW i \in 0..Len(p), at(i) \in Reached(s), s.best[at(i)] <= g[i]
      PROVE  i \in T
  <2>1. CASE Settled(s, at(i))
    BY <1>6, <2>1
  <2>2. CASE to \in Reached(s) /\ s.best[to] <= s.best[at(i)]
    <3>1. s.best[to] \in Nat /\ s.best[at(i)] \in Nat /\ g[i] \in Nat
      BY <1>3, <1>4, <1>6, <2>2
    <3>2. found(i)
      BY <1>6, <2>2, <3>1
    <3> QED
      BY <3>2
  <2> HIDE DEF at, T
  <2> QED
    BY <1>1, <1>6, <2>1, <2>2, SettledOrDearer
<1>7. 0 \in T
  <2>1. at(0) = from /\ from \in Reached(s) /\ s.best[from] = 0 /\ g[0] = 0
    BY <1>1, <1>3 DEF SearchInv, Shaped
  <2> QED
    BY <1>2, <1>6, <2>1
<1>8. ASSUME NEW i \in 1..Len(p), i - 1 \in T
      PROVE  i \in T
  <2>1. i \in 0..Len(p) /\ i - 1 \in 0..Len(p)
    BY <1>2
  <2>2. g[i] = g[i - 1] + Cost(p[i]) /\ g[i - 1] \in Nat /\ g[i] \in Nat /\ Cost(p[i]) \in Nat
    BY <1>3, <1>5, <2>1
  <2>3. CASE found(i - 1)
    <3>1. s.best[to] \in Nat
      BY <1>4, <2>3
    <3>2. found(i)
      BY <2>2, <2>3, <3>1
    <3> QED
      BY <2>1, <3>2
  <2>4. CASE Settled(s, at(i - 1)) /\ s.best[at(i - 1)] <= g[i - 1]
    <3>1. <<at(i - 1), at(i)>> \in edges \ {forbidden} /\ at(i - 1) \in Marker /\ at(i) \in Marker
          /\ Cost(<<at(i - 1), at(i)>>) = Cost(p[i])
      BY <1>5
    <3> HIDE DEF at, T, found
    <3>2. at(i) \in Reached(s) /\ s.best[at(i)] <= s.best[at(i - 1)] + Cost(p[i])
      BY <1>1, <2>4, <3>1 DEF Explored
    <3>3. s.best[at(i)] \in Nat /\ s.best[at(i - 1)] \in Nat
      BY <1>4, <2>4, <3>2 DEF Settled
    <3>4. s.best[at(i)] <= g[i]
      BY <2>2, <2>4, <3>2, <3>3
    <3> QED
      BY <1>6, <2>1, <3>2, <3>4
  <2> QED
    BY <1>8, <2>3, <2>4
<1>9. Len(p) \in T
  <2> HIDE DEF T
  <2> QED
    BY <1>2, <1>7, <1>8, LoopInduction
<1>10. at(Len(p)) = to
  BY <1>2
<1> QED
  BY <1>3, <1>9, <1>10 DEF Settled

(* On plain track Dijkstra's answer is there when there is a run, and no   *)
(* run is shorter.                                                         *)
LEMMA DijkstraIsCheapest ==
    ASSUME NEW edges \in SUBSET EdgeRef, NEW from \in Marker, NEW to \in Marker, from # to,
           NEW forbidden, NEW start, PlainTrack(edges), Heads(from, forbidden, start),
           NEW p, IsRun(edges, from, to, start, p)
    PROVE  /\ Dijkstra(edges, from, to, forbidden, start) # <<>>
           /\ Length(Dijkstra(edges, from, to, forbidden, start)) <= Length(p)
<1> DEFINE s == Searched(edges, from, to, forbidden, start)
           q == ReconstructTransit(s.cameFrom, from, to)
<1>1. to \in Reached(s) /\ s.best[to] <= Length(p)
  BY SearchIsCheapest
<1>2. SearchInv(edges, from, forbidden, start, s)
  BY SearchIsSound
<1>3. Dijkstra(edges, from, to, forbidden, start) = q
  BY <1>1 DEF Dijkstra, Reached
<1> HIDE DEF s
<1>4. PICK r : IsRank(r, s)
  BY <1>2 DEF SearchInv, Ranked
<1>5. s \in SearchState /\ Shaped(s, from) /\ to \in DOMAIN s.cameFrom
      /\ \A m \in DOMAIN s.cameFrom : s.cameFrom[m] \in Reached(s)
  BY <1>1, <1>2 DEF SearchInv, Shaped, Moves, Move, Settled
<1>6. IsTrail(s, r, to, q) /\ From(q[1]) = from
  BY <1>4, <1>5, TransitIsTrail
<1> HIDE DEF q
<1>7. Length(q) = s.best[to]
  BY <1>2, <1>6, TrailCosts
<1>8. q # <<>>
  BY <1>6 DEF IsTrail
<1> QED
  BY <1>1, <1>3, <1>7, <1>8

-----------------------------------------------------------------------------
(* The enumeration of the routes.                                          *)

(* A run of one edge more. *)
LEMMA RunGrows ==
    ASSUME NEW edges \in SUBSET EdgeRef, NEW from \in Marker, NEW start,
           NEW p, IsRun(edges, from, To(p[Len(p)]), start, p),
           NEW e \in edges, MayLeave(edges, To(p[Len(p)]), From(p[Len(p)]), e),
           To(e) # From(p[1]), \A i \in DOMAIN p : To(e) # To(p[i])
    PROVE  LET q == Append(p, e) IN IsRun(edges, from, To(q[Len(q)]), start, q)
<1> DEFINE q == Append(p, e)
<1>1. p \in Seq(edges) /\ p # <<>>
  BY DEF IsRun
<1>2. Len(p) \in Nat /\ Len(p) >= 1 /\ DOMAIN p = 1..Len(p)
  BY <1>1, EmptySeq, LenProperties
<1>3. /\ q \in Seq(edges) /\ Len(q) = Len(p) + 1 /\ DOMAIN q = 1..(Len(p) + 1)
      /\ \A i \in 1..Len(p) : q[i] = p[i]
      /\ q[Len(p) + 1] = e
  BY <1>1, <1>2, AppendProperties, LenProperties
<1> HIDE DEF q
<1>4. /\ MayLeave(edges, from, start, p[1])
      /\ \A i \in 1..(Len(p) - 1) : MayLeave(edges, To(p[i]), From(p[i]), p[i + 1])
      /\ \A i \in 1..Len(p) : /\ To(p[i]) # from
                              /\ \A j \in 1..Len(p) \ {i} : To(p[i]) # To(p[j])
  BY <1>2 DEF IsRun
<1>5. From(p[1]) = from
  BY <1>4 DEF MayLeave
<1>6. q # <<>> /\ q[1] = p[1]
  BY <1>2, <1>3
<1>7. ASSUME NEW i \in 1..Len(p)
      PROVE  MayLeave(edges, To(q[i]), From(q[i]), q[i + 1])
  <2>1. q[i] = p[i]
    BY <1>3
  <2>2. CASE i = Len(p)
    BY <1>3, <2>1, <2>2
  <2>3. CASE i # Len(p)
    <3>1. Len(p) \in Nat /\ i \in Nat /\ 1 <= i /\ i <= Len(p)
      BY <1>2
    <3>2. i \in 1..(Len(p) - 1) /\ i + 1 \in 1..Len(p)
      BY <2>3, <3>1
    <3> QED
      BY <1>3, <1>4, <2>1, <3>2
  <2> QED
    BY <2>2, <2>3
<1>8. ASSUME NEW i \in DOMAIN q
      PROVE  To(q[i]) # from /\ \A j \in DOMAIN q \ {i} : To(q[i]) # To(q[j])
  <2>1. \A k \in DOMAIN q : \/ k \in 1..Len(p) /\ q[k] = p[k]
                            \/ k = Len(p) + 1 /\ q[k] = e
    BY <1>2, <1>3
  <2> QED
    BY <1>2, <1>4, <1>5, <2>1
<1>9. IsRun(edges, from, To(q[Len(q)]), start, q)
  <2>1. Len(q) - 1 = Len(p)
    BY <1>2, <1>3
  <2> QED
    BY <1>3, <1>4, <1>6, <1>7, <1>8, <2>1 DEF IsRun
<1> QED
  BY <1>9 DEF q

IsGrowth(g, n, first, edges) ==
    g = [i \in 0..n |-> IF i = 0 THEN first ELSE Longer(edges, g[i - 1])]

(* What Runs enumerates are runs. *)
LEMMA RunsAreRuns ==
    ASSUME NEW edges \in SUBSET EdgeRef, NEW from \in Marker, NEW start,
           NEW p \in Runs(edges, from, start)
    PROVE  IsRun(edges, from, To(p[Len(p)]), start, p)
<1> DEFINE good(x) == IsRun(edges, from, To(x[Len(x)]), start, x)
           All == {x \in Seq(edges) : good(x)}
           first == {<<e>> : e \in {x \in edges : MayLeave(edges, from, start, x) /\ To(x) # from}}
           next(R) == Longer(edges, R)
           n == Cardinality(Marker)
           F == [i \in Nat |-> [R \in SUBSET All |-> next(R)]]
           chosen == CHOOSE g : IsGrowth(g, n, first, edges)
<1>1. n \in Nat
  BY GraphAssumption, FS_CardinalityType
<1>2. first \in SUBSET All
  <2>1. SUFFICES ASSUME NEW e \in edges, MayLeave(edges, from, start, e), To(e) # from
                 PROVE  <<e>> \in All
    OBVIOUS
  <2> DEFINE x == <<e>>
  <2>2. x \in Seq(edges) /\ x # <<>> /\ Len(x) = 1 /\ x[1] = e /\ DOMAIN x = {1}
    OBVIOUS
  <2> HIDE DEF x
  <2>3. \A i \in 1..(Len(x) - 1) : FALSE
    BY <2>2
  <2>4. good(x)
    BY <2>1, <2>2, <2>3 DEF IsRun
  <2> QED
    BY <2>2, <2>4 DEF x
<1>3. ASSUME NEW R \in SUBSET All
      PROVE  next(R) \in SUBSET All
  <2>1. ASSUME NEW x \in R, NEW e \in edges,
               MayLeave(edges, To(Last(x)), From(Last(x)), e),
               To(e) \notin {From(x[1])} \cup {To(x[i]) : i \in DOMAIN x}
        PROVE  Append(x, e) \in All
    <3>1. x \in Seq(edges) /\ good(x) /\ Last(x) = x[Len(x)]
      BY DEF Last
    <3>2. Append(x, e) \in Seq(edges)
      BY <3>1, AppendProperties
    <3>3. good(Append(x, e))
      BY <2>1, <3>1, RunGrows
    <3> QED
      BY <3>2, <3>3
  <2>2. ASSUME NEW y \in Longer(edges, R)
        PROVE  \/ y \in R
               \/ \E x \in R : \E e \in edges :
                      /\ MayLeave(edges, To(Last(x)), From(Last(x)), e)
                      /\ To(e) \notin {From(x[1])} \cup {To(x[i]) : i \in DOMAIN x}
                      /\ y = Append(x, e)
    BY DEF Longer
  <2> HIDE DEF All
  <2>3. ASSUME NEW y \in Longer(edges, R), y \notin R
        PROVE  y \in All
    <3>1. PICK x \in R, e \in edges :
                 /\ MayLeave(edges, To(Last(x)), From(Last(x)), e)
                 /\ To(e) \notin {From(x[1])} \cup {To(x[i]) : i \in DOMAIN x}
                 /\ y = Append(x, e)
      BY <2>2, <2>3
    <3> QED
      BY <2>1, <3>1
  <2> QED
    BY <2>3
<1>4. Runs(edges, from, start) = chosen[n]
  BY DEF Runs, IsGrowth
<1>5. \E g : IsGrowth(g, n, first, edges)
  <2> HIDE DEF All, first, next, n
  <2>1. F \in [Nat -> [SUBSET All -> SUBSET All]]
    BY <1>3
  <2>2. PICK g \in [0..n -> SUBSET All] : IsLoop(g, n, first, F)
    BY <1>1, <1>2, <2>1, LoopExists
  <2>3. ASSUME NEW i \in 1..n
        PROVE  g[i] = next(g[i - 1])
    <3>1. i - 1 \in 0..n /\ i \in Nat
      BY <1>1
    <3>2. g[i - 1] \in SUBSET All
      BY <3>1
    <3>3. g[i] = F[i][g[i - 1]]
      BY <2>2 DEF IsLoop
    <3> QED
      BY <3>1, <3>2, <3>3
  <2>4. g[0] = first
    BY <2>2 DEF IsLoop
  <2>5. g = [i \in 0..n |-> IF i = 0 THEN first ELSE next(g[i - 1])]
    BY <1>1, <2>2, <2>3, <2>4
  <2> QED
    BY <2>5 DEF IsGrowth, next
<1>6. IsGrowth(chosen, n, first, edges)
  BY <1>5
<1> HIDE DEF chosen, first, n, All, next
<1>7. chosen[0] = first /\ \A i \in 1..n : chosen[i] = next(chosen[i - 1])
  BY <1>1, <1>6 DEF IsGrowth, next
<1> DEFINE T == {i \in 0..n : chosen[i] \in SUBSET All}
<1>8. 0 \in T
  BY <1>1, <1>2, <1>7
<1>9. \A i \in 1..n : i - 1 \in T => i \in T
  BY <1>1, <1>3, <1>7
<1> HIDE DEF T
<1>10. n \in T
  BY <1>1, <1>8, <1>9, LoopInduction
<1> QED
  BY <1>4, <1>10 DEF T, All

(* One edge more in front is its cost more. *)
LEMMA LengthOfHeadAndRest ==
    ASSUME NEW e \in EdgeRef, NEW p \in Seq(EdgeRef)
    PROVE  Length(<<e>> \o p) = Cost(e) + Length(p) /\ Length(p) \in Nat
<1> DEFINE q == <<e>> \o p
<1>1. Len(p) \in Nat
  BY LenProperties
<1>2. q \in Seq(EdgeRef) /\ Len(q) = Len(p) + 1 /\ q[1] = e /\ \A i \in 1..Len(p) : q[i + 1] = p[i]
  <2>1. <<e>> \in Seq(EdgeRef) /\ Len(<<e>>) = 1 /\ <<e>>[1] = e
    OBVIOUS
  <2>2. /\ q \in Seq(EdgeRef) /\ Len(q) = 1 + Len(p)
        /\ \A i \in 1..Len(q) : q[i] = IF i <= 1 THEN <<e>>[i] ELSE p[i - 1]
    BY <2>1, ConcatProperties
  <2> HIDE DEF q
  <2> QED
    BY <1>1, <2>1, <2>2
<1> HIDE DEF q
<1>3. PICK g \in [0..Len(p) -> Nat] :
              /\ g[0] = 0 /\ \A i \in 1..Len(p) : g[i] = g[i - 1] + Cost(p[i])
              /\ Length(p) = g[Len(p)]
  BY LengthIsSum
<1>4. PICK h \in [0..Len(q) -> Nat] :
              /\ h[0] = 0 /\ \A i \in 1..Len(q) : h[i] = h[i - 1] + Cost(q[i])
              /\ Length(q) = h[Len(q)]
  BY <1>2, LengthIsSum
<1>5. Cost(e) \in Nat
  BY CostIsNatural
<1> DEFINE T == {i \in 0..Len(p) : h[i + 1] = Cost(e) + g[i]}
<1>6. 0 \in T
  <2>1. 1 \in 1..Len(q)
    BY <1>1, <1>2
  <2>2. h[1] = h[1 - 1] + Cost(q[1])
    BY <1>4, <2>1
  <2> QED
    BY <1>1, <1>2, <1>3, <1>4, <1>5, <2>2
<1>7. ASSUME NEW i \in 1..Len(p), i - 1 \in T
      PROVE  i \in T
  <2>1. i + 1 \in 1..Len(q) /\ i \in 0..Len(p) /\ i - 1 \in 0..Len(p)
        /\ (i + 1) - 1 = i /\ (i - 1) + 1 = i
    BY <1>1, <1>2
  <2>2. h[i + 1] = h[(i + 1) - 1] + Cost(q[i + 1])
    BY <1>4, <2>1
  <2>3. q[i + 1] = p[i] /\ Cost(p[i]) \in Nat
    BY <1>2, ElementOfSeq, CostIsNatural
  <2>4. h[i] = Cost(e) + g[i - 1]
    BY <1>7, <2>1
  <2>5. g[i] = g[i - 1] + Cost(p[i]) /\ g[i - 1] \in Nat
    BY <1>3, <2>1
  <2>6. h[i + 1] = Cost(e) + g[i]
    BY <1>5, <2>1, <2>2, <2>3, <2>4, <2>5
  <2> QED
    BY <2>1, <2>6
<1> HIDE DEF T
<1>8. Len(p) \in T
  BY <1>1, <1>6, <1>7, LoopInduction
<1>9. h[Len(p) + 1] = Cost(e) + g[Len(p)]
  BY <1>8 DEF T
<1>10. g[Len(p)] \in Nat
  BY <1>1, <1>3
<1> QED
  BY <1>2, <1>3, <1>4, <1>9, <1>10 DEF q

(* On plain track a plan is there when there is a route, and no route is   *)
(* shorter.                                                                *)
LEMMA PlansAreShortest ==
    ASSUME NEW edges \in SUBSET EdgeRef, NEW from \in Marker, NEW to \in Marker, from # to,
           NEW heading \in EdgeRef \cup {None}, PlainTrack(edges),
           heading # None => From(heading) # To(heading) /\ from \in {From(heading), To(heading)},
           NEW p \in LegalRoutes(edges, from, to, heading)
    PROVE  /\ PlanTransit(edges, from, to, heading) # <<>>
           /\ Length(PlanTransit(edges, from, to, heading)) <= Length(p)
<1>1. ASSUME NEW m \in Marker, NEW arrived, NEW x \in RunsTo(edges, m, to, arrived)
      PROVE  IsRun(edges, m, to, arrived, x)
  <2>1. x \in Runs(edges, m, arrived) /\ To(x[Len(x)]) = to
    BY DEF RunsTo, Last
  <2> QED
    BY <2>1, RunsAreRuns
<1>2. CASE heading # None /\ From(heading) = from
  <2> DEFINE rest == Dijkstra(edges, To(heading), to, <<To(heading), from>>, from)
             head == <<from, To(heading)>>
  <2>1. To(heading) \in Marker /\ head = heading /\ head \in EdgeRef
    BY <1>2 DEF EdgeRef, From, To
  <2>2. PlanTransit(edges, from, to, heading) = PlanContinuing(edges, from, to, To(heading))
    BY <1>2 DEF PlanTransit
  <2>3. CASE To(heading) = to
    <3>1. PlanTransit(edges, from, to, heading) = <<head>> /\ p = <<head>>
      BY <1>2, <2>1, <2>2, <2>3 DEF PlanContinuing, LegalRoutes
    <3>2. <<head>> \in Seq(EdgeRef) /\ Len(<<head>>) \in Nat /\ <<head>> # <<>>
      BY <2>1
    <3>3. Length(<<head>>) \in Nat
      <4> HIDE DEF head
      <4>1. PICK g \in [0..Len(<<head>>) -> Nat] : Length(<<head>>) = g[Len(<<head>>)]
        BY <3>2, LengthIsSum
      <4> QED
        BY <3>2, <4>1
    <3> HIDE DEF head
    <3> QED
      BY <3>1, <3>2, <3>3
  <2>4. CASE To(heading) # to
    <3>1. PICK x \in RunsTo(edges, To(heading), to, from) : p = <<heading>> \o x
      BY <1>2, <2>4 DEF LegalRoutes
    <3>2. IsRun(edges, To(heading), to, from, x)
      BY <1>1, <2>1, <3>1
    <3>3. rest # <<>> /\ Length(rest) <= Length(x)
      BY <2>1, <2>4, <3>2, DijkstraIsCheapest DEF Heads
    <3>4. PlanTransit(edges, from, to, heading) = <<head>> \o rest
      BY <2>2, <2>4, <3>3 DEF PlanContinuing
    <3>5. IsRun(edges, To(heading), to, from, rest)
      BY <2>1, <3>3, DijkstraFindsRuns DEF Heads
    <3>6. rest \in Seq(EdgeRef) /\ x \in Seq(EdgeRef)
      BY <3>2, <3>5, SeqMonotonic DEF IsRun
    <3> HIDE DEF rest, head
    <3>7. /\ Length(<<head>> \o rest) = Cost(head) + Length(rest) /\ Length(rest) \in Nat
          /\ Length(<<head>> \o x) = Cost(head) + Length(x) /\ Length(x) \in Nat
          /\ Cost(head) \in Nat
      BY <2>1, <3>6, LengthOfHeadAndRest, CostIsNatural
    <3>8. <<head>> \o rest # <<>>
      BY <2>1, <3>6, HeadBeforeRest
    <3>9. p = <<head>> \o x
      BY <2>1, <3>1
    <3> QED
      BY <3>3, <3>4, <3>7, <3>8, <3>9
  <2> QED
    BY <2>3, <2>4
<1>3. CASE heading # None /\ From(heading) # from
  <2>1. To(heading) = from /\ From(heading) \in Marker
    BY <1>3 DEF EdgeRef, From
  <2>2. PlanTransit(edges, from, to, heading)
          = Dijkstra(edges, from, to, <<from, From(heading)>>, From(heading))
    BY <1>3, <2>1 DEF PlanTransit
  <2>3. p \in RunsTo(edges, from, to, From(heading))
    BY <1>3 DEF LegalRoutes
  <2> QED
    BY <1>1, <2>1, <2>2, <2>3, DijkstraIsCheapest DEF Heads
<1>4. CASE heading = None
  <2>1. PlanTransit(edges, from, to, heading) = Dijkstra(edges, from, to, None, None)
    BY <1>4 DEF PlanTransit
  <2>2. p \in RunsTo(edges, from, to, None)
    BY <1>4 DEF LegalRoutes
  <2> QED
    BY <1>1, <2>1, <2>2, DijkstraIsCheapest DEF Heads
<1> QED
  BY <1>2, <1>3, <1>4

(* On every railway whose turnouts have one leg each, the planner answers  *)
(* whenever the train may take a route (planner.ts, planTransit: null      *)
(* means unreachable).                                                     *)
THEOREM RoutesAreFound == Spec => []RouteIsFoundOnPlainTrack
<1>1. query \in Queries => RouteIsFoundOnPlainTrack
  <2> SUFFICES ASSUME query \in Queries, PlainTrack(query.edges), NEW p \in Legal
               PROVE  Route # <<>>
    BY DEF RouteIsFoundOnPlainTrack
  <2>1. /\ query.edges \in SUBSET EdgeRef /\ query.from \in Marker /\ query.to \in Marker
        /\ query.heading \in EdgeRef \cup {None} /\ query.from # query.to
        /\ query.heading # None => /\ From(query.heading) # To(query.heading)
                                   /\ query.from \in {From(query.heading), To(query.heading)}
    BY GraphAssumption DEF Queries
  <2> QED
    BY <2>1, PlansAreShortest DEF Route, Legal
<1> QED
  BY <1>1, QueryStays, PTL

(* And no route the train may take is shorter than the answer (planner.ts, *)
(* dijkstra).                                                              *)
THEOREM RoutesAreShortest == Spec => []RouteIsCheapestOnPlainTrack
<1>1. query \in Queries => RouteIsCheapestOnPlainTrack
  <2> SUFFICES ASSUME query \in Queries, PlainTrack(query.edges), NEW p \in Legal
               PROVE  Length(Route) <= Length(p)
    BY DEF RouteIsCheapestOnPlainTrack
  <2>1. /\ query.edges \in SUBSET EdgeRef /\ query.from \in Marker /\ query.to \in Marker
        /\ query.heading \in EdgeRef \cup {None} /\ query.from # query.to
        /\ query.heading # None => /\ From(query.heading) # To(query.heading)
                                   /\ query.from \in {From(query.heading), To(query.heading)}
    BY GraphAssumption DEF Queries
  <2> QED
    BY <2>1, PlansAreShortest DEF Route, Legal
<1> QED
  BY <1>1, QueryStays, PTL
=============================================================================
