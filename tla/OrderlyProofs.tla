---------------------------- MODULE OrderlyProofs ---------------------------
(***************************************************************************)
(* What the scheduler promises in an orderly world: trains keep to a way   *)
(* and hold it without gaps, nobody waits for what is free, the deadlock   *)
(* banner tells the truth, and points are set for whoever passes them.     *)
(***************************************************************************)
EXTENDS Orderly, SchedulerProofs

-----------------------------------------------------------------------------
(* What is true of one train in such a world: of its record r, and of the  *)
(* blocks S that it holds.                                                 *)

(* It has no part in zones, nothing before its first schedule, and its     *)
(* length is the announced one, if any.                                    *)
Plain(t, r, S) ==
    /\ r.in_zone = None /\ r.entry = None
    /\ r.length \in {0, TrainLength[t]}
    /\ r.stops = <<>> => r.transit = <<>> /\ S = {} /\ r.last = None /\ r.current = None

(* It is at the start of a block of its way, or at the end of it.          *)
Place(r) == IF UnderWay(r) THEN From(r.transit[r.progress]) ELSE To(r.transit[Len(r.transit)])

OnItsWay(r) ==
    /\ IsWay(r.transit)
    /\ r.progress <= Len(r.transit) + 1
    /\ r.transit # <<>> => r.last = Place(r)
    /\ r.dwelling => ~UnderWay(r)
    /\ ~UnderWay(r) /\ r.current # None => r.last # None /\ From(r.current) # r.last

(* It holds what is ahead of it without a gap, and at most one block       *)
(* behind it, that which ends where it is.                                 *)
HoldsInOrder(r, S) ==
    /\ \A i \in DOMAIN r.transit : i >= r.progress /\ r.transit[i] \in S =>
           \A k \in r.progress..i : r.transit[k] \in S
    /\ \A x \in S \ AheadOf(r) : To(x) = r.last
    /\ \A x, y \in S \ AheadOf(r) : x = y
    /\ r.length = 0 => S \subseteq AheadOf(r)

Fit(t, r, S) == Plain(t, r, S) /\ OnItsWay(r) /\ HoldsInOrder(r, S)

Fitting == \A t \in Train : Fit(t, trains[t], cleared[t])

(* Nobody is held, nothing denies, and no train is known that has not      *)
(* registered.                                                             *)
Quiet ==
    /\ known = Declared /\ devices = {} /\ boundary = [m \in Marker |-> None]
    /\ held = [t \in Train |-> FALSE]
    /\ \A t \in Train \ Registered : trains[t] = InitialTrainState
    /\ \A t \in Registered : trains[t].length = TrainLength[t]

(* A handler plans one train, or goes on to a pass over the trains.        *)
Pass(S) == RetryTask(S, None)

InShape ==
    \/ agenda = <<>>
    \/ \E t \in Train : agenda = <<PlanTask(t)>> /\ ~InTransit(t) /\ ~trains[t].dwelling
    \/ \E t \in Train, S \in SUBSET Train : agenda = <<ExtendTask(t), Pass(S)>>
    \/ \E S \in SUBSET Train : agenda = <<Pass(S)>>

Orderly == Fitting /\ Quiet /\ InShape

-----------------------------------------------------------------------------
(* Ways.                                                                   *)

(* The blocks of a way also start at different markers.                    *)
LEMMA WayStarts ==
    ASSUME NEW R, IsWay(R), NEW i \in DOMAIN R, NEW j \in DOMAIN R, From(R[i]) = From(R[j])
    PROVE  i = j
<1>1. R \in Seq(Declared) /\ Len(R) \in Nat /\ DOMAIN R = 1..Len(R)
  BY DEF IsWay
<1>2. \A k \in DOMAIN R : k # 1 => k - 1 \in DOMAIN R /\ From(R[k]) = To(R[k - 1])
  <2> TAKE k \in DOMAIN R
  <2> HAVE k # 1
  <2>1. k - 1 \in DOMAIN R /\ (k - 1) + 1 = k
    BY <1>1
  <2> QED
    BY <2>1 DEF IsWay
<1>3. CASE i = 1 /\ j # 1
  BY <1>2, <1>3 DEF IsWay
<1>4. CASE j = 1 /\ i # 1
  BY <1>2, <1>4 DEF IsWay
<1>5. CASE i # 1 /\ j # 1
  <2>1. i - 1 = j - 1
    BY <1>2, <1>5 DEF IsWay
  <2> QED
    BY <1>1, <2>1
<1> QED
  BY <1>3, <1>4, <1>5

(* A train whose record says the same of all that matters fits as well.    *)
LEMMA FitsAsWell ==
    ASSUME NEW t, NEW r, NEW s, NEW S, Fit(t, r, S),
           s.in_zone = r.in_zone, s.entry = r.entry, s.length = r.length, s.stops = r.stops,
           s.transit = r.transit, s.last = r.last, s.current = r.current,
           s.progress = r.progress, s.dwelling = r.dwelling
    PROVE  Fit(t, s, S)
  BY DEF Fit, Plain, OnItsWay, HoldsInOrder, UnderWay, AheadOf, Place

(* What lies between the head of a train and a block ahead of it.          *)
LEMMA WaitingHoldsNothingAhead ==
    ASSUME NEW r \in TrainState, NEW S, HoldsInOrder(r, S), UnderWay(r), r.transit[r.progress] \notin S
    PROVE  \A x \in S : x \notin AheadOf(r) /\ To(x) = r.last
<1>1. r.progress \in Nat /\ r.transit \in Seq(Block)
  BY DEF TrainState
<1>2. ASSUME NEW i \in DOMAIN r.transit, i >= r.progress, r.transit[i] \in S
      PROVE  FALSE
  <2>1. r.progress \in r.progress..i
    BY <1>1, <1>2
  <2> QED
    BY <1>2, <2>1 DEF HoldsInOrder
<1> QED
  BY <1>2 DEF AheadOf, HoldsInOrder

(* A step changes the record and the holding of one train.                 *)
LEMMA OneFits ==
    ASSUME Fitting, NEW t \in Train, Fit(t, trains'[t], cleared'[t]),
           \A u \in Train \ {t} : trains'[u] = trains[u] /\ cleared'[u] = cleared[u]
    PROVE  Fitting'
  BY DEF Fitting

(* What extendClearanceHorizon does to one train: it adds blocks of its    *)
(* way, each next to what the train held, and changes nothing of its       *)
(* record but the limit.                                                   *)
LEMMA WalkAdds ==
    ASSUME TypeOK, NEW t \in Train, ExtendClearanceHorizon(t)
    PROVE  /\ \A u \in Train \ {t} : trains'[u] = trains[u] /\ cleared'[u] = cleared[u]
           /\ \E x : trains'[t] = [trains[t] EXCEPT !.limit = x]
           /\ \E n \in SUBSET DOMAIN trains[t].transit :
                /\ cleared'[t] = cleared[t] \cup {trains[t].transit[i] : i \in n}
                /\ \A i \in n :
                     /\ i >= trains[t].progress
                     /\ \A k \in trains[t].progress..i : trains[t].transit[k] \in cleared'[t]
<1> DEFINE r == trains[t]
<1>1. PICK h \in HORIZON_EDGES..HORIZON_MAX_EDGES :
        /\ cleared' = [cleared EXCEPT ![t] = @ \cup {r.transit[i] : i \in NewlyGranted(t, h)}]
        /\ \/ UNCHANGED trains
           \/ \E last \in NewlyGranted(t, h) :
                trains' = [trains EXCEPT ![t].limit = To(r.transit[last])]
  BY DEF ExtendClearanceHorizon
<1>2. /\ r \in TrainState /\ r.transit \in Seq(Block) /\ r.progress \in Nat \ {0}
      /\ cleared'[t] = cleared[t] \cup {r.transit[i] : i \in NewlyGranted(t, h)}
  BY <1>1 DEF TypeOK, TrainsOK, TrainState
<1>3. r = [r EXCEPT !.limit = r.limit]
  BY <1>2 DEF TrainState
<1>4. \E x : trains'[t] = [r EXCEPT !.limit = x]
  BY <1>1, <1>3 DEF TypeOK, TrainsOK
<1>5. NewlyGranted(t, h) \subseteq DOMAIN r.transit
  BY DEF NewlyGranted, Walked
<1>6. ASSUME NEW i \in NewlyGranted(t, h)
      PROVE  /\ i >= r.progress
             /\ \A k \in r.progress..i : r.transit[k] \in cleared'[t]
  <2>0. i \in Walked(t, h)
    BY <1>6 DEF NewlyGranted
  <2>1. /\ i \in DOMAIN r.transit /\ i \in Nat /\ i >= r.progress /\ i < r.progress + h
        /\ \A k \in r.progress..(i - 1) :
              r.transit[k] \in cleared[t] \/ Grantable(t, r.transit[k])
    <3>1. /\ i \in DOMAIN r.transit /\ r.progress <= i /\ i < r.progress + h
          /\ \A k \in r.progress..(i - 1) :
                r.transit[k] \in cleared[t] \/ Grantable(t, r.transit[k])
      BY <2>0 DEF Walked
    <3> HIDE DEF r
    <3>2. i \in Nat /\ i >= r.progress
      BY <1>2, <3>1
    <3> QED
      BY <3>1, <3>2
  <2>2. ASSUME NEW k \in r.progress..i, k # i, r.transit[k] \notin cleared[t]
        PROVE  k \in NewlyGranted(t, h)
    <3> HIDE DEF r
    <3>4. h \in Nat
      BY HorizonAssumption
    <3>5. k \in Int /\ k >= r.progress /\ k < i
      BY <1>2, <2>1, <2>2
    <3>1. k \in Nat /\ k \in r.progress..(i - 1) /\ k \in DOMAIN r.transit /\ k < r.progress + h
      BY <1>2, <2>1, <3>4, <3>5
    <3> USE DEF r
    <3>2. Grantable(t, r.transit[k])
      BY <2>1, <2>2, <3>1
    <3>3. \A m \in r.progress..(k - 1) : r.transit[m] \in cleared[t] \/ Grantable(t, r.transit[m])
      BY <1>2, <2>1, <3>1
    <3> QED
      BY <2>2, <3>1, <3>2, <3>3 DEF NewlyGranted, Walked
  <2> QED
    BY <1>2, <1>6, <2>1, <2>2
<1>7. \A u \in Train \ {t} : trains'[u] = trains[u] /\ cleared'[u] = cleared[u]
  BY <1>1 DEF TypeOK, TrainsOK
<1> QED
  BY <1>2, <1>4, <1>5, <1>6, <1>7

(* A walk leaves a train with clearance without gaps.                      *)
LEMMA WalkFits ==
    ASSUME TypeOK, Fitting, NEW t \in Train, ExtendClearanceHorizon(t)
    PROVE  Fitting'
<1> DEFINE r == trains[t]
           s == trains'[t]
           S == cleared[t]
           H == cleared'[t]
<1>1. /\ r \in TrainState /\ r.progress \in Nat /\ r.transit \in Seq(Block)
      /\ Fit(t, r, S)
  BY DEF Fitting, TypeOK, TrainsOK, TrainState
<1>2. PICK x : s = [r EXCEPT !.limit = x]
  BY WalkAdds
<1>3. PICK n \in SUBSET DOMAIN r.transit :
        /\ H = S \cup {r.transit[i] : i \in n}
        /\ \A i \in n :
             /\ i >= r.progress
             /\ \A k \in r.progress..i : r.transit[k] \in H
  BY WalkAdds
<1> HIDE DEF r, s, S, H
<1>4. S \subseteq H /\ H \ AheadOf(r) = S \ AheadOf(r) /\ (S \subseteq AheadOf(r) => H \subseteq AheadOf(r))
  BY <1>3 DEF AheadOf
<1>5. ASSUME NEW i \in DOMAIN r.transit, i >= r.progress, r.transit[i] \in H
      PROVE  \A k \in r.progress..i : r.transit[k] \in H
  <2>1. CASE r.transit[i] \in S
    BY <1>1, <1>4, <1>5, <2>1 DEF Fit, HoldsInOrder
  <2>2. ASSUME NEW j \in n, r.transit[i] = r.transit[j]
        PROVE  \A k \in r.progress..i : r.transit[k] \in H
    <3>1. i = j
      BY <1>1, <1>3, <2>2 DEF Fit, OnItsWay, IsWay
    <3> QED
      BY <1>3, <3>1
  <2> QED
    BY <1>3, <1>5, <2>1, <2>2
<1>6. HoldsInOrder(r, H)
  BY <1>1, <1>4, <1>5 DEF Fit, HoldsInOrder
<1>7. H = {} \/ r.stops # <<>>
  <2>1. r.stops = <<>> => S = {} /\ r.transit = <<>>
    BY <1>1 DEF Fit, Plain
  <2> QED
    BY <1>3, <2>1
<1>8. Fit(t, r, H)
  BY <1>1, <1>6, <1>7 DEF Fit, Plain
<1>9. Fit(t, s, H)
  BY <1>1, <1>2, <1>8, FitsAsWell DEF TrainState
<1> QED
  BY <1>9, WalkAdds, OneFits DEF s, H

(* A waiting train holds at most the block it stands at the end of: it has *)
(* nothing to yield, and cannot back out.                                  *)
LEMMA NothingToGiveUp ==
    ASSUME TypeOK, Fitting, NEW c \in WaitsForCycles, NEW v \in Range(c)
    PROVE  ~CanYield(c, v) /\ Retreats(c, v) = {}
<1> DEFINE r == trains[v]
           S == cleared[v]
<1>1. v \in Train /\ v \in CollectWaitingTrains
  BY CyclesAreOfTrains DEF TypeOK
<1>2. /\ r \in TrainState /\ HoldsInOrder(r, S) /\ UnderWay(r) /\ r.transit[r.progress] \notin S
  BY <1>1 DEF CollectWaitingTrains, InTransit, NextEdge, UnderWay, Fitting, Fit, TypeOK, TrainsOK
<1>3. \A x \in S : x \notin AheadOf(r) /\ To(x) = r.last
  BY <1>2, WaitingHoldsNothingAhead
<1>4. ~CanYield(c, v)
  <2>1. \A wanted : Releasable(v, wanted) = {}
    BY <1>3 DEF Releasable
  <2> QED
    BY <2>1 DEF CanYield
<1>5. ASSUME NEW p \in Retreats(c, v)
      PROVE  FALSE
  <2>1. /\ p \in BackwardRuns(S, r.last)
        /\ r.last \notin {From(p[i]) : i \in DOMAIN p}
        /\ ReverseBodyCoveredByHeldTail(v, From(p[Len(p)]), S \ {p[i] : i \in 1..Len(p)})
    BY <1>5 DEF Retreats
  <2>2. PICK n \in 1..Cardinality(S) : p \in [1..n -> S]
    BY <2>1 DEF BackwardRuns
  <2>3. n \in Nat /\ n >= 1 /\ n \in 1..n /\ Len(p) = n /\ p[n] \in S /\ From(p[n]) # r.last
    BY <2>1, <2>2
  <2>4. r.length # 0
    BY <1>2, <1>3, <2>3 DEF HoldsInOrder
  <2> DEFINE kept == S \ {p[i] : i \in 1..Len(p)}
  <2>5. PICK q : q \in BackwardRuns(kept, From(p[n]))
    BY <2>1, <2>3, <2>4 DEF ReverseBodyCoveredByHeldTail
  <2>6. PICK m \in 1..Cardinality(kept) : q \in [1..m -> kept]
    BY <2>5 DEF BackwardRuns
  <2>7. 1 \in 1..m /\ q[1] \in S
    BY <2>6
  <2>8. To(q[1]) = From(p[n])
    BY <2>5 DEF BackwardRuns
  <2> QED
    BY <1>3, <2>3, <2>7, <2>8
<1> QED
  BY <1>4, <1>5

(* So no pass ever takes a block back.                                     *)
LEMMA NobodyIsResolved ==
    ASSUME TypeOK, Fitting, Step
    PROVE  DoPlan \/ DoExtend \/ DoRetry \/ EmitDeadlockState
<1>1. ~TryYieldLowestRanked
  BY NothingToGiveUp DEF TryYieldLowestRanked
<1>2. ~TryReverseToBreakStandoff
  BY NothingToGiveUp DEF TryReverseToBreakStandoff
<1> QED
  BY <1>1, <1>2 DEF Step

-----------------------------------------------------------------------------
(* The agenda.                                                             *)

(* The first task of each agenda, and what comes after it.                 *)
LEMMA FirstOf ==
    ASSUME NEW x, NEW y
    PROVE  /\ Head(<<x>>) = x /\ Tail(<<x>>) = <<>> /\ <<x>> # <<>> /\ <<x>>[1] = x
           /\ Head(<<x, y>>) = x /\ Tail(<<x, y>>) = <<y>> /\ <<x, y>> # <<>> /\ <<x, y>>[1] = x
           /\ <<x, y>> \o <<>> = <<x, y>> /\ <<y>> \o <<>> = <<y>>
  OBVIOUS

(* Tasks are what they are called.                                         *)
LEMMA TaskNames ==
    /\ \A t : PlanTask(t).op = "plan" /\ PlanTask(t).train = t /\ PlanTask(t).pending = {}
    /\ \A t : ExtendTask(t).op = "extend" /\ ExtendTask(t).train = t
    /\ \A S : Pass(S).op = "retry" /\ Pass(S).train = None /\ Pass(S).pending = S
  BY DEF PlanTask, ExtendTask, RetryTask, Pass

(* What is on the agenda when a task of each kind is at its head.          *)
LEMMA AgendaOf ==
    ASSUME InShape, ~Idle
    PROVE  /\ Head(agenda).op \in {"plan", "extend", "retry"}
           /\ Head(agenda).op = "plan" =>
                 \E t \in Train : /\ agenda = <<PlanTask(t)>> /\ Head(agenda).train = t
                                  /\ ~InTransit(t) /\ ~trains[t].dwelling
           /\ Head(agenda).op = "extend" =>
                 \E t \in Train, S \in SUBSET Train :
                    agenda = <<ExtendTask(t), Pass(S)>> /\ Head(agenda).train = t
           /\ Head(agenda).op = "retry" =>
                 \E S \in SUBSET Train :
                    /\ agenda = <<Pass(S)>> /\ Head(agenda).pending = S
                    /\ Head(agenda).train = None
<1>1. CASE \E t \in Train : agenda = <<PlanTask(t)>> /\ ~InTransit(t) /\ ~trains[t].dwelling
  <2>1. PICK t \in Train : agenda = <<PlanTask(t)>> /\ ~InTransit(t) /\ ~trains[t].dwelling
    BY <1>1
  <2> DEFINE x == PlanTask(t)
  <2>2. x.op = "plan" /\ x.train = t /\ agenda = <<x>> /\ Head(agenda) = x
    BY <2>1, TaskNames, FirstOf
  <2> QED
    BY <2>1, <2>2
<1>2. CASE \E t \in Train, S \in SUBSET Train : agenda = <<ExtendTask(t), Pass(S)>>
  <2>1. PICK t \in Train, S \in SUBSET Train : agenda = <<ExtendTask(t), Pass(S)>>
    BY <1>2
  <2> DEFINE x == ExtendTask(t)
  <2>2. x.op = "extend" /\ x.train = t /\ Head(agenda) = x
    BY <2>1, TaskNames, FirstOf
  <2> QED
    BY <2>1, <2>2
<1>3. CASE \E S \in SUBSET Train : agenda = <<Pass(S)>>
  <2>1. PICK S \in SUBSET Train : agenda = <<Pass(S)>>
    BY <1>3
  <2> DEFINE x == Pass(S)
  <2>2. x.op = "retry" /\ x.train = None /\ x.pending = S /\ agenda = <<x>> /\ Head(agenda) = x
    BY <2>1, TaskNames, FirstOf
  <2> QED
    BY <2>1, <2>2
<1> QED
  BY <1>1, <1>2, <1>3 DEF InShape, Idle

(* A retry of all trains is a pass.                                        *)
LEMMA RetryAllIsAPass == TypeOK => RetryAll = Pass(Registered) /\ Registered \in SUBSET Train
  BY RegisteredTrains DEF TypeOK, RetryAll, Pass

-----------------------------------------------------------------------------
(* Planning.                                                               *)

(* A train that is planned holds nothing but what lies behind it.          *)
LEMMA PlanFits ==
    ASSUME PlansAreWays, TypeOK, Orderly, DoPlan
    PROVE  Fitting' /\ InShape'
<1>1. PICK t \in Train :
        /\ agenda = <<PlanTask(t)>> /\ Head(agenda).train = t
        /\ ~InTransit(t) /\ ~trains[t].dwelling
  BY AgendaOf DEF Orderly, DoPlan, Idle
<1> DEFINE r == trains[t]
           S == cleared[t]
           target == r.stops[r.stop]
           heading == IF r.current # None THEN r.current ELSE r.entry
           route == Plan(known, r.last, target, heading)
           a == AheadOf(r)
<1>2. /\ r \in TrainState /\ Coherent(r) /\ r.stops # <<>>
      /\ Fit(t, r, S) /\ ~UnderWay(r) /\ ~r.dwelling
  BY <1>1, FirstTask, TaskNames
     DEF DoPlan, Idle, TypeOK, TrainsOK, Orderly, Fitting, InTransit, UnderWay
<1>3. /\ UNCHANGED cleared
      /\ \/ /\ agenda' = Tail(agenda)
            /\ UNCHANGED trains
         \/ /\ r.last # target /\ route # <<>>
            /\ trains' = [trains EXCEPT ![t].transit = route, ![t].progress = 1,
                                        ![t].limit = From(route[1])]
            /\ agenda' = <<ExtendTask(t), RetryAll>> \o Tail(agenda)
         \/ /\ trains' = [trains EXCEPT ![t].transit = <<>>, ![t].progress = 1,
                                        ![t].limit = r.last]
            /\ agenda' = Tail(agenda)
         \/ /\ trains' = [trains EXCEPT ![t] = Advanced(r)]
            /\ UNCHANGED agenda
  BY <1>1 DEF DoPlan, PlanAndExecuteCurrentTransit
<1>4. a = {} /\ \A x \in S : To(x) = r.last
  <2>1. a = {}
    <3>1. r.progress \in Nat \ {0} /\ r.transit \in Seq(Block)
      BY <1>2 DEF TrainState
    <3> QED
      BY <1>2, <3>1 DEF UnderWay, AheadOf
  <2> QED
    BY <1>2, <2>1 DEF Fit, HoldsInOrder
<1>5. Tail(agenda) = <<>>
  BY <1>1, FirstOf
<1>6. trains = [trains EXCEPT ![t] = r] /\ trains \in [Train -> TrainState]
  BY DEF TypeOK, TrainsOK
<1>7. \A x, y \in S : x = y
  BY <1>2, <1>4 DEF Fit, HoldsInOrder
<1>8. r.length = 0 => S = {}
  BY <1>2, <1>4 DEF Fit, HoldsInOrder
<1>9. CASE agenda' = Tail(agenda) /\ UNCHANGED trains
  BY <1>3, <1>5, <1>9 DEF Orderly, Fitting, InShape
<1>10. ASSUME r.last # target, route # <<>>,
              trains' = [trains EXCEPT ![t].transit = route, ![t].progress = 1,
                                       ![t].limit = From(route[1])],
              agenda' = <<ExtendTask(t), RetryAll>> \o Tail(agenda)
       PROVE  Fitting' /\ InShape'
  <2> DEFINE R == route
             s == [r EXCEPT !.transit = R, !.progress = 1, !.limit = From(R[1])]
  <2>1. IsWayBetween(r.last, target, R)
    <3>1. target \in Marker /\ r.last \in Marker /\ heading \in Block \cup {None}
      BY <1>2 DEF TrainState, Coherent
    <3>2. heading = None \/ From(heading) # r.last
      BY <1>2 DEF Fit, Plain, OnItsWay
    <3>3. known = Declared
      BY DEF Orderly, Quiet
    <3> HIDE DEF target, heading, r
    <3> QED
      BY <1>10, <3>1, <3>2, <3>3 DEF PlansAreWays
  <2>2. trains'[t] = s
    BY <1>6, <1>10
  <2> HIDE DEF R, r, S
  <2>3. /\ s.transit = R /\ s.progress = 1 /\ s.last = r.last /\ s.stops = r.stops
        /\ s.in_zone = r.in_zone /\ s.entry = r.entry /\ s.length = r.length
        /\ s.current = r.current /\ s.dwelling = r.dwelling
    BY <1>2 DEF TrainState
  <2> HIDE DEF s
  <2>4. Plain(t, s, S)
    BY <1>2, <2>3 DEF Fit, Plain
  <2>5. R \in Seq(Declared) /\ R # <<>> /\ Len(R) \in Nat /\ 1 \in DOMAIN R
    BY <2>1 DEF IsWayBetween, IsWay
  <2>6. OnItsWay(s)
    BY <1>2, <2>1, <2>3, <2>5 DEF OnItsWay, IsWayBetween, UnderWay, Place
  <2>7. AheadOf(s) = {R[i] : i \in DOMAIN R}
    BY <2>3, <2>5 DEF AheadOf
  <2>8. \A i \in DOMAIN R : R[i] \notin S
    BY <1>4, <2>1 DEF IsWayBetween, IsWay
  <2>9. HoldsInOrder(s, S)
    BY <1>4, <1>7, <1>8, <2>3, <2>7, <2>8 DEF HoldsInOrder
  <2>10. Fitting'
    <3>1. Fit(t, trains'[t], cleared'[t])
      BY <1>3, <2>2, <2>4, <2>6, <2>9 DEF Fit, S
    <3>2. \A u \in Train \ {t} : trains'[u] = trains[u] /\ cleared'[u] = cleared[u]
      BY <1>3, <1>6, <1>10
    <3> QED
      BY <3>1, <3>2, OneFits DEF Orderly
  <2>11. InShape'
    <3> DEFINE x == ExtendTask(t)
               y == RetryAll
    <3>3. agenda' = <<x, y>> \o Tail(agenda)
      BY <1>10
    <3>2. y = Pass(Registered) /\ Registered \in SUBSET Train
      BY RetryAllIsAPass
    <3>1. agenda' = <<ExtendTask(t), y>>
      <4> HIDE DEF x, y
      <4>2. agenda' = <<x, y>> \o <<>>
        BY <1>5, <3>3
      <4>3. <<x, y>> \o <<>> = <<x, y>>
        OBVIOUS
      <4>1. agenda' = <<x, y>>
        BY <4>2, <4>3
      <4> QED
        BY <4>1 DEF x
    <3> HIDE DEF y
    <3> QED
      BY <3>1, <3>2 DEF InShape
  <2> QED
    BY <2>10, <2>11
<1>11. ASSUME trains' = [trains EXCEPT ![t].transit = <<>>, ![t].progress = 1,
                                       ![t].limit = r.last],
              agenda' = Tail(agenda)
       PROVE  Fitting' /\ InShape'
  <2> DEFINE R == <<>>
             s == [r EXCEPT !.transit = R, !.progress = 1, !.limit = r.last]
  <2>2. trains'[t] = s
    BY <1>6, <1>11
  <2>5. R \in Seq(Declared) /\ DOMAIN R = {} /\ R = <<>> /\ Len(R) = 0
    OBVIOUS
  <2> HIDE DEF R, r, S
  <2>3. /\ s.transit = R /\ s.progress = 1 /\ s.last = r.last /\ s.stops = r.stops
        /\ s.in_zone = r.in_zone /\ s.entry = r.entry /\ s.length = r.length
        /\ s.current = r.current /\ s.dwelling = r.dwelling
    BY <1>2 DEF TrainState
  <2> HIDE DEF s
  <2>4. Plain(t, s, S)
    BY <1>2, <2>3 DEF Fit, Plain
  <2>6. OnItsWay(s)
    BY <1>2, <2>3, <2>5 DEF Fit, OnItsWay, IsWay, UnderWay, Place
  <2>7. AheadOf(s) = {}
    BY <2>3, <2>5 DEF AheadOf
  <2>9. HoldsInOrder(s, S)
    BY <1>4, <1>7, <1>8, <2>3, <2>5, <2>7 DEF HoldsInOrder
  <2>10. Fitting'
    <3>1. Fit(t, trains'[t], cleared'[t])
      BY <1>3, <2>2, <2>4, <2>6, <2>9 DEF Fit, S
    <3>2. \A u \in Train \ {t} : trains'[u] = trains[u] /\ cleared'[u] = cleared[u]
      BY <1>3, <1>6, <1>11
    <3> QED
      BY <3>1, <3>2, OneFits DEF Orderly
  <2> QED
    BY <1>5, <1>11, <2>10 DEF InShape
<1>12. ASSUME trains' = [trains EXCEPT ![t] = Advanced(r)], UNCHANGED agenda
       PROVE  Fitting' /\ InShape'
  <2> DEFINE s == Advanced(r)
  <2>1. trains'[t] = s
    BY <1>6, <1>12
  <2>2. /\ s.transit = r.transit /\ s.progress = r.progress /\ s.last = r.last
        /\ s.stops = r.stops
        /\ s.in_zone = r.in_zone /\ s.entry = r.entry /\ s.length = r.length
        /\ s.current = r.current /\ s.dwelling = r.dwelling
    BY <1>2 DEF Advanced, TrainState
  <2> HIDE DEF s
  <2>3. Fit(t, s, S)
    BY <1>2, <2>2, FitsAsWell
  <2>4. Fitting'
    <3>1. Fit(t, trains'[t], cleared'[t])
      BY <1>3, <2>1, <2>3
    <3>2. \A u \in Train \ {t} : trains'[u] = trains[u] /\ cleared'[u] = cleared[u]
      BY <1>3, <1>6, <1>12
    <3> QED
      BY <3>1, <3>2, OneFits DEF Orderly
  <2>5. ~(InTransit(t)') /\ ~trains'[t].dwelling
    BY <1>2, <2>1, <2>2 DEF InTransit, UnderWay
  <2> QED
    BY <1>1, <1>12, <2>4, <2>5 DEF InShape
<1> QED
  BY <1>3, <1>9, <1>10, <1>11, <1>12

-----------------------------------------------------------------------------
(* The other tasks.                                                        *)

(* A walk goes on with the pass that follows it.                           *)
LEMMA TasksFit ==
    ASSUME PlansAreWays, TypeOK, Orderly, Step
    PROVE  Fitting' /\ InShape'
<1>1. DoPlan \/ DoExtend \/ DoRetry \/ EmitDeadlockState
  BY NobodyIsResolved DEF Orderly
<1>2. CASE DoExtend
  <2>1. PICK t \in Train, S \in SUBSET Train :
          agenda = <<ExtendTask(t), Pass(S)>> /\ Head(agenda).train = t
    BY <1>2, AgendaOf DEF DoExtend, Orderly
  <2>2. Fitting'
    BY <1>2, <2>1, WalkFits DEF DoExtend, Orderly
  <2>3. agenda' = <<Pass(S)>>
    BY <1>2, <2>1, FirstOf DEF DoExtend
  <2> QED
    BY <2>2, <2>3 DEF InShape
<1>3. CASE DoRetry
  <2>1. PICK S \in SUBSET Train : agenda = <<Pass(S)>> /\ Head(agenda).pending = S
    BY <1>3, AgendaOf DEF DoRetry, Orderly
  <2>2. PICK t \in S : /\ ExtendClearanceHorizon(t)
                       /\ agenda' = [agenda EXCEPT ![1].pending = @ \ {t}]
    BY <1>3, <2>1 DEF DoRetry
  <2>3. Fitting'
    BY <2>2, WalkFits DEF Orderly
  <2>4. agenda' = <<Pass(S \ {t})>>
    <3> DEFINE x == Pass(S)
    <3>1. [x EXCEPT !.pending = @ \ {t}] = Pass(S \ {t})
      BY DEF Pass, RetryTask
    <3>2. agenda = <<x>>
      BY <2>1
    <3> HIDE DEF x
    <3>3. agenda' = <<[x EXCEPT !.pending = @ \ {t}]>>
      BY <2>2, <3>2
    <3> QED
      BY <3>1, <3>3
  <2>5. S \ {t} \in SUBSET Train
    OBVIOUS
  <2> QED
    BY <2>3, <2>4, <2>5 DEF InShape
<1>4. CASE EmitDeadlockState
  <2>1. PICK S \in SUBSET Train : agenda = <<Pass(S)>>
    BY <1>4, AgendaOf DEF EmitDeadlockState, Resolving, Orderly
  <2>2. agenda' = <<>>
    BY <1>4, <2>1, FirstOf DEF EmitDeadlockState
  <2>3. Fitting'
    BY <1>4 DEF EmitDeadlockState, Orderly, Fitting
  <2> QED
    BY <2>2, <2>3 DEF InShape
<1> QED
  BY <1>1, <1>2, <1>3, <1>4, PlanFits

-----------------------------------------------------------------------------
(* Events.                                                                 *)

(* A train that registers has a length, and nothing else.                  *)
LEMMA RegisterFits ==
    ASSUME TypeOK, Orderly, NEW t \in Train, t \notin Registered, RegisterTrain(t)
    PROVE  Fitting' /\ InShape'
<1> DEFINE r == trains[t]
           mm == IF TrainLength[t] > 0 THEN TrainLength[t] ELSE r.length
           s == [r EXCEPT !.length = mm]
<1>1. r = InitialTrainState /\ r \in TrainState /\ Fit(t, r, cleared[t])
  BY DEF Orderly, Quiet, Fitting, TypeOK, TrainsOK
<1>2. mm \in {0, TrainLength[t]} /\ (mm = 0 => r.length = 0)
  BY <1>1, TrainAssumption DEF InitialTrainState
<1>3. /\ trains'[t] = s /\ cleared' = cleared
      /\ \A u \in Train \ {t} : trains'[u] = trains[u]
  BY DEF RegisterTrain, TypeOK, TrainsOK
<1> HIDE DEF r, mm
<1>4. /\ s.in_zone = r.in_zone /\ s.entry = r.entry /\ s.length = mm /\ s.stops = r.stops
      /\ s.transit = r.transit /\ s.last = r.last /\ s.current = r.current
      /\ s.progress = r.progress /\ s.dwelling = r.dwelling
  BY <1>1 DEF TrainState
<1> HIDE DEF s
<1>5. Fit(t, s, cleared[t])
  BY <1>1, <1>2, <1>4 DEF Fit, Plain, OnItsWay, HoldsInOrder, UnderWay, AheadOf, Place
<1>6. Fitting'
  BY <1>3, <1>5, OneFits DEF Orderly
<1> QED
  BY <1>6 DEF RegisterTrain, Idle, InShape

(* A train that gets its first schedule is at the first stop, and planned. *)
LEMMA AssignFits ==
    ASSUME TypeOK, Orderly, NEW t \in Train, NEW stops \in Schedules,
           trains[t].stops = <<>>, AssignSchedule(t, stops)
    PROVE  Fitting' /\ InShape'
<1> DEFINE r == trains[t]
           start == IF r.last = None THEN stops[1] ELSE r.last
           none == <<>>
           k == IF start = stops[1] /\ Len(stops) > 1 THEN 2 ELSE 1
           s == [r EXCEPT !.last = start, !.transit = none, !.progress = 1,
                          !.stops = stops, !.stop = k]
<1>1. /\ r \in TrainState /\ Coherent(r) /\ Fit(t, r, cleared[t]) /\ stops # <<>>
      /\ stops \in Seq(Marker)
  BY EventAssumption DEF Orderly, Fitting, TypeOK, TrainsOK
<1>2. /\ trains'[t] = s /\ cleared'[t] = {}
      /\ \A u \in Train \ {t} : trains'[u] = trains[u] /\ cleared'[u] = cleared[u]
  BY DEF AssignSchedule, TypeOK, TrainsOK
<1>3. /\ r.current = None /\ ~r.dwelling /\ r.in_zone = None /\ r.entry = None
      /\ r.length \in {0, TrainLength[t]}
  BY <1>1 DEF Fit, Plain, Coherent
<1>4. none \in Seq(Declared) /\ DOMAIN none = {} /\ none = <<>> /\ Len(none) = 0
  OBVIOUS
<1> HIDE DEF r, start, none, k
<1>5. /\ s.in_zone = None /\ s.entry = None /\ s.length = r.length /\ s.stops = stops
      /\ s.transit = none /\ s.last = start /\ s.current = None
      /\ s.progress = 1 /\ s.dwelling = r.dwelling
  BY <1>1, <1>3 DEF TrainState
<1> HIDE DEF s
<1>6. Plain(t, s, {})
  BY <1>1, <1>3, <1>5 DEF Plain
<1>7. OnItsWay(s)
  BY <1>3, <1>4, <1>5 DEF OnItsWay, IsWay, UnderWay
<1>8. HoldsInOrder(s, {})
  BY <1>4, <1>5 DEF HoldsInOrder
<1>9. Fitting'
  BY <1>2, <1>6, <1>7, <1>8, OneFits DEF Fit, Orderly
<1>10. ~(InTransit(t)') /\ ~trains'[t].dwelling
  BY <1>2, <1>3, <1>4, <1>5 DEF InTransit, r
<1> QED
  BY <1>9, <1>10 DEF AssignSchedule, InShape

(* A train that passes a marker has the block it crossed behind it.        *)
LEMMA PassFits ==
    ASSUME TypeOK, Orderly, NEW t \in Train, PassesOn(t)
    PROVE  Fitting' /\ InShape'
<1> DEFINE r == trains[t]
           S == cleared[t]
           H == cleared'[t]
           s == trains'[t]
           p == r.progress
           e == r.transit[p]
           m == To(e)
<1>1. /\ r \in TrainState /\ Coherent(r) /\ Fit(t, r, S) /\ S \subseteq AheadOf(r) /\ e \in S
      /\ UnderWay(r) /\ r.transit \in Seq(Block) /\ p \in Nat \ {0}
  BY DEF Orderly, Fitting, TypeOK, TrainsOK, PassesOn, InTransit, NextEdge, UnderWay, TrainState
<1>2. /\ s = AdvanceTransit([r EXCEPT !.last = m, !.entry = None], m)
      /\ H = IF r.length = 0 THEN {x \in S : To(x) # m} ELSE S
      /\ \A u \in Train \ {t} : trains'[u] = trains[u] /\ cleared'[u] = cleared[u]
      /\ agenda' = <<ExtendTask(t), RetryAll>>
  BY DEF PassesOn, HandleTrainAtMarker, TypeOK, TrainsOK, NextEdge
<1> HIDE DEF r, S, H, s, p, m
<1>3. /\ s.in_zone = r.in_zone /\ s.entry = None /\ s.length = r.length /\ s.stops = r.stops
      /\ s.transit = r.transit /\ s.last = m /\ s.progress = p + 1
      /\ p < Len(r.transit) => s.current = r.transit[p + 1] /\ s.dwelling = r.dwelling
      /\ ~(p < Len(r.transit)) => s.current = None
  <2> DEFINE q == [r EXCEPT !.last = m, !.entry = None]
  <2>0. m \in Marker
    BY <1>1, BlockEnds DEF m, UnderWay, p
  <2>1. /\ q \in TrainState
        /\ q.in_zone = r.in_zone /\ q.entry = None /\ q.length = r.length /\ q.stops = r.stops
        /\ q.transit = r.transit /\ q.last = m /\ q.progress = p /\ q.dwelling = r.dwelling
    BY <1>1, <2>0 DEF TrainState, p
  <2> HIDE DEF q
  <2>2. q.progress \in DOMAIN q.transit /\ To(q.transit[q.progress]) = m
    BY <1>1, <2>1 DEF UnderWay, m, p
  <2>3. CASE p < Len(r.transit)
    <3>1. s = [q EXCEPT !.progress = @ + 1, !.current = q.transit[q.progress + 1]]
      BY <1>2, <2>1, <2>2, <2>3 DEF AdvanceTransit, q
    <3> QED
      BY <2>1, <2>3, <3>1 DEF TrainState
  <2>4. CASE ~(p < Len(r.transit))
    <3>1. s = [q EXCEPT !.progress = @ + 1, !.current = None,
                        !.dwelling = @ \/ AtScheduledStop(q, m)]
      BY <1>2, <2>1, <2>2, <2>4 DEF AdvanceTransit, q
    <3> QED
      BY <2>1, <2>4, <3>1 DEF TrainState
  <2> QED
    BY <2>3, <2>4
<1> HIDE DEF s
<1>4. /\ p \in DOMAIN r.transit /\ DOMAIN r.transit = 1..Len(r.transit) /\ Len(r.transit) \in Nat
      /\ m = To(e) /\ e = r.transit[p]
  BY <1>1 DEF UnderWay, p, m
<1> HIDE DEF e
<1>5. UnderWay(s) <=> p < Len(r.transit)
  BY <1>1, <1>3, <1>4 DEF UnderWay
<1>6. Plain(t, s, H)
  BY <1>1, <1>3, <1>4 DEF Fit, Plain
<1>7. OnItsWay(s)
  <2>1. Place(s) = m
    <3>1. CASE p < Len(r.transit)
      BY <1>1, <1>3, <1>4, <1>5, <3>1 DEF Place, Fit, OnItsWay, IsWay
    <3>2. CASE ~(p < Len(r.transit))
      <4>1. p = Len(r.transit)
        BY <1>1, <1>4, <3>2
      <4> QED
        BY <1>3, <1>4, <1>5, <3>2, <4>1 DEF Place
    <3> QED
      BY <3>1, <3>2
  <2>2. s.progress <= Len(s.transit) + 1
    BY <1>1, <1>3, <1>4
  <2>3. s.dwelling => ~UnderWay(s)
    BY <1>1, <1>3, <1>5 DEF Fit, OnItsWay
  <2> QED
    BY <1>1, <1>3, <1>5, <2>1, <2>2, <2>3 DEF Fit, OnItsWay
<1>8. AheadOf(r) = AheadOf(s) \cup {e} /\ e \notin AheadOf(s)
  <2>1. AheadOf(s) = {r.transit[i] : i \in {k \in DOMAIN r.transit : k >= p + 1}}
    BY <1>3 DEF AheadOf
  <2>2. AheadOf(r) = {r.transit[i] : i \in {k \in DOMAIN r.transit : k >= p}}
    BY DEF AheadOf, p
  <2>3. {k \in DOMAIN r.transit : k >= p} = {k \in DOMAIN r.transit : k >= p + 1} \cup {p}
    BY <1>1, <1>4
  <2>4. \A i \in DOMAIN r.transit : i >= p + 1 => r.transit[i] # e
    <3> TAKE i \in DOMAIN r.transit
    <3> HAVE i >= p + 1
    <3>1. i # p
      BY <1>1, <1>4
    <3> QED
      BY <1>1, <1>4, <3>1 DEF Fit, OnItsWay, IsWay
  <2> QED
    BY <1>4, <2>1, <2>2, <2>3, <2>4
<1>9. \A x \in AheadOf(s) : To(x) # m
  <2>1. \A i \in DOMAIN r.transit : i >= p + 1 => To(r.transit[i]) # m
    <3> TAKE i \in DOMAIN r.transit
    <3> HAVE i >= p + 1
    <3>1. i # p
      BY <1>1, <1>4
    <3> QED
      BY <1>1, <1>4, <3>1 DEF Fit, OnItsWay, IsWay
  <2> QED
    BY <1>3, <2>1 DEF AheadOf
<1>10. H \subseteq S /\ S \cap AheadOf(s) \subseteq H /\ (r.length = 0 => e \notin H)
  BY <1>2, <1>4, <1>9
<1>11. HoldsInOrder(s, H)
  <2>1. \A x \in H \ AheadOf(s) : x = e
    BY <1>1, <1>8, <1>10
  <2>2. ASSUME NEW i \in DOMAIN s.transit, i >= s.progress, s.transit[i] \in H,
               NEW k \in s.progress..i
        PROVE  s.transit[k] \in H
    <3>1. i \in DOMAIN r.transit /\ i >= p /\ k \in p..i /\ r.transit[i] \in S /\ k \in DOMAIN r.transit
          /\ k >= p + 1
      BY <1>1, <1>3, <1>4, <1>10, <2>2
    <3>2. r.transit[k] \in S
      BY <1>1, <3>1 DEF Fit, HoldsInOrder, p
    <3>3. r.transit[k] \in AheadOf(s)
      BY <1>3, <3>1 DEF AheadOf
    <3> QED
      BY <1>3, <1>10, <3>2, <3>3
  <2>3. s.length = 0 => H \subseteq AheadOf(s)
    BY <1>3, <1>10, <2>1
  <2> QED
    BY <1>3, <1>4, <2>1, <2>2, <2>3 DEF HoldsInOrder
<1>12. Fitting'
  BY <1>2, <1>6, <1>7, <1>11, OneFits DEF Fit, Orderly, s, H
<1>13. InShape'
  <2> DEFINE x == ExtendTask(t)
             y == RetryAll
  <2>1. agenda' = <<x, y>> /\ y = Pass(Registered) /\ Registered \in SUBSET Train
    BY <1>2, RetryAllIsAPass
  <2> QED
    BY <2>1 DEF InShape
<1> QED
  BY <1>12, <1>13

(* The tail releases only what is neither ahead of the head nor under it.  *)
LEMMA TailFreesWhatIsBehind ==
    ASSUME NEW t, NEW edge, NEW distance, NEW freed \in CollectTailReleases(t, edge, distance)
    PROVE  freed \subseteq cleared[t] \ Forward(t, edge)
<1> DEFINE K == cleared[t] \ Forward(t, edge)
           runs == BackwardRuns(K, From(edge))
<1>1. ASSUME NEW p \in runs
      PROVE  \A k \in DOMAIN p : p[k] \in K
  BY <1>1 DEF BackwardRuns
<1>2. freed = {} \/ \E p \in runs : freed \subseteq {p[k] : k \in DOMAIN p}
  BY DEF CollectTailReleases
<1> QED
  BY <1>1, <1>2

(* A train that says where it is holds no more than before.                *)
LEMMA StatusFits ==
    ASSUME TypeOK, Orderly, NEW t \in Train, NEW edge, NEW mm, NEW dwellOver \in BOOLEAN,
           OrderlyStatus(t, edge, mm, dwellOver)
    PROVE  Fitting' /\ InShape'
<1> DEFINE r == trains[t]
           S == cleared[t]
           H == cleared'[t]
           s == trains'[t]
           seeded == IF r.current = None /\ r.entry = None
                     THEN [r EXCEPT !.current = edge] ELSE r
<1>1. /\ r \in TrainState /\ Coherent(r) /\ Fit(t, r, S)
      /\ InTransit(t) <=> UnderWay(r)
  BY DEF Orderly, Fitting, TypeOK, TrainsOK, InTransit, UnderWay
<1>2. \/ edge = None
      \/ r.last # None /\ From(edge) # r.last
      \/ UnderWay(r)
  BY <1>1 DEF OrderlyStatus
<1>3. /\ \A u \in Train \ {t} : trains'[u] = trains[u] /\ cleared'[u] = cleared[u]
      /\ \/ /\ r.dwelling /\ H = S
            /\ s = Advanced([seeded EXCEPT !.dwelling = FALSE])
            /\ agenda' = <<PlanTask(t)>>
         \/ /\ s = seeded
            /\ H \subseteq S /\ S \cap AheadOf(r) \subseteq H
            /\ agenda' \in {agenda, <<RetryAll>>}
  <2>1. HandleTrainStatus(t, edge, mm, dwellOver)
    BY DEF OrderlyStatus
  <2>2. trains \in [Train -> TrainState] /\ cleared \in [Train -> SUBSET Block]
    BY DEF TypeOK, TrainsOK
  <2>3. CASE r.dwelling /\ dwellOver
    BY <2>1, <2>2, <2>3 DEF HandleTrainStatus
  <2>4. CASE ~(r.dwelling /\ dwellOver)
    <3> DEFINE releases == IF r.length = 0 \/ edge = None THEN {{}}
                           ELSE CollectTailReleases(t, edge, mm)
    <3>1. PICK freed \in releases :
             /\ trains' = [trains EXCEPT ![t] = seeded]
             /\ cleared' = [cleared EXCEPT ![t] = @ \ freed]
             /\ agenda' = IF freed = {} THEN agenda ELSE <<RetryAll>>
      BY <2>1, <2>4 DEF HandleTrainStatus
    <3>2. freed \cap AheadOf(r) = {}
      <4>1. freed = {} \/ freed \subseteq S \ Forward(t, edge)
        BY TailFreesWhatIsBehind
      <4> QED
        BY <4>1 DEF Forward, AheadOf
    <3> QED
      BY <2>2, <3>1, <3>2
  <2> QED
    BY <2>3, <2>4
<1> HIDE DEF r, S, H, s
<1>4. /\ seeded.in_zone = r.in_zone /\ seeded.entry = r.entry /\ seeded.length = r.length
      /\ seeded.stops = r.stops /\ seeded.transit = r.transit /\ seeded.last = r.last
      /\ seeded.progress = r.progress /\ seeded.dwelling = r.dwelling
      /\ seeded.stop = r.stop /\ seeded.limit = r.limit
      /\ seeded.current \in {edge, r.current}
  BY <1>1 DEF TrainState
<1>5. /\ s.in_zone = r.in_zone /\ s.entry = r.entry /\ s.length = r.length
      /\ s.stops = r.stops /\ s.transit = r.transit /\ s.last = r.last
      /\ s.progress = r.progress /\ s.current \in {edge, r.current}
      /\ s.dwelling => r.dwelling
      /\ r.dwelling /\ agenda' = <<PlanTask(t)>> => ~s.dwelling
  <2>1. CASE r.dwelling /\ s = Advanced([seeded EXCEPT !.dwelling = FALSE])
    BY <1>1, <1>4, <2>1 DEF Advanced, TrainState
  <2>2. CASE s = seeded /\ agenda' \in {agenda, <<RetryAll>>}
    <3>1. agenda' # <<PlanTask(t)>>
      <4>1. agenda = <<>>
        BY DEF OrderlyStatus, HandleTrainStatus, Idle
      <4> DEFINE x == PlanTask(t)
                 y == RetryAll
      <4>2. x # y
        BY DEF PlanTask, RetryAll, RetryTask
      <4> HIDE DEF x, y
      <4>3. <<x>> # <<y>> /\ <<x>> # <<>>
        BY <4>2
      <4>4. agenda' \in {<<>>, <<y>>}
        BY <2>2, <4>1 DEF y
      <4>5. agenda' # <<x>>
        BY <4>3, <4>4
      <4> QED
        BY <4>5 DEF x
    <3> HIDE DEF seeded
    <3> QED
      BY <1>4, <2>2, <3>1
  <2> QED
    BY <1>3, <2>1, <2>2
<1>6. H \subseteq S /\ S \cap AheadOf(r) \subseteq H
  BY <1>3
<1>7. AheadOf(s) = AheadOf(r) /\ UnderWay(s) = UnderWay(r) /\ Place(s) = Place(r)
  BY <1>5 DEF AheadOf, UnderWay, Place
<1> HIDE DEF seeded
<1>8. Plain(t, s, H)
  <2>1. r.stops = <<>> => ~UnderWay(r)
    BY <1>1 DEF Fit, Plain, UnderWay
  <2> QED
    BY <1>1, <1>2, <1>5, <1>6, <2>1 DEF Fit, Plain
<1>9. OnItsWay(s)
  BY <1>1, <1>2, <1>5, <1>7 DEF Fit, OnItsWay
<1>10. HoldsInOrder(s, H)
  <2>1. ASSUME NEW i \in DOMAIN r.transit, i >= r.progress, r.transit[i] \in H, NEW k \in r.progress..i
        PROVE  r.transit[k] \in H
    <3>1. r.transit[k] \in S
      BY <1>1, <1>6, <2>1 DEF Fit, HoldsInOrder
    <3>2. k \in DOMAIN r.transit /\ k >= r.progress
      BY <1>1, <2>1 DEF TrainState
    <3> QED
      BY <1>6, <3>1, <3>2 DEF AheadOf
  <2> QED
    BY <1>1, <1>5, <1>6, <1>7, <2>1 DEF Fit, HoldsInOrder
<1>11. Fitting'
  BY <1>3, <1>8, <1>9, <1>10, OneFits DEF Fit, Orderly, s, H
<1>12. InShape'
  <2>1. CASE r.dwelling /\ agenda' = <<PlanTask(t)>>
    <3>1. ~(InTransit(t)') /\ ~trains'[t].dwelling
      BY <1>1, <1>5, <1>7, <2>1 DEF Fit, OnItsWay, InTransit, UnderWay, s
    <3> QED
      BY <2>1, <3>1 DEF InShape
  <2>2. CASE agenda' \in {agenda, <<RetryAll>>}
    <3> DEFINE y == RetryAll
    <3>1. y = Pass(Registered) /\ Registered \in SUBSET Train /\ agenda = <<>>
      BY RetryAllIsAPass DEF OrderlyStatus, HandleTrainStatus, Idle
    <3>2. agenda' \in {<<>>, <<y>>}
      BY <2>2, <3>1
    <3> HIDE DEF y
    <3> QED
      BY <3>1, <3>2 DEF InShape
  <2> QED
    BY <1>3, <2>1, <2>2
<1> QED
  BY <1>11, <1>12

(* A registration, and what is on the agenda of no train, leaves trains    *)
(* that are not known as they are.                                         *)
LEMMA StaysQuiet ==
    ASSUME TypeOK, Quiet, known' = known, devices' = devices, boundary' = boundary, held' = held,
           arrival' = arrival,
           \A u \in Train : \/ trains'[u] = trains[u]
                            \/ u \in Registered /\ trains'[u].length = trains[u].length
    PROVE  Quiet'
<1>1. Registered' = Registered /\ Registered \subseteq Train
  BY RegisteredTrains DEF Registered, TypeOK
<1> HIDE DEF Registered
<1> QED
  BY <1>1 DEF Quiet

(* A train that is not known is neither planned nor walked for.            *)
LEMMA TasksQuiet ==
    ASSUME TypeOK, Orderly, Step
    PROVE  Quiet'
<1>1. DoPlan \/ DoExtend \/ DoRetry \/ EmitDeadlockState
  BY NobodyIsResolved DEF Orderly
<1>2. /\ known' = known /\ devices' = devices /\ boundary' = boundary /\ held' = held
      /\ arrival' = arrival
  BY <1>1 DEF DoPlan, DoExtend, DoRetry, EmitDeadlockState, trackVars, deviceVars
<1>3. ASSUME NEW t \in Train, ExtendClearanceHorizon(t)
      PROVE  \A u \in Train : \/ trains'[u] = trains[u]
                              \/ u \in Registered /\ trains'[u].length = trains[u].length
  <2>1. \A u \in Train \ {t} : trains'[u] = trains[u]
    BY <1>3, WalkAdds
  <2>2. trains'[t].length = trains[t].length
    <3>1. PICK x : trains'[t] = [trains[t] EXCEPT !.limit = x]
      BY <1>3, WalkAdds
    <3>2. trains[t] \in TrainState
      BY DEF TypeOK, TrainsOK
    <3> QED
      BY <3>1, <3>2 DEF TrainState
  <2>3. CASE t \notin Registered
    <3>1. trains[t].transit = <<>>
      BY <2>3 DEF Orderly, Quiet, InitialTrainState
    <3>2. \A h : NewlyGranted(t, h) = {}
      BY <3>1 DEF NewlyGranted, Walked
    <3> QED
      BY <1>3, <2>1, <3>2 DEF ExtendClearanceHorizon
  <2> QED
    BY <2>1, <2>2, <2>3
<1>4. CASE DoPlan
  <2>1. PICK t \in Train : agenda = <<PlanTask(t)>> /\ Head(agenda).train = t
    BY <1>4, AgendaOf DEF DoPlan, Orderly
  <2>2. trains[t].stops # <<>> /\ trains[t] \in TrainState
    BY <1>4, <2>1, FirstTask, TaskNames DEF DoPlan, Idle, TypeOK, TrainsOK
  <2>3. t \in Registered
    BY <2>2 DEF Orderly, Quiet, InitialTrainState
  <2>4. \A u \in Train \ {t} : trains'[u] = trains[u]
    BY <1>4, <2>1 DEF DoPlan, PlanAndExecuteCurrentTransit, TypeOK, TrainsOK
  <2>5. trains'[t].length = trains[t].length
    <3>1. \/ trains'[t] = trains[t]
          \/ \E x, y, z : trains'[t] = [trains[t] EXCEPT !.transit = x, !.progress = y, !.limit = z]
          \/ trains'[t] = Advanced(trains[t])
      <4> DEFINE r == trains[t]
                 target == r.stops[r.stop]
                 heading == IF r.current # None THEN r.current ELSE r.entry
                 route == Plan(known, r.last, target, heading)
                 refused == boundary[target] # None /\ t \notin CanReverse
      <4>1. PlanAndExecuteCurrentTransit(t)
        BY <1>4, <2>1 DEF DoPlan
      <4>2. \/ UNCHANGED trains
            \/ trains' = [trains EXCEPT ![t].transit = route, ![t].progress = 1,
                                        ![t].limit = From(route[1])]
            \/ trains' = [trains EXCEPT ![t].transit = <<>>, ![t].progress = 1,
                                        ![t].limit = r.last]
            \/ trains' = [trains EXCEPT ![t] = Advanced(r)]
        BY <4>1 DEF PlanAndExecuteCurrentTransit
      <4>3. trains \in [Train -> TrainState]
        BY DEF TypeOK, TrainsOK
      <4> DEFINE start == From(route[1])
                 none == <<>>
      <4> HIDE DEF route, start, none
      <4>4. \/ trains'[t] = r
            \/ trains'[t] = [r EXCEPT !.transit = route, !.progress = 1, !.limit = start]
            \/ trains'[t] = [r EXCEPT !.transit = none, !.progress = 1, !.limit = r.last]
            \/ trains'[t] = Advanced(r)
        BY <4>2, <4>3 DEF start, none
      <4> QED
        BY <4>4
    <3> QED
      BY <2>2, <3>1 DEF Advanced, TrainState
  <2> QED
    BY <1>2, <2>3, <2>4, <2>5, StaysQuiet DEF Orderly
<1>5. CASE DoExtend
  <2>1. PICK t \in Train : Head(agenda).train = t
    BY <1>5, AgendaOf DEF DoExtend, Orderly
  <2> QED
    BY <1>2, <1>3, <1>5, <2>1, StaysQuiet DEF DoExtend, Orderly
<1>6. CASE DoRetry
  <2>1. PICK S \in SUBSET Train : Head(agenda).pending = S
    BY <1>6, AgendaOf DEF DoRetry, Orderly
  <2>2. PICK t \in Train : ExtendClearanceHorizon(t)
    BY <1>6, <2>1 DEF DoRetry
  <2> QED
    BY <1>2, <1>3, <2>2, StaysQuiet DEF Orderly
<1>7. CASE EmitDeadlockState
  BY <1>2, <1>7, StaysQuiet DEF EmitDeadlockState, Orderly
<1> QED
  BY <1>1, <1>4, <1>5, <1>6, <1>7

(* Who registers announces a length; who reports, reports declared track.  *)
LEMMA EventsQuiet ==
    ASSUME TypeOK, Orderly, OrderlyNext, ~Step
    PROVE  Quiet'
<1>0. trains \in [Train -> TrainState] /\ held \in [Train -> BOOLEAN] /\ arrival \in Seq(Train)
  BY DEF TypeOK, TrainsOK
<1>1. ASSUME NEW t \in Train, t \notin Registered, RegisterTrain(t)
      PROVE  Quiet'
  <2> DEFINE s == trains'[t]
  <2>1. Registered' = Registered \cup {t}
    <3>1. arrival' = Append(arrival, t)
      BY <1>1 DEF RegisterTrain
    <3>2. /\ DOMAIN arrival' = DOMAIN arrival \cup {Len(arrival) + 1}
          /\ \A i \in DOMAIN arrival : arrival'[i] = arrival[i]
          /\ arrival'[Len(arrival) + 1] = t
      BY <1>0, <3>1
    <3> QED
      BY <3>2 DEF Registered, Range
  <2>2. trains[t] = InitialTrainState /\ trains[t] \in TrainState
    BY <1>0, <1>1 DEF Orderly, Quiet
  <2>3. s.length = TrainLength[t]
    <3> DEFINE mm == IF TrainLength[t] > 0 THEN TrainLength[t] ELSE trains[t].length
    <3>1. s = [trains[t] EXCEPT !.length = mm]
      BY <1>0, <1>1 DEF RegisterTrain
    <3>2. mm = TrainLength[t]
      BY <2>2, TrainAssumption DEF InitialTrainState
    <3> HIDE DEF mm, s
    <3> QED
      BY <2>2, <3>1, <3>2 DEF TrainState
  <2>4. \A u \in Train \ {t} : trains'[u] = trains[u]
    BY <1>0, <1>1 DEF RegisterTrain
  <2> QED
    BY <1>1, <2>1, <2>3, <2>4 DEF RegisterTrain, Orderly, Quiet, trackVars, deviceVars
<1>2. ASSUME NEW t \in Train, NEW stops \in Schedules, AssignSchedule(t, stops)
      PROVE  Quiet'
  <2>1. t \in Registered /\ trains'[t].length = trains[t].length
    BY <1>0, <1>2 DEF AssignSchedule, TrainState
  <2>2. held' = held
    BY <1>0, <1>2 DEF AssignSchedule, Orderly, Quiet
  <2>3. \A u \in Train \ {t} : trains'[u] = trains[u]
    BY <1>0, <1>2 DEF AssignSchedule
  <2> QED
    BY <1>2, <2>1, <2>2, <2>3, StaysQuiet DEF AssignSchedule, Orderly, trackVars, deviceVars
<1>3. ASSUME NEW t \in Train, PassesOn(t)
      PROVE  Quiet'
  <2> DEFINE r == trains[t]
             e == r.transit[r.progress]
  <2>1. /\ r \in TrainState /\ Fit(t, r, cleared[t]) /\ UnderWay(r)
        /\ e = NextEdge(t) /\ r.progress \in DOMAIN r.transit /\ r.transit # <<>>
    BY <1>0, <1>3 DEF Orderly, Fitting, PassesOn, InTransit, NextEdge, UnderWay, TrainState
  <2>2. e \in Declared /\ r.last = From(e) /\ e \in EdgeRef
    <3>1. e \in Declared
      BY <2>1 DEF Fit, OnItsWay, IsWay
    <3> QED
      BY <2>1, <3>1, LayoutAssumption DEF Fit, OnItsWay, Place, Block
  <2>3. e = <<r.last, To(e)>>
    BY <2>2 DEF EdgeRef, From, To
  <2>4. known' = known
    <3>1. known' = Traversed(r.last, To(e)) /\ known = Declared
      BY <1>3, <2>1 DEF PassesOn, HandleTrainAtMarker, Orderly, Quiet
    <3> QED
      BY <2>2, <2>3, <3>1 DEF Traversed
  <2>5. /\ t \in Registered
        /\ trains' = [trains EXCEPT ![t] = AdvanceTransit([r EXCEPT !.last = To(e), !.entry = None], To(e))]
        /\ UNCHANGED <<arrival, held, deviceVars>>
    BY <1>3, <2>1 DEF PassesOn, HandleTrainAtMarker, Reporting
  <2>6. trains'[t].length = r.length
    <3> DEFINE q == [r EXCEPT !.last = To(e), !.entry = None]
    <3>1. q.length = r.length /\ q \in TrainState
      BY <2>1, <2>2 DEF TrainState, EdgeRef, To
    <3>2. trains'[t] = AdvanceTransit(q, To(e))
      BY <1>0, <2>5
    <3> HIDE DEF q
    <3> QED
      BY <3>1, <3>2 DEF AdvanceTransit, TrainState
  <2>7. \A u \in Train \ {t} : trains'[u] = trains[u]
    BY <1>0, <2>5
  <2> QED
    BY <2>4, <2>5, <2>6, <2>7, StaysQuiet DEF Orderly, deviceVars
<1>4. ASSUME NEW t \in Train, NEW edge, NEW mm, NEW dwellOver, OrderlyStatus(t, edge, mm, dwellOver)
      PROVE  Quiet'
  <2>1. HandleTrainStatus(t, edge, mm, dwellOver)
    BY <1>4 DEF OrderlyStatus
  <2>2. t \in Registered /\ trains'[t].length = trains[t].length
    <3> DEFINE r == trains[t]
               seeded == IF r.current = None /\ r.entry = None
                         THEN [r EXCEPT !.current = edge] ELSE r
    <3>1. \/ trains'[t] = Advanced([seeded EXCEPT !.dwelling = FALSE])
          \/ trains'[t] = seeded
      BY <1>0, <2>1 DEF HandleTrainStatus
    <3>2. seeded.length = r.length /\ r \in TrainState
      BY <1>0 DEF TrainState
    <3>3. Advanced([seeded EXCEPT !.dwelling = FALSE]).length = seeded.length
      BY <3>2 DEF Advanced, TrainState
    <3> QED
      BY <2>1, <3>1, <3>2, <3>3 DEF HandleTrainStatus
  <2>3. \A u \in Train \ {t} : trains'[u] = trains[u]
    BY <1>0, <2>1 DEF HandleTrainStatus
  <2> QED
    BY <2>1, <2>2, <2>3, StaysQuiet DEF HandleTrainStatus, Orderly, trackVars, deviceVars
<1>5. ASSUME NEW j, RecordSwitchPairing(j) \/ HandleSwitchStateChanged(j, requested[j])
      PROVE  Quiet'
  BY <1>5, StaysQuiet DEF RecordSwitchPairing, HandleSwitchStateChanged, Orderly, deviceVars
<1> QED
  BY <1>1, <1>2, <1>3, <1>4, <1>5 DEF OrderlyNext

(* What switches say concerns no train's record.                           *)
LEMMA SwitchesFit ==
    ASSUME TypeOK, Orderly, NEW j,
           RecordSwitchPairing(j) \/ HandleSwitchStateChanged(j, requested[j])
    PROVE  Fitting' /\ InShape'
<1> DEFINE y == RetryAll
<1>1. Fitting'
  BY DEF RecordSwitchPairing, HandleSwitchStateChanged, Orderly, Fitting
<1>2. agenda = <<>> /\ y = Pass(Registered) /\ Registered \in SUBSET Train
      /\ agenda' \in {agenda, <<y>>}
  BY RetryAllIsAPass DEF RecordSwitchPairing, HandleSwitchStateChanged, Idle
<1> HIDE DEF y
<1>3. InShape'
  BY <1>2 DEF InShape
<1> QED
  BY <1>1, <1>3

(* Every orderly step leaves the world in order.                           *)
LEMMA OrderIsKept == PlansAreWays /\ TypeOK /\ Orderly /\ [OrderlyNext]_vars => Orderly'
<1> SUFFICES ASSUME PlansAreWays, TypeOK, Orderly, [OrderlyNext]_vars
             PROVE  Orderly'
  OBVIOUS
<1>1. CASE UNCHANGED vars
  BY <1>1 DEF vars, Orderly, Fitting, Quiet, InShape, InTransit, Registered
<1>2. CASE Step
  BY <1>2, TasksFit, TasksQuiet DEF Orderly
<1>3. CASE OrderlyNext /\ ~Step
  <2>1. Fitting' /\ InShape'
    BY <1>3, RegisterFits, AssignFits, PassFits, StatusFits, SwitchesFit DEF OrderlyNext
  <2> QED
    BY <1>3, <2>1, EventsQuiet DEF Orderly
<1> QED
  BY <1>1, <1>2, <1>3

(* The world is in order at the start.                                     *)
LEMMA OrderAtTheStart == Init => Orderly
<1> SUFFICES ASSUME Init
             PROVE  Orderly
  OBVIOUS
<1> DEFINE r == InitialTrainState
           none == <<>>
<1>1. none \in Seq(Declared) /\ DOMAIN none = {} /\ none = <<>> /\ Len(none) = 0
  OBVIOUS
<1> HIDE DEF none
<1>2. /\ r.in_zone = None /\ r.entry = None /\ r.length = 0 /\ r.stops = <<>>
      /\ r.transit = none /\ r.last = None /\ r.current = None
      /\ r.progress = 1 /\ r.dwelling = FALSE
  BY <1>1 DEF InitialTrainState
<1> HIDE DEF r
<1>3. \A t \in Train : Fit(t, r, {})
  BY <1>1, <1>2 DEF Fit, Plain, OnItsWay, IsWay, UnderWay, HoldsInOrder
<1>4. Fitting
  BY <1>3 DEF Init, Fitting, r
<1>5. Registered = {}
  BY DEF Init, Registered, Range
<1>6. Quiet /\ InShape
  BY <1>5 DEF Init, Quiet, InShape
<1> QED
  BY <1>4, <1>6 DEF Orderly

(* In an orderly world each train keeps to a way, holds it from its head   *)
(* on without a gap and at most one block behind it, and no handler does   *)
(* more than plan one train and visit them all: no yield, no reverse, no   *)
(* hold (scheduler.ts, advanceTransitAndReplanIfReached to                 *)
(* retryBlockedClearances).                                                *)
THEOREM OrderPrevails == PlansAreWays /\ OrderlySpec => []Orderly
<1> SUFFICES ASSUME PlansAreWays
             PROVE  OrderlySpec => []Orderly
  OBVIOUS
<1>1. Init => Orderly
  BY OrderAtTheStart
<1>2. TypeOK /\ Orderly /\ [OrderlyNext]_vars => Orderly'
  BY OrderIsKept
<1>3. Safety => []TypeOK
  BY TypeCorrect
<1> QED
  BY <1>1, <1>2, <1>3, PTL DEF OrderlySpec, Safety

(* What a step of the scheduler leaves of a train as it is.                *)
LEMMA StepOnATrain ==
    ASSUME TypeOK, Orderly, Step, NEW u \in Train
    PROVE  /\ trains'[u].last = trains[u].last /\ trains'[u].length = trains[u].length
           /\ trains'[u].stops = trains[u].stops
           /\ UnderWay(trains[u]) => /\ trains'[u].transit = trains[u].transit
                                     /\ trains'[u].progress = trains[u].progress
           /\ cleared[u] \subseteq cleared'[u]
           /\ cleared'[u] \subseteq cleared[u] \cup AheadOf(trains[u])
<1> DEFINE r == trains[u]
           s == trains'[u]
<1>0. /\ r \in TrainState /\ trains \in [Train -> TrainState]
      /\ r.progress \in Nat /\ r.transit \in Seq(Block)
  BY DEF TypeOK, TrainsOK, TrainState
<1>1. DoPlan \/ DoExtend \/ DoRetry \/ EmitDeadlockState
  BY NobodyIsResolved DEF Orderly
<1>2. ASSUME NEW t \in Train, ExtendClearanceHorizon(t)
      PROVE  /\ s.last = r.last /\ s.length = r.length /\ s.stops = r.stops
             /\ s.transit = r.transit /\ s.progress = r.progress
             /\ cleared[u] \subseteq cleared'[u]
             /\ cleared'[u] \subseteq cleared[u] \cup AheadOf(r)
  <2>1. CASE u # t
    BY <1>2, <2>1, WalkAdds
  <2>2. CASE u = t
    <3>1. PICK x : s = [r EXCEPT !.limit = x]
      BY <1>2, <2>2, WalkAdds
    <3>2. PICK n \in SUBSET DOMAIN r.transit :
             /\ cleared'[u] = cleared[u] \cup {r.transit[i] : i \in n}
             /\ \A i \in n : i >= r.progress
      BY <1>2, <2>2, WalkAdds
    <3>3. {r.transit[i] : i \in n} \subseteq AheadOf(r)
      BY <3>2 DEF AheadOf
    <3> HIDE DEF r, s
    <3> QED
      BY <1>0, <3>1, <3>2, <3>3 DEF TrainState
  <2> QED
    BY <2>1, <2>2
<1>3. CASE DoPlan
  <2>1. PICK t \in Train :
          /\ agenda = <<PlanTask(t)>> /\ Head(agenda).train = t /\ ~InTransit(t)
    BY <1>3, AgendaOf DEF Orderly, DoPlan, Idle
  <2> DEFINE w == trains[t]
             route == Plan(known, w.last, w.stops[w.stop],
                           IF w.current # None THEN w.current ELSE w.entry)
             none == <<>>
             start == From(route[1])
  <2>2. \/ UNCHANGED trains
        \/ trains' = [trains EXCEPT ![t].transit = route, ![t].progress = 1,
                                    ![t].limit = From(route[1])]
        \/ trains' = [trains EXCEPT ![t].transit = <<>>, ![t].progress = 1,
                                    ![t].limit = w.last]
        \/ trains' = [trains EXCEPT ![t] = Advanced(w)]
    BY <1>3, <2>1 DEF DoPlan, PlanAndExecuteCurrentTransit
  <2> HIDE DEF route
  <2>3. cleared' = cleared
    BY <1>3 DEF DoPlan
  <2>4. CASE u # t
    <3>1. s = r
      BY <1>0, <2>2, <2>4
    <3> QED
      BY <2>3, <3>1
  <2>5. CASE u = t
    <3>1. ~UnderWay(r)
      BY <2>1, <2>5 DEF InTransit, UnderWay
    <3> HIDE DEF route, none, start
    <3>2. \/ s = r
          \/ s = [r EXCEPT !.transit = route, !.progress = 1, !.limit = start]
          \/ s = [r EXCEPT !.transit = none, !.progress = 1, !.limit = r.last]
          \/ s = Advanced(r)
      BY <1>0, <2>2, <2>5 DEF start, none
    <3> HIDE DEF r, s
    <3>3. s.last = r.last /\ s.length = r.length /\ s.stops = r.stops
      BY <1>0, <3>2 DEF Advanced, TrainState
    <3> QED
      BY <2>3, <3>1, <3>3 DEF r, s
  <2> QED
    BY <2>4, <2>5
<1>4. CASE DoExtend
  <2>1. PICK t \in Train : Head(agenda).train = t
    BY <1>4, AgendaOf DEF DoExtend, Orderly
  <2> QED
    BY <1>2, <1>4, <2>1 DEF DoExtend
<1>5. CASE DoRetry
  <2>1. PICK S \in SUBSET Train : Head(agenda).pending = S
    BY <1>5, AgendaOf DEF DoRetry, Orderly
  <2>2. PICK t \in Train : ExtendClearanceHorizon(t)
    BY <1>5, <2>1 DEF DoRetry
  <2> QED
    BY <1>2, <2>2
<1>6. CASE EmitDeadlockState
  BY <1>6 DEF EmitDeadlockState
<1> QED
  BY <1>1, <1>3, <1>4, <1>5, <1>6

-----------------------------------------------------------------------------
(* Between passes.                                                         *)

(* No pass is due: the last one has ended, and at most one train, of which *)
(* the others expect nothing, has still to be planned.                     *)
AtRest == Idle \/ Head(agenda).op = "plan"

(* Nobody waits for what is free, and the banner says whether trains wait  *)
(* for each other.                                                         *)
Settled ==
    AtRest => /\ deadlock # {} <=> WaitsForCycles # {}
              /\ \A t \in CollectWaitingTrains : ~Grantable(t, NextEdge(t))

(* A train waits if the block before it is not its own.                    *)
LEMMA WhoWaits ==
    TypeOK /\ Orderly =>
        CollectWaitingTrains = {t \in Train : InTransit(t) /\ NextEdge(t) \notin cleared[t]}
<1> SUFFICES ASSUME TypeOK, Orderly
             PROVE  CollectWaitingTrains = {t \in Train : InTransit(t) /\ NextEdge(t) \notin cleared[t]}
  OBVIOUS
<1>1. ASSUME NEW t \in Train
      PROVE  ~held[t] /\ (InTransit(t) => t \in Registered)
  BY DEF Orderly, Quiet, InitialTrainState, InTransit
<1>2. Registered \subseteq Train
  BY RegisteredTrains DEF TypeOK
<1> QED
  BY <1>1, <1>2 DEF CollectWaitingTrains

(* There is a cycle to report if there is one through any train.           *)
LEMMA SomeCycle ==
    ASSUME TypeOK
    PROVE  WaitsForCycles # {} <=> \E t \in Train : CyclesThrough(t) # {}
<1> DEFINE onCycle == {i \in DOMAIN arrival : CyclesThrough(arrival[i]) # {}}
<1>1. WaitsForCycles = IF onCycle = {} THEN {} ELSE CyclesThrough(arrival[Min(onCycle)])
  BY DEF WaitsForCycles
<1>2. arrival \in Seq(Train)
  BY DEF TypeOK, TrainsOK
<1>3. ASSUME NEW t \in Train, CyclesThrough(t) # {}
      PROVE  onCycle # {}
  <2>1. t \in CollectWaitingTrains
    <3>1. PICK c \in CyclesThrough(t) : TRUE
      BY <1>3
    <3>2. PICK n \in 2..Cardinality(Train) : c \in [1..n -> CollectWaitingTrains]
      BY <3>1 DEF CyclesThrough
    <3>3. c[1] = t
      BY <3>1 DEF CyclesThrough
    <3> QED
      BY <3>2, <3>3
  <2>2. PICK i \in DOMAIN arrival : arrival[i] = t
    BY <2>1 DEF CollectWaitingTrains, Registered, Range
  <2>3. i \in onCycle
    BY <1>3, <2>2
  <2> QED
    BY <2>3
<1>4. ASSUME onCycle # {}
      PROVE  \E t \in Train : CyclesThrough(t) # {} /\ WaitsForCycles = CyclesThrough(t)
  <2>1. onCycle \in SUBSET Nat
    BY <1>2
  <2> HIDE DEF onCycle
  <2>2. Min(onCycle) \in onCycle
    BY <1>4, <2>1, LeastNumber
  <2> DEFINE k == Min(onCycle)
  <2>3. k \in onCycle /\ WaitsForCycles = CyclesThrough(arrival[k])
    BY <1>1, <1>4, <2>2
  <2> HIDE DEF k
  <2>4. k \in DOMAIN arrival /\ CyclesThrough(arrival[k]) # {}
    BY <2>3 DEF onCycle
  <2>5. arrival[k] \in Train
    BY <1>2, <2>4
  <2> QED
    BY <2>3, <2>4, <2>5
<1> HIDE DEF onCycle
<1> QED
  BY <1>1, <1>3, <1>4

(* Where nobody's clearance and nobody's next block changes, everybody     *)
(* waits as before.                                                        *)
LEMMA NobodyMoves ==
    ASSUME TypeOK, TypeOK', Orderly, Orderly',
           cleared' = cleared, position' = position,
           \A u \in Train : InTransit(u)' = InTransit(u),
           \A u \in Train : InTransit(u) => NextEdge(u)' = NextEdge(u)
    PROVE  /\ CollectWaitingTrains' = CollectWaitingTrains
           /\ (WaitsForCycles # {})' = (WaitsForCycles # {})
           /\ (\A t \in CollectWaitingTrains : ~Grantable(t, NextEdge(t))) =>
                (\A t \in CollectWaitingTrains : ~Grantable(t, NextEdge(t)))'
<1>1. CollectWaitingTrains \subseteq Train
  BY RegisteredTrains DEF TypeOK, CollectWaitingTrains
<1>2. CollectWaitingTrains = {t \in Train : InTransit(t) /\ NextEdge(t) \notin cleared[t]}
  BY WhoWaits
<1>3. CollectWaitingTrains' = {t \in Train : InTransit(t)' /\ NextEdge(t)' \notin cleared'[t]}
  <2>1. TypeOK' /\ Orderly' =>
          (CollectWaitingTrains = {t \in Train : InTransit(t) /\ NextEdge(t) \notin cleared[t]})'
    BY WhoWaits, PTL
  <2> QED
    BY <2>1
<1>4. CollectWaitingTrains' = CollectWaitingTrains
  BY <1>1, <1>2, <1>3
<1>5. \A u \in CollectWaitingTrains : NextEdge(u)' = NextEdge(u)
  BY <1>1, <1>2
<1>6. \A a, b : WaitsFor(a, b)' = WaitsFor(a, b)
  BY <1>4, <1>5 DEF WaitsFor
<1>7. \A t : CyclesThrough(t)' = CyclesThrough(t)
  BY <1>4, <1>6 DEF CyclesThrough
<1>8. WaitsForCycles # {} <=> \E t \in Train : CyclesThrough(t) # {}
  BY SomeCycle
<1>9. (WaitsForCycles # {} <=> \E t \in Train : CyclesThrough(t) # {})'
  BY SomeCycle, PTL
<1>10. \A t, e : Grantable(t, e)' = Grantable(t, e)
  <2>1. devices' = {} /\ devices = {}
    BY DEF Orderly, Quiet
  <2> QED
    BY <2>1 DEF Grantable, EdgeConflictsWithAnotherTrain, EdgeRequiresMismatchedSwitch,
                AnyCapabilityDeniesClearance
<1> QED
  BY <1>4, <1>5, <1>7, <1>8, <1>9, <1>10

(* Events after which no pass follows change nothing that others wait for. *)
LEMMA EventsSettle ==
    ASSUME TypeOK, TypeOK', Orderly, Orderly', Settled, OrderlyNext, ~Step, AtRest'
    PROVE  Settled'
<1>0. trains \in [Train -> TrainState] /\ cleared \in [Train -> SUBSET Block]
  BY DEF TypeOK, TrainsOK
<1>1. ASSUME AtRest, cleared' = cleared, position' = position, deadlock' = deadlock,
             \A u \in Train : InTransit(u)' = InTransit(u),
             \A u \in Train : InTransit(u) => NextEdge(u)' = NextEdge(u)
      PROVE  Settled'
  BY <1>1, NobodyMoves DEF Settled
<1>2. ASSUME NEW y, y.op = "retry" \/ y.op = "extend", agenda' = <<y>> \/ \E z : agenda' = <<y, z>>
      PROVE  FALSE
  <2>1. agenda' # <<>> /\ Head(agenda') = y
    BY <1>2, FirstOf
  <2> QED
    BY <1>2, <2>1 DEF AtRest, Idle
<1>3. agenda' # <<RetryAll>> /\ \A t \in Train : agenda' # <<ExtendTask(t), RetryAll>>
  <2> DEFINE y == RetryAll
  <2>1. y.op = "retry"
    BY DEF RetryAll, RetryTask
  <2> HIDE DEF y
  <2>2. agenda' # <<y>>
    BY <1>2, <2>1
  <2>3. ASSUME NEW t \in Train
        PROVE  agenda' # <<ExtendTask(t), y>>
    <3> DEFINE x == ExtendTask(t)
    <3>1. x.op = "extend"
      BY DEF ExtendTask
    <3> HIDE DEF x
    <3>2. agenda' # <<x, y>>
      BY <1>2, <3>1
    <3> QED
      BY <3>2 DEF x
  <2> QED
    BY <2>2, <2>3 DEF y
<1>4. ASSUME NEW t \in Train, t \notin Registered, RegisterTrain(t)
      PROVE  Settled'
  <2>1. /\ \A u \in Train \ {t} : trains'[u] = trains[u]
        /\ \E x : trains'[t] = [trains[t] EXCEPT !.length = x]
    BY <1>0, <1>4 DEF RegisterTrain
  <2>2. \A u \in Train : trains'[u].transit = trains[u].transit /\ trains'[u].progress = trains[u].progress
    <3> TAKE u \in Train
    <3>1. CASE u # t
      BY <2>1, <3>1
    <3>2. CASE u = t
      <4> DEFINE r == trains[t]
                 s == trains'[t]
      <4>1. r \in TrainState
        BY <1>0
      <4>2. PICK x : s = [r EXCEPT !.length = x]
        BY <2>1
      <4> HIDE DEF r, s
      <4>3. s.transit = r.transit /\ s.progress = r.progress
        BY <4>1, <4>2 DEF TrainState
      <4> QED
        BY <3>2, <4>3 DEF r, s
    <3> QED
      BY <3>1, <3>2
  <2> QED
    BY <1>1, <1>4, <2>2 DEF RegisterTrain, AtRest, InTransit, NextEdge, trackVars
<1>5. ASSUME NEW t \in Train, NEW stops \in Schedules, trains[t].stops = <<>>,
             AssignSchedule(t, stops)
      PROVE  Settled'
  <2>1. cleared[t] = {} /\ trains[t].transit = <<>>
    BY <1>5 DEF Orderly, Fitting, Fit, Plain
  <2>2. cleared' = cleared
    BY <1>0, <1>5, <2>1 DEF AssignSchedule
  <2>3. trains'[t].transit = <<>>
    BY <1>0, <1>5 DEF AssignSchedule, TrainState
  <2>4. \A u \in Train \ {t} : trains'[u] = trains[u]
    BY <1>0, <1>5 DEF AssignSchedule
  <2> QED
    BY <1>1, <1>5, <2>1, <2>2, <2>3, <2>4 DEF AssignSchedule, AtRest, InTransit, NextEdge, trackVars
<1>6. ASSUME NEW t \in Train, PassesOn(t)
      PROVE  FALSE
  <2>1. agenda' = <<ExtendTask(t), RetryAll>>
    BY <1>6 DEF PassesOn, HandleTrainAtMarker
  <2> QED
    BY <1>3, <2>1
<1>7. ASSUME NEW t \in Train, NEW edge, NEW mm, NEW dwellOver, OrderlyStatus(t, edge, mm, dwellOver)
      PROVE  Settled'
  <2> DEFINE r == trains[t]
             seeded == IF r.current = None /\ r.entry = None
                       THEN [r EXCEPT !.current = edge] ELSE r
  <2>1. HandleTrainStatus(t, edge, mm, dwellOver)
    BY <1>7 DEF OrderlyStatus
  <2>2. cleared' = cleared
    BY <1>0, <1>3, <2>1 DEF HandleTrainStatus
  <2>3. /\ \A u \in Train \ {t} : trains'[u] = trains[u]
        /\ \/ trains'[t] = Advanced([seeded EXCEPT !.dwelling = FALSE])
           \/ trains'[t] = seeded
    BY <1>0, <2>1 DEF HandleTrainStatus
  <2>4. seeded \in [DOMAIN r -> {seeded[x] : x \in DOMAIN r}] /\ DOMAIN r = DOMAIN InitialTrainState
        /\ seeded.transit = r.transit /\ seeded.progress = r.progress
    BY <1>0 DEF TrainState, InitialTrainState
  <2> HIDE DEF seeded
  <2>5. trains'[t].transit = r.transit /\ trains'[t].progress = r.progress
    BY <1>0, <2>3, <2>4 DEF Advanced, TrainState
  <2> QED
    BY <1>1, <2>1, <2>2, <2>3, <2>5 DEF HandleTrainStatus, AtRest, InTransit, NextEdge, trackVars
<1>8. ASSUME NEW j, RecordSwitchPairing(j)
      PROVE  Settled'
  BY <1>1, <1>8 DEF RecordSwitchPairing, AtRest, InTransit, NextEdge
<1>9. ASSUME NEW j, HandleSwitchStateChanged(j, requested[j])
      PROVE  FALSE
  BY <1>3, <1>9 DEF HandleSwitchStateChanged
<1> QED
  BY <1>4, <1>5, <1>6, <1>7, <1>8, <1>9 DEF OrderlyNext

(* Planning makes nobody wait but the train that is planned, and for that  *)
(* a pass follows.  At the end of a pass nobody waits for what is free,    *)
(* and what the pass reports is how things stand.                          *)
LEMMA TasksSettle ==
    ASSUME TypeOK, TypeOK', Orderly, Orderly', Settled, PassLeavesNobodyBehind, Step, AtRest'
    PROVE  Settled'
<1>0. trains \in [Train -> TrainState]
  BY DEF TypeOK, TrainsOK
<1>1. DoPlan \/ DoExtend \/ DoRetry \/ EmitDeadlockState
  BY NobodyIsResolved DEF Orderly
<1>2. ASSUME NEW y, y.op = "retry" \/ y.op = "extend", agenda' = <<y>> \/ \E z : agenda' = <<y, z>>
      PROVE  FALSE
  <2>1. agenda' # <<>> /\ Head(agenda') = y
    BY <1>2, FirstOf
  <2> QED
    BY <1>2, <2>1 DEF AtRest, Idle
<1>3. CASE DoPlan
  <2>1. PICK t \in Train :
           /\ agenda = <<PlanTask(t)>> /\ Head(agenda).train = t /\ ~InTransit(t)
    BY <1>3, AgendaOf DEF DoPlan, Orderly
  <2> DEFINE r == trains[t]
             none == <<>>
             x == ExtendTask(t)
             y == RetryAll
  <2>2. \/ trains' = trains
        \/ agenda' = <<x, y>> \o Tail(agenda)
        \/ trains' = [trains EXCEPT ![t].transit = <<>>, ![t].progress = 1, ![t].limit = r.last]
        \/ trains' = [trains EXCEPT ![t] = Advanced(r)]
    BY <1>3, <2>1 DEF DoPlan, PlanAndExecuteCurrentTransit
  <2>3. agenda' # <<x, y>> \o Tail(agenda)
    <3>1. Tail(agenda) = <<>> /\ x.op = "extend"
      BY <2>1, FirstOf DEF ExtendTask
    <3> HIDE DEF x, y
    <3>2. <<x, y>> \o <<>> = <<x, y>>
      OBVIOUS
    <3>3. agenda' # <<x, y>>
      BY <1>2, <3>1
    <3> QED
      BY <3>1, <3>2, <3>3
  <2> HIDE DEF x, y
  <2>4. \A u \in Train \ {t} : trains'[u] = trains[u]
    BY <1>0, <2>2, <2>3
  <2>5. ~(InTransit(t)')
    <3>1. CASE trains' = trains
      BY <2>1, <3>1 DEF InTransit
    <3>2. CASE trains' = [trains EXCEPT ![t].transit = <<>>, ![t].progress = 1, ![t].limit = r.last]
      <4>1. DOMAIN none = {} /\ none = <<>>
        OBVIOUS
      <4> HIDE DEF none
      <4>2. trains'[t].transit = none
        BY <1>0, <3>2, <4>1 DEF TrainState
      <4> QED
        BY <4>1, <4>2 DEF InTransit
    <3>3. CASE trains' = [trains EXCEPT ![t] = Advanced(r)]
      <4>1. trains'[t].transit = r.transit /\ trains'[t].progress = r.progress
        BY <1>0, <3>3 DEF Advanced, TrainState
      <4> QED
        BY <2>1, <4>1 DEF InTransit
    <3> QED
      BY <2>2, <2>3, <3>1, <3>2, <3>3
  <2>6. /\ \A u \in Train : InTransit(u)' = InTransit(u)
        /\ \A u \in Train : InTransit(u) => NextEdge(u)' = NextEdge(u)
    BY <2>1, <2>4, <2>5 DEF InTransit, NextEdge
  <2>7. AtRest /\ cleared' = cleared /\ position' = position /\ deadlock' = deadlock
    BY <1>3 DEF DoPlan, AtRest, trackVars
  <2> QED
    BY <2>6, <2>7, NobodyMoves DEF Settled
<1>4. CASE DoExtend
  <2>1. PICK t \in Train, S \in SUBSET Train : agenda = <<ExtendTask(t), Pass(S)>>
    BY <1>4, AgendaOf DEF DoExtend, Orderly
  <2> DEFINE y == Pass(S)
  <2>2. agenda' = <<y>> /\ y.op = "retry"
    BY <1>4, <2>1, FirstOf, TaskNames DEF DoExtend
  <2> HIDE DEF y
  <2> QED
    BY <1>2, <2>2
<1>5. CASE DoRetry
  <2>1. PICK S \in SUBSET Train : agenda = <<Pass(S)>>
    BY <1>5, AgendaOf DEF DoRetry, Orderly
  <2> DEFINE x == Pass(S)
  <2>2. PICK t : agenda' = [agenda EXCEPT ![1].pending = @ \ {t}]
    BY <1>5 DEF DoRetry
  <2>3. agenda = <<x>> /\ x.op = "retry" /\ x \in [{"op", "train", "pending"} -> {x.op, x.train, x.pending}]
    BY <2>1 DEF Pass, RetryTask
  <2> HIDE DEF x
  <2> DEFINE y == [x EXCEPT !.pending = @ \ {t}]
  <2>4. agenda' = <<y>> /\ y.op = "retry"
    BY <2>2, <2>3
  <2> HIDE DEF y
  <2> QED
    BY <1>2, <2>4
<1>6. CASE EmitDeadlockState
  <2>1. Resolving /\ Head(agenda).train = None
    BY <1>6, AgendaOf DEF EmitDeadlockState, Resolving, Orderly
  <2>2. \A t \in CollectWaitingTrains : ~Grantable(t, NextEdge(t))
    BY <2>1 DEF PassLeavesNobodyBehind
  <2>3. deadlock' # {} <=> WaitsForCycles # {}
    <3>1. \/ WaitsForCycles = {} /\ deadlock' = {}
          \/ \E c \in WaitsForCycles : deadlock' = Range(c)
      BY <1>6 DEF EmitDeadlockState
    <3>2. ASSUME NEW c \in WaitsForCycles
          PROVE  Range(c) # {}
      <4>1. PICK t : c \in CyclesThrough(t)
        BY DEF WaitsForCycles
      <4>2. PICK n \in 2..Cardinality(Train) : c \in [1..n -> CollectWaitingTrains]
        BY <4>1 DEF CyclesThrough
      <4>3. n \in Int /\ n >= 2 /\ 1 \in 1..n
        BY <4>2
      <4>4. 1 \in DOMAIN c
        BY <4>2, <4>3
      <4> QED
        BY <4>4 DEF Range
    <3> QED
      BY <3>1, <3>2
  <2>4. trains' = trains /\ cleared' = cleared /\ position' = position
    BY <1>6 DEF EmitDeadlockState, trackVars
  <2>5. /\ \A u \in Train : InTransit(u)' = InTransit(u)
        /\ \A u \in Train : InTransit(u) => NextEdge(u)' = NextEdge(u)
    BY <2>4 DEF InTransit, NextEdge
  <2> QED
    BY <2>2, <2>3, <2>4, <2>5, NobodyMoves DEF Settled
<1> QED
  BY <1>1, <1>3, <1>4, <1>5, <1>6

(* What nobody waits for at the start.                                     *)
LEMMA SettledAtTheStart == Init => Settled
<1> SUFFICES ASSUME Init
             PROVE  Settled
  OBVIOUS
<1>1. arrival = <<>> /\ Registered = {} /\ deadlock = {}
  BY DEF Init, Registered, Range
<1>2. CollectWaitingTrains = {}
  BY <1>1 DEF CollectWaitingTrains
<1>3. WaitsForCycles = {}
  <2>1. {i \in DOMAIN arrival : CyclesThrough(arrival[i]) # {}} = {}
    BY <1>1
  <2> QED
    BY <2>1 DEF WaitsForCycles
<1> QED
  BY <1>1, <1>2, <1>3 DEF Settled

(* Between passes nobody waits for what is free, and the banner is up if,  *)
(* and only if, trains wait for each other: every event that frees a block *)
(* or makes one passable leads to a pass, and every event that does not    *)
(* leaves all who wait as they were (retryBlockedClearances,               *)
(* emitDeadlockState).                                                     *)
THEOREM OrderSettles == PlansAreWays /\ OrderlySpec => []Settled
<1> SUFFICES ASSUME PlansAreWays
             PROVE  OrderlySpec => []Settled
  OBVIOUS
<1>1. Init => Settled
  BY SettledAtTheStart
<1>2. TypeOK /\ TypeOK' /\ Orderly /\ Orderly' /\ PassLeavesNobodyBehind /\ Settled /\ [OrderlyNext]_vars
        => Settled'
  <2> SUFFICES ASSUME TypeOK, TypeOK', Orderly, Orderly', PassLeavesNobodyBehind, Settled,
                      [OrderlyNext]_vars, AtRest'
               PROVE  Settled'
    BY DEF Settled
  <2>1. CASE UNCHANGED vars
    <3>1. /\ \A u \in Train : InTransit(u)' = InTransit(u)
          /\ \A u \in Train : InTransit(u) => NextEdge(u)' = NextEdge(u)
          /\ AtRest /\ cleared' = cleared /\ position' = position /\ deadlock' = deadlock
      BY <2>1 DEF vars, InTransit, NextEdge, AtRest, Idle
    <3> QED
      BY <3>1, NobodyMoves DEF Settled
  <2> QED
    BY <2>1, TasksSettle, EventsSettle
<1>3. Safety => []TypeOK /\ []PassLeavesNobodyBehind
  BY TypeCorrect, NobodyIsLeftBehind
<1>4. OrderlySpec => []Orderly
  BY OrderPrevails
<1> QED
  BY <1>1, <1>2, <1>3, <1>4, PTL DEF OrderlySpec, Safety

(* The banner tells the truth in an orderly world (emitDeadlockState).     *)
THEOREM BannerIsTrue == PlansAreWays /\ OrderlySpec => []DeadlockReported
<1>1. Settled => DeadlockReported
  BY DEF Settled, AtRest, DeadlockReported
<1> QED
  BY <1>1, OrderSettles, PTL

-----------------------------------------------------------------------------
(* The tail.                                                               *)

(* No blocks have no length.                                               *)
LEMMA EmptyRun == AllMeasured(<<>>) /\ RunLength(<<>>) = 0
<1> DEFINE none == <<>>
           S == DOMAIN none
           first(s) == CHOOSE x \in s : TRUE
           Sums(g) == g = [s \in SUBSET S |-> IF s = {} THEN 0
                             ELSE EdgeLength[none[first(s)]] + g[s \ {first(s)}]]
           c == CHOOSE g : Sums(g)
<1>1. RunLength(none) = c[S]
  BY DEF RunLength, MapThenSumSet, MapThenFoldSet
<1>2. S = {} /\ SUBSET S = {{}}
  OBVIOUS
<1>3. Sums([s \in SUBSET S |-> 0])
  BY <1>2
<1>4. Sums(c)
  <2> HIDE DEF Sums
  <2> QED
    BY <1>3
<1>5. c[S] = 0
  <2> HIDE DEF c
  <2> QED
    BY <1>2, <1>4
<1>6. AllMeasured(none)
  BY <1>2 DEF AllMeasured
<1> QED
  BY <1>1, <1>5, <1>6

(* Of at most one block behind the head, the tail releases that one when   *)
(* it leads to the edge that the head is on, and the head is far enough    *)
(* past the start of it.                                                   *)
LEMMA OneBlockBehind ==
    ASSUME NEW t \in Train, trains[t] \in TrainState, cleared[t] \subseteq Block,
           NEW edge, NEW distance \in Nat,
           \A x, y \in cleared[t] \ Forward(t, edge) : x = y,
           NEW freed \in CollectTailReleases(t, edge, distance)
    PROVE  /\ freed # {} => /\ distance >= trains[t].length
                            /\ \E x \in cleared[t] \ Forward(t, edge) : To(x) = From(edge)
           /\ distance >= trains[t].length
              /\ (\A x \in cleared[t] \ Forward(t, edge) : To(x) = From(edge))
                => freed = cleared[t] \ Forward(t, edge)
<1> DEFINE K == cleared[t] \ Forward(t, edge)
           runs == BackwardRuns(K, From(edge))
           left(p) == {i \in DOMAIN p : TailHasLeft(t, SubSeq(p, 1, i - 1), distance)}
           given(p) == {p[k] : k \in left(p)}
<1>1. /\ trains[t].length \in Nat
      /\ K = {} \/ \E b \in K : K = {b}
  BY DEF TrainState
<1>2. \/ runs = {} /\ freed = {}
      \/ \E p \in runs : (\A q \in runs : ~IsStrictPrefix(p, q)) /\ freed = given(p)
  BY DEF CollectTailReleases
<1> HIDE DEF K
<1>3. CASE K = {}
  <2>1. Cardinality(K) = 0
    BY <1>3, FS_EmptySet
  <2>2. runs = {}
    BY <2>1 DEF BackwardRuns
  <2> HIDE DEF runs
  <2> QED
    BY <1>2, <1>3, <2>2 DEF K
<1>4. ASSUME NEW b, K = {b}
      PROVE  /\ freed # {} => distance >= trains[t].length /\ \E x \in K : To(x) = From(edge)
             /\ distance >= trains[t].length /\ To(b) = From(edge) => freed = K
  <2>1. Cardinality(K) = 1
    BY <1>4, FS_Singleton
  <2> DEFINE one == [i \in 1..1 |-> b]
  <2>2. \A p \in runs : p = one /\ To(b) = From(edge)
    <3> TAKE p \in runs
    <3>1. PICK n \in 1..1 : p \in [1..n -> K]
      BY <2>1 DEF BackwardRuns
    <3>2. n = 1
      OBVIOUS
    <3>3. p \in [1..1 -> {b}] /\ 1 \in 1..1 /\ 1..1 = {1}
      BY <1>4, <3>1, <3>2
    <3>4. p = one /\ p[1] = b
      BY <3>3
    <3>5. To(p[1]) = From(edge)
      BY DEF BackwardRuns
    <3> QED
      BY <3>4, <3>5
  <2>3. To(b) = From(edge) => one \in runs
    <3> HAVE To(b) = From(edge)
    <3>1. one \in [1..1 -> K] /\ Len(one) = 1 /\ DOMAIN one = {1} /\ one[1] = b /\ 1 \in 1..1
      BY <1>4
    <3>2. one \in UNION {[1..n -> K] : n \in 1..Cardinality(K)}
      BY <2>1, <3>1
    <3> HIDE DEF one
    <3>3. \A i \in 1..(Len(one) - 1) : To(one[i + 1]) = From(one[i])
      BY <3>1
    <3>4. IsInjective([i \in DOMAIN one |-> To(one[i])])
      BY <3>1 DEF IsInjective
    <3> QED
      BY <3>1, <3>2, <3>3, <3>4 DEF BackwardRuns
  <2>4. left(one) = IF distance >= trains[t].length THEN {1} ELSE {}
    <3>1. SubSeq(one, 1, 1 - 1) = <<>>
      OBVIOUS
    <3> DEFINE none == SubSeq(one, 1, 1 - 1)
    <3>2. none = <<>> /\ DOMAIN one = {1}
      BY <3>1
    <3> HIDE DEF none
    <3>3. TailHasLeft(t, none, distance) <=> distance >= trains[t].length
      BY <1>1, <3>2, EmptyRun DEF TailHasLeft
    <3> QED
      BY <3>2, <3>3 DEF none
  <2>5. given(one) = IF distance >= trains[t].length THEN K ELSE {}
    <3> DEFINE n == left(one)
    <3>1. one[1] = b /\ given(one) = {one[k] : k \in n}
      OBVIOUS
    <3>2. n = IF distance >= trains[t].length THEN {1} ELSE {}
      BY <2>4
    <3> HIDE DEF n, one
    <3> QED
      BY <1>4, <3>1, <3>2
  <2> HIDE DEF runs, given, one
  <2> QED
    BY <1>2, <1>4, <2>2, <2>3, <2>5
<1> QED
  BY <1>1, <1>3, <1>4 DEF K

(* While the status of a train speaks of the block before it, the tail     *)
(* releases the block behind it when the head is far enough, and only if   *)
(* the train holds the block before it; otherwise nothing changes hands.   *)
LEMMA TailStays ==
    ASSUME TypeOK, Orderly, NEW t \in Train, trains[t].length # 0,
           NEW edge, NEW mm \in Nat, NEW dwellOver,
           OrderlyStatus(t, edge, mm, dwellOver)
    PROVE  /\ cleared'[t] # cleared[t] =>
                /\ edge = NextEdge(t) /\ InTransit(t) /\ edge \in cleared[t]
                /\ mm >= trains[t].length
                /\ cleared'[t] = cleared[t] \cap AheadOf(trains[t])
           /\ InTransit(t) /\ edge = NextEdge(t) /\ edge # None /\ mm >= trains[t].length =>
                cleared'[t] = cleared[t] \cap AheadOf(trains[t])
<1> DEFINE r == trains[t]
           S == cleared[t]
<1>1. /\ r \in TrainState /\ Fit(t, r, S) /\ S \subseteq Block
      /\ r.progress \in Nat /\ r.transit \in Seq(Block) /\ r.length \in Nat
  BY DEF Orderly, Fitting, TypeOK, TrainsOK, TrainState
<1>2. /\ HandleTrainStatus(t, edge, mm, dwellOver)
      /\ \/ edge = None
         \/ r.last # None /\ From(edge) # r.last
         \/ /\ InTransit(t) /\ edge = NextEdge(t)
            /\ mm < r.length \/ edge \in S
  BY DEF OrderlyStatus
<1>3. InTransit(t) => ~r.dwelling /\ r.last = From(NextEdge(t)) /\ NextEdge(t) \in AheadOf(r)
  <2> HAVE InTransit(t)
  <2>1. UnderWay(r) /\ r.transit # <<>>
    BY <1>1 DEF InTransit, UnderWay
  <2>2. ~r.dwelling /\ r.last = From(NextEdge(t))
    BY <1>1, <2>1 DEF Fit, OnItsWay, Place, NextEdge
  <2>3. NextEdge(t) \in AheadOf(r)
    BY <1>1, <2>1 DEF AheadOf, NextEdge, UnderWay
  <2> QED
    BY <2>2, <2>3
<1>4. CASE edge = None \/ (r.dwelling /\ dwellOver)
  <2>1. cleared'[t] = cleared[t]
    <3>1. cleared = [u \in Train |-> cleared[u]]
      BY DEF TypeOK, TrainsOK
    <3>2. CASE r.dwelling /\ dwellOver
      BY <1>2, <3>2 DEF HandleTrainStatus
    <3>3. CASE ~(r.dwelling /\ dwellOver)
      <4>1. edge = None
        BY <1>4, <3>3
      <4>2. \E freed \in {{}} : cleared' = [cleared EXCEPT ![t] = @ \ freed]
        BY <1>2, <3>3, <4>1 DEF HandleTrainStatus
      <4> QED
        BY <3>1, <4>2
    <3> QED
      BY <3>2, <3>3
  <2> QED
    BY <1>3, <1>4, <2>1
<1>5. ASSUME edge # None, ~(r.dwelling /\ dwellOver)
      PROVE  /\ cleared'[t] # cleared[t] =>
                  /\ edge = NextEdge(t) /\ InTransit(t) /\ edge \in cleared[t]
                  /\ mm >= r.length
                  /\ cleared'[t] = cleared[t] \cap AheadOf(r)
             /\ InTransit(t) /\ edge = NextEdge(t) /\ mm >= r.length =>
                  cleared'[t] = cleared[t] \cap AheadOf(r)
  <2>1. PICK freed \in CollectTailReleases(t, edge, mm) : cleared'[t] = S \ freed
    BY <1>2, <1>5 DEF HandleTrainStatus, TypeOK, TrainsOK
  <2> DEFINE K == S \ Forward(t, edge)
  <2>2. K \subseteq S \ AheadOf(r)
    BY DEF Forward, AheadOf
  <2>3. (\A x, y \in K : x = y) /\ \A x \in K : To(x) = r.last
    BY <1>1, <2>2 DEF Fit, HoldsInOrder
  <2>4. /\ freed # {} => mm >= r.length /\ \E x \in K : To(x) = From(edge)
        /\ mm >= r.length /\ (\A x \in K : To(x) = From(edge)) => freed = K
    BY <1>1, <2>3, OneBlockBehind
  <2>5. freed # {} => InTransit(t) /\ edge = NextEdge(t)
    BY <1>2, <1>5, <2>3, <2>4
  <2>6. InTransit(t) /\ edge = NextEdge(t) => K = S \ AheadOf(r)
    BY <1>3 DEF Forward, AheadOf
  <2>7. InTransit(t) /\ edge = NextEdge(t) /\ mm >= r.length => freed = S \ AheadOf(r)
    BY <1>3, <2>3, <2>4, <2>6
  <2>8. freed # {} => edge \in S
    <3> HAVE freed # {}
    <3>1. mm >= r.length /\ ~(r.last # None /\ From(edge) # r.last)
      BY <2>3, <2>4
    <3>2. ~(mm < r.length)
      BY <1>1, <3>1
    <3> QED
      BY <1>2, <1>5, <3>1, <3>2
  <2> HIDE DEF K
  <2> QED
    BY <2>1, <2>4, <2>5, <2>7, <2>8
<1> QED
  BY <1>4, <1>5

-----------------------------------------------------------------------------
(* Points.                                                                 *)

(* What is true of a train with record r that holds the blocks S, while    *)
(* the switches are at P.  Points are set for what it holds ahead of it,   *)
SetFor(r, S, P) ==
    \A i \in DOMAIN r.transit :
        i >= r.progress /\ r.transit[i] \in S /\ r.transit[i] \in DOMAIN Switched =>
            P[From(r.transit[i])] = Switched[r.transit[i]]

(* where it is at a junction, it holds the block that led there, or the    *)
(* one that leads on,                                                      *)
Grounded(r, S) ==
    r.last \in Junction =>
        \/ \E b \in S : To(b) = r.last
        \/ UnderWay(r) /\ r.transit[r.progress] \in S

(* and it waits for junction j to move to p with a hold on the junction.   *)
Awaits(r, S, j, p) ==
    /\ \E i \in DOMAIN r.transit :
          /\ i >= r.progress /\ From(r.transit[i]) = j
          /\ r.transit[i] \in DOMAIN Switched /\ Switched[r.transit[i]] = p
    /\ \E b \in S : To(b) = j

(* A switch that is asked to move is asked for a train that is the only    *)
(* one near it.                                                            *)
AskedFor(j) ==
    requested[j] \notin {None, position[j]} =>
        \E t \in Train : Awaits(trains[t], cleared[t], j, requested[j])

Points ==
    /\ \A t \in Train : SetFor(trains[t], cleared[t], position)
    /\ \A t \in Train : Grounded(trains[t], cleared[t])
    /\ \A j \in Junction : AskedFor(j)

(* Who has no block before it awaits no switch.                            *)
LEMMA NobodyAwaits ==
    ASSUME NEW r \in TrainState, ~UnderWay(r), NEW S, NEW j, NEW p
    PROVE  ~Awaits(r, S, j, p)
<1>1. r.progress \in Nat \ {0} /\ r.transit \in Seq(Block)
  BY DEF TrainState
<1> QED
  BY <1>1 DEF Awaits, UnderWay

(* What a train awaits, it does not hold.                                  *)
LEMMA AwaitedIsNotHeld ==
    ASSUME NEW r, NEW S, NEW P, SetFor(r, S, P), NEW j, NEW i \in DOMAIN r.transit,
           i >= r.progress, From(r.transit[i]) = j, r.transit[i] \in DOMAIN Switched,
           P[j] # Switched[r.transit[i]]
    PROVE  r.transit[i] \notin S
  BY DEF SetFor

(* A train that changes neither its way nor its place, and takes nothing   *)
(* back, stands and waits as before.                                       *)
LEMMA PointsStay ==
    ASSUME Points, position' = position, requested' = requested,
           \A t \in Train : /\ trains'[t].transit = trains[t].transit
                            /\ trains'[t].progress = trains[t].progress
                            /\ trains'[t].last = trains[t].last
                            /\ cleared'[t] = cleared[t]
    PROVE  Points'
  BY DEF Points, SetFor, Grounded, Awaits, AskedFor, UnderWay

(* A step that moves one train only leaves the points in order if that     *)
(* train is in order, and still awaits what it awaited.                    *)
LEMMA PointsOfOne ==
    ASSUME Points, position' = position, requested' = requested, NEW t \in Train,
           \A u \in Train \ {t} : trains'[u] = trains[u] /\ cleared'[u] = cleared[u],
           SetFor(trains'[t], cleared'[t], position),
           Grounded(trains'[t], cleared'[t]),
           \A j \in Junction :
               requested[j] # position[j] /\ Awaits(trains[t], cleared[t], j, requested[j]) =>
                   Awaits(trains'[t], cleared'[t], j, requested[j])
    PROVE  Points'
<1>1. \A u \in Train : /\ SetFor(trains'[u], cleared'[u], position)
                       /\ Grounded(trains'[u], cleared'[u])
  BY DEF Points
<1>2. \A j \in Junction : AskedFor(j)'
  <2> TAKE j \in Junction
  <2> SUFFICES ASSUME requested[j] \notin {None, position[j]}
               PROVE  \E u \in Train : Awaits(trains'[u], cleared'[u], j, requested[j])
    BY DEF AskedFor
  <2>1. PICK u \in Train : Awaits(trains[u], cleared[u], j, requested[j])
    BY DEF Points, AskedFor
  <2>2. CASE u = t
    BY <2>1, <2>2
  <2>3. CASE u # t
    BY <2>1, <2>3
  <2> QED
    BY <2>2, <2>3
<1> QED
  BY <1>1, <1>2 DEF Points

(* A walk grants only what the points are set for, and asks for points     *)
(* only at the end of a block that the train then holds.                   *)
LEMMA WalkSetsPoints ==
    ASSUME TypeOK, Orderly, Points, NEW t \in Train, ExtendClearanceHorizon(t),
           position' = position
    PROVE  Points'
<1> DEFINE r == trains[t]
           s == trains'[t]
           S == cleared[t]
           H == cleared'[t]
<1>1. PICK h \in HORIZON_EDGES..HORIZON_MAX_EDGES :
        /\ cleared' = [cleared EXCEPT ![t] = @ \cup {r.transit[i] : i \in NewlyGranted(t, h)}]
        /\ requested' = [j \in Marker |->
                            IF \E e \in SwitchesToThrow(t, h) : From(e) = j
                            THEN Switched[CHOOSE e \in SwitchesToThrow(t, h) : From(e) = j]
                            ELSE requested[j]]
  BY DEF ExtendClearanceHorizon
<1>2. /\ r \in TrainState /\ r.transit \in Seq(Block) /\ r.progress \in Nat \ {0}
      /\ Fit(t, r, S)
      /\ H = S \cup {r.transit[i] : i \in NewlyGranted(t, h)}
  BY <1>1 DEF TypeOK, TrainsOK, TrainState, Orderly, Fitting
<1>3. /\ s.transit = r.transit /\ s.progress = r.progress /\ s.last = r.last
      /\ \A u \in Train \ {t} : trains'[u] = trains[u] /\ cleared'[u] = cleared[u]
  <2>1. PICK x : s = [r EXCEPT !.limit = x]
    BY WalkAdds
  <2> QED
    BY <1>2, <2>1, WalkAdds DEF TrainState
<1>4. SetFor(s, H, position)
  <2>1. ASSUME NEW i \in NewlyGranted(t, h), r.transit[i] \in DOMAIN Switched
        PROVE  position[From(r.transit[i])] = Switched[r.transit[i]]
    BY <2>1 DEF NewlyGranted, Grantable, EdgeRequiresMismatchedSwitch
  <2>2. SetFor(r, S, position)
    BY DEF Points
  <2> HIDE DEF r, s, S, H
  <2> QED
    BY <1>2, <1>3, <2>1, <2>2 DEF SetFor
<1>5. Grounded(r, S) => Grounded(s, H)
  <2> HIDE DEF r, s, S, H
  <2> QED
    BY <1>2, <1>3 DEF Grounded, UnderWay
<1>6. \A j, p : Awaits(r, S, j, p) => Awaits(s, H, j, p)
  <2> HIDE DEF r, s, S, H
  <2> QED
    BY <1>2, <1>3 DEF Awaits
<1>7. ASSUME NEW j \in Junction, requested'[j] # requested[j]
      PROVE  Awaits(s, H, j, requested'[j])
  <2>1. j \in Marker
    BY BlockEnds, LayoutAssumption DEF Junction, Block
  <2> DEFINE x == CHOOSE e \in SwitchesToThrow(t, h) : From(e) = j
  <2>2. x \in SwitchesToThrow(t, h) /\ From(x) = j /\ requested'[j] = Switched[x]
    BY <1>1, <1>7, <2>1
  <2> HIDE DEF x
  <2>3. PICK i \in Walked(t, h) : x = r.transit[i]
    BY <2>2 DEF SwitchesToThrow
  <2>4. /\ i \in DOMAIN r.transit /\ i >= r.progress /\ i < r.progress + h
        /\ \A k \in r.progress..(i - 1) : r.transit[k] \in S \/ Grantable(t, r.transit[k])
    BY <1>2, <2>3 DEF Walked
  <2>5. x \notin S /\ x \in DOMAIN Switched
    BY <2>2 DEF SwitchesToThrow, MustThrowSwitch, EdgeRequiresMismatchedSwitch
  <2>6. UnderWay(r) /\ i \in Nat /\ Len(r.transit) \in Nat /\ h \in Nat
    <3>1. h \in Nat
      BY HorizonAssumption
    <3> HIDE DEF r
    <3>2. i \in Nat /\ Len(r.transit) \in Nat /\ i \in 1..Len(r.transit)
      BY <1>2, <2>4
    <3>3. r.progress \in 1..Len(r.transit)
      BY <1>2, <2>4, <3>2
    <3>4. UnderWay(r)
      BY <1>2, <3>3 DEF UnderWay
    <3> QED
      BY <3>1, <3>2, <3>4
  <2>7. CASE i = r.progress
    <3>1. r.last = j
      BY <1>2, <2>2, <2>3, <2>6, <2>7 DEF Fit, OnItsWay, Place, UnderWay
    <3>2. Grounded(r, S)
      BY DEF Points
    <3>3. \E b \in H : To(b) = j
      BY <1>2, <2>3, <2>5, <2>7, <3>1, <3>2 DEF Grounded
    <3> HIDE DEF r, s, S, H
    <3> QED
      BY <1>3, <2>2, <2>3, <2>4, <2>5, <3>3 DEF Awaits
  <2>8. CASE i # r.progress
    <3> DEFINE k == i - 1
    <3>1. /\ k \in r.progress..(i - 1) /\ k \in DOMAIN r.transit /\ k + 1 = i
          /\ k >= r.progress /\ k < r.progress + h
      BY <1>2, <2>4, <2>6, <2>8
    <3>2. r.transit[k] \in H
      <4>1. CASE r.transit[k] \in S
        BY <1>2, <4>1
      <4>2. CASE r.transit[k] \notin S
        <5>1. Grantable(t, r.transit[k])
          BY <2>4, <3>1, <4>2
        <5>2. \A m \in r.progress..(k - 1) : r.transit[m] \in S \/ Grantable(t, r.transit[m])
          BY <1>2, <2>4, <2>6, <3>1
        <5> HIDE DEF k
        <5>3. k \in NewlyGranted(t, h)
          BY <3>1, <4>2, <5>1, <5>2 DEF NewlyGranted, Walked
        <5> QED
          BY <1>2, <5>3
      <4> QED
        BY <4>1, <4>2
    <3>3. To(r.transit[k]) = j
      BY <1>2, <2>2, <2>3, <2>4, <3>1 DEF Fit, OnItsWay, IsWay
    <3> HIDE DEF r, s, S, H, k
    <3> QED
      BY <1>3, <2>2, <2>3, <2>4, <2>5, <3>2, <3>3 DEF Awaits
  <2> QED
    BY <2>7, <2>8
<1>8. \A j \in Junction : AskedFor(j)'
  <2> TAKE j \in Junction
  <2> SUFFICES ASSUME requested'[j] \notin {None, position[j]}
               PROVE  \E u \in Train : Awaits(trains'[u], cleared'[u], j, requested'[j])
    BY DEF AskedFor
  <2>1. CASE requested'[j] # requested[j]
    BY <1>7, <2>1
  <2>2. CASE requested'[j] = requested[j]
    <3>1. PICK u \in Train : Awaits(trains[u], cleared[u], j, requested[j])
      BY <2>2 DEF Points, AskedFor
    <3> HIDE DEF r, s, S, H
    <3>2. CASE u = t
      BY <1>6, <2>2, <3>1, <3>2 DEF r, s, S, H
    <3>3. CASE u # t
      BY <1>3, <2>2, <3>1, <3>3
    <3> QED
      BY <3>2, <3>3
  <2> QED
    BY <2>1, <2>2
<1>9. \A u \in Train : SetFor(trains'[u], cleared'[u], position') /\ Grounded(trains'[u], cleared'[u])
  <2> TAKE u \in Train
  <2>1. SetFor(trains[u], cleared[u], position) /\ Grounded(trains[u], cleared[u])
    BY DEF Points
  <2> HIDE DEF r, s, S, H
  <2>2. CASE u = t
    BY <1>4, <1>5, <2>1, <2>2 DEF r, s, S, H
  <2>3. CASE u # t
    BY <1>3, <2>1, <2>3
  <2> QED
    BY <2>2, <2>3
<1> QED
  BY <1>8, <1>9 DEF Points

(* A new route starts with blocks that the train does not hold.            *)
LEMMA PlanSetsPoints ==
    ASSUME TypeOK, Orderly, Orderly', Points, DoPlan
    PROVE  Points'
<1>1. PICK t \in Train :
        /\ agenda = <<PlanTask(t)>> /\ Head(agenda).train = t /\ ~InTransit(t)
  BY AgendaOf DEF Orderly, DoPlan, Idle
<1> DEFINE r == trains[t]
           s == trains'[t]
           S == cleared[t]
           route == Plan(known, r.last, r.stops[r.stop], IF r.current # None THEN r.current ELSE r.entry)
           none == <<>>
           start == From(route[1])
<1>2. /\ r \in TrainState /\ Fit(t, r, S) /\ ~UnderWay(r) /\ cleared' = cleared
      /\ position' = position /\ requested' = requested
      /\ Fit(t, s, S)
  <2>1. cleared' = cleared /\ position' = position /\ requested' = requested
    BY DEF DoPlan, trackVars
  <2>2. Fit(t, s, cleared'[t])
    BY DEF Orderly, Fitting
  <2> QED
    BY <1>1, <2>1, <2>2 DEF Orderly, Fitting, TypeOK, TrainsOK, InTransit, UnderWay
<1>3. /\ \A u \in Train \ {t} : trains'[u] = trains[u]
      /\ \/ s = r
         \/ s = [r EXCEPT !.transit = route, !.progress = 1, !.limit = start]
         \/ s = [r EXCEPT !.transit = none, !.progress = 1, !.limit = r.last]
         \/ s = Advanced(r)
  <2>1. \/ UNCHANGED trains
        \/ trains' = [trains EXCEPT ![t].transit = route, ![t].progress = 1,
                                    ![t].limit = From(route[1])]
        \/ trains' = [trains EXCEPT ![t].transit = <<>>, ![t].progress = 1,
                                    ![t].limit = r.last]
        \/ trains' = [trains EXCEPT ![t] = Advanced(r)]
    BY <1>1 DEF DoPlan, PlanAndExecuteCurrentTransit
  <2>2. trains \in [Train -> TrainState]
    BY DEF TypeOK, TrainsOK
  <2> HIDE DEF route, start, none
  <2> QED
    BY <2>1, <2>2 DEF start, none
<1> HIDE DEF r, s, S, route, start, none
<1>4. /\ s.last = r.last
      /\ s.progress = 1 \/ (s.transit = r.transit /\ s.progress = r.progress)
  BY <1>2, <1>3 DEF Advanced, TrainState
<1>5. \A b \in S : To(b) = r.last
  <2>1. AheadOf(r) = {}
    <3>1. r.progress \in Nat \ {0} /\ r.transit \in Seq(Block)
      BY <1>2 DEF TrainState
    <3> QED
      BY <1>2, <3>1 DEF UnderWay, AheadOf
  <2> QED
    BY <1>2, <2>1 DEF Fit, HoldsInOrder
<1>6. \A i \in DOMAIN s.transit : i >= s.progress => s.transit[i] \notin S
  <2>0. CASE s.transit = r.transit /\ s.progress = r.progress
    <3>1. r.progress \in Nat \ {0} /\ r.transit \in Seq(Block)
      BY <1>2 DEF TrainState
    <3> QED
      BY <1>2, <2>0, <3>1 DEF UnderWay
  <2>1. CASE s.progress = 1
    <3> SUFFICES ASSUME NEW i \in DOMAIN s.transit
                 PROVE  s.transit[i] \notin S
      OBVIOUS
    <3>1. IsWay(s.transit) /\ s.transit # <<>> /\ 1 \in DOMAIN s.transit
      BY <1>2 DEF Fit, OnItsWay, IsWay
    <3>2. s.last = From(s.transit[1])
      BY <1>2, <2>1, <3>1 DEF Fit, OnItsWay, Place, UnderWay
    <3>3. To(s.transit[i]) # r.last
      BY <1>4, <3>1, <3>2 DEF IsWay
    <3> QED
      BY <1>5, <3>3
  <2> QED
    BY <1>4, <2>0, <2>1
<1>7. SetFor(s, S, position)
  BY <1>6 DEF SetFor
<1>8. Grounded(s, S)
  <2>1. Grounded(r, S)
    BY DEF Points, r, S
  <2> QED
    BY <1>2, <1>4, <2>1 DEF Grounded
<1>9. \A j : ~Awaits(r, S, j, requested[j])
  BY <1>2, NobodyAwaits
<1> QED
  BY <1>2, <1>3, <1>7, <1>8, <1>9, PointsOfOne DEF r, s, S

(* The tasks of a handler keep the points in order.                        *)
LEMMA TasksSetPoints ==
    ASSUME TypeOK, Orderly, Orderly', Points, Step
    PROVE  Points'
<1>1. DoPlan \/ DoExtend \/ DoRetry \/ EmitDeadlockState
  BY NobodyIsResolved DEF Orderly
<1>2. CASE DoExtend
  <2>1. PICK t \in Train : Head(agenda).train = t
    BY <1>2, AgendaOf DEF DoExtend, Orderly
  <2> QED
    BY <1>2, <2>1, WalkSetsPoints DEF DoExtend, trackVars
<1>3. CASE DoRetry
  <2>1. PICK S \in SUBSET Train : Head(agenda).pending = S
    BY <1>3, AgendaOf DEF DoRetry, Orderly
  <2>2. PICK t \in Train : ExtendClearanceHorizon(t)
    BY <1>3, <2>1 DEF DoRetry
  <2> QED
    BY <1>3, <2>2, WalkSetsPoints DEF DoRetry, trackVars
<1>4. CASE EmitDeadlockState
  BY <1>4, PointsStay DEF EmitDeadlockState, trackVars
<1> QED
  BY <1>1, <1>2, <1>3, <1>4, PlanSetsPoints

(* A train that passes a marker holds the block that led there.            *)
LEMMA PassKeepsPoints ==
    ASSUME LongTrainsOffJunctions, TypeOK, Orderly, Orderly', Points, NEW t \in Train, PassesOn(t)
    PROVE  Points'
<1> DEFINE r == trains[t]
           s == trains'[t]
           S == cleared[t]
           e == r.transit[r.progress]
           m == To(e)
           q == [r EXCEPT !.last = m, !.entry = None]
<1>1. /\ r \in TrainState /\ Fit(t, r, S) /\ e \in S /\ UnderWay(r)
      /\ r.progress \in Nat \ {0} /\ r.transit \in Seq(Block) /\ m \in Marker
      /\ SetFor(r, S, position)
  <2>1. /\ r \in TrainState /\ Fit(t, r, S) /\ e \in S /\ UnderWay(r)
        /\ SetFor(r, S, position)
    BY DEF Orderly, Fitting, TypeOK, TrainsOK, PassesOn, InTransit, NextEdge, UnderWay, Points
  <2>2. r.progress \in Nat \ {0} /\ r.transit \in Seq(Block)
    BY <2>1 DEF TrainState
  <2>3. e \in Block
    BY <2>1, <2>2 DEF UnderWay
  <2> QED
    BY <2>1, <2>2, <2>3, BlockEnds
<1>2. /\ s = AdvanceTransit(q, m)
      /\ cleared'[t] = IF r.length = 0 THEN {x \in S : To(x) # m} ELSE S
      /\ \A u \in Train \ {t} : trains'[u] = trains[u] /\ cleared'[u] = cleared[u]
      /\ t \in Registered /\ position' = position /\ requested' = requested
  BY DEF PassesOn, HandleTrainAtMarker, Reporting, TypeOK, TrainsOK, NextEdge
<1>3. cleared'[t] = S
  <2>1. r.length # 0
    BY <1>2 DEF LongTrainsOffJunctions, Orderly, Quiet
  <2> QED
    BY <1>2, <2>1
<1>4. /\ q \in TrainState /\ q.transit = r.transit /\ q.progress = r.progress /\ q.last = m
  BY <1>1 DEF TrainState
<1> HIDE DEF q
<1>5. /\ s.transit = r.transit /\ s.last = m /\ s.progress = r.progress + 1
  <2>1. q.progress \in DOMAIN q.transit /\ To(q.transit[q.progress]) = m
    BY <1>1, <1>4 DEF UnderWay
  <2> HIDE DEF m
  <2> QED
    BY <1>2, <1>4, <2>1 DEF AdvanceTransit, TrainState
<1> HIDE DEF r, s, S
<1>6. SetFor(s, S, position)
  BY <1>1, <1>5 DEF SetFor
<1>7. Grounded(s, S)
  BY <1>1, <1>5 DEF Grounded
<1>8. ASSUME NEW j \in Junction, requested[j] # position[j], Awaits(r, S, j, requested[j])
      PROVE  Awaits(s, S, j, requested[j])
  <2>1. PICK i \in DOMAIN r.transit :
          /\ i >= r.progress /\ From(r.transit[i]) = j
          /\ r.transit[i] \in DOMAIN Switched /\ Switched[r.transit[i]] = requested[j]
    BY <1>8 DEF Awaits
  <2>2. r.transit[i] \notin S
    BY <1>1, <1>8, <2>1, AwaitedIsNotHeld
  <2>3. i # r.progress
    BY <1>1, <2>2
  <2>4. i >= s.progress
    BY <1>1, <1>5, <2>1, <2>3
  <2> QED
    BY <1>5, <1>8, <2>1, <2>4 DEF Awaits
<1> QED
  BY <1>2, <1>3, <1>6, <1>7, <1>8, PointsOfOne DEF r, s, S

(* The tail leaves a junction only when the train holds the way on.        *)
LEMMA StatusKeepsPoints ==
    ASSUME LongTrainsOffJunctions, TypeOK, Orderly, Points, NEW t \in Train,
           NEW edge, NEW mm \in Distances, NEW dwellOver, OrderlyStatus(t, edge, mm, dwellOver)
    PROVE  Points'
<1> DEFINE r == trains[t]
           s == trains'[t]
           S == cleared[t]
           H == cleared'[t]
           seeded == IF r.current = None /\ r.entry = None
                     THEN [r EXCEPT !.current = edge] ELSE r
<1>1. /\ r \in TrainState /\ Fit(t, r, S) /\ SetFor(r, S, position) /\ Grounded(r, S)
      /\ r.progress \in Nat \ {0} /\ r.transit \in Seq(Block)
  BY DEF Orderly, Fitting, TypeOK, TrainsOK, Points, TrainState
<1>2. /\ \A u \in Train \ {t} : trains'[u] = trains[u] /\ cleared'[u] = cleared[u]
      /\ \/ s = Advanced([seeded EXCEPT !.dwelling = FALSE])
         \/ s = seeded
      /\ t \in Registered /\ position' = position /\ requested' = requested
  BY DEF OrderlyStatus, HandleTrainStatus, TypeOK, TrainsOK, trackVars
<1>3. s.transit = r.transit /\ s.progress = r.progress /\ s.last = r.last
  <2>1. seeded \in TrainState \/ seeded = r \/ seeded = [r EXCEPT !.current = edge]
    OBVIOUS
  <2>2. seeded.transit = r.transit /\ seeded.progress = r.progress /\ seeded.last = r.last
    BY <1>1 DEF TrainState
  <2> HIDE DEF r, s, seeded
  <2>3. CASE s = seeded
    BY <2>2, <2>3
  <2>4. CASE s = Advanced([seeded EXCEPT !.dwelling = FALSE])
    <3> DEFINE w == [seeded EXCEPT !.dwelling = FALSE]
    <3>1. w.transit = seeded.transit /\ w.progress = seeded.progress /\ w.last = seeded.last
      OBVIOUS
    <3> HIDE DEF w
    <3>2. s = [w EXCEPT !.stop = 1 + (@ % Len(w.stops))]
      BY <2>4 DEF Advanced, w
    <3>3. s.transit = w.transit /\ s.progress = w.progress /\ s.last = w.last
      BY <3>2
    <3> QED
      BY <2>2, <3>1, <3>3
  <2> QED
    BY <1>2, <2>3, <2>4
<1>4. /\ H # S => InTransit(t) /\ NextEdge(t) \in S /\ H = S \cap AheadOf(r)
  <2>1. r.length # 0
    BY <1>2 DEF LongTrainsOffJunctions, Orderly, Quiet
  <2>2. mm \in Nat
    BY EventAssumption
  <2> QED
    BY <2>1, <2>2, TailStays
<1>5. CASE H = S
  <2>1. \A u \in Train : /\ trains'[u].transit = trains[u].transit
                         /\ trains'[u].progress = trains[u].progress
                         /\ trains'[u].last = trains[u].last
                         /\ cleared'[u] = cleared[u]
    BY <1>2, <1>3, <1>5
  <2> QED
    BY <1>2, <2>1, PointsStay
<1>6. CASE H # S
  <2> DEFINE e == r.transit[r.progress]
  <2>1. UnderWay(r) /\ e \in S /\ H = S \cap AheadOf(r) /\ e \in AheadOf(r) /\ r.last = From(e)
    <3>1. UnderWay(r) /\ e \in S /\ H = S \cap AheadOf(r)
      BY <1>4, <1>6 DEF InTransit, NextEdge, UnderWay
    <3>2. e \in AheadOf(r)
      BY <1>1, <3>1 DEF AheadOf, UnderWay
    <3>3. r.transit # <<>>
      BY <1>1, <3>1 DEF UnderWay
    <3>4. r.last = From(e)
      BY <1>1, <3>1, <3>3 DEF Fit, OnItsWay, Place
    <3> QED
      BY <3>1, <3>2, <3>4
  <2> HIDE DEF r, s, S, H
  <2>2. SetFor(s, H, position)
    BY <1>1, <1>3, <2>1 DEF SetFor
  <2>3. Grounded(s, H)
    BY <1>1, <1>3, <2>1 DEF Grounded, UnderWay
  <2>4. ASSUME NEW j \in Junction, requested[j] # position[j], Awaits(r, S, j, requested[j])
        PROVE  Awaits(s, H, j, requested[j])
    <3>1. PICK i \in DOMAIN r.transit :
            /\ i >= r.progress /\ From(r.transit[i]) = j
            /\ r.transit[i] \in DOMAIN Switched /\ Switched[r.transit[i]] = requested[j]
      BY <2>4 DEF Awaits
    <3>2. r.transit[i] \notin S
      BY <1>1, <2>4, <3>1, AwaitedIsNotHeld
    <3>3. PICK b \in S : To(b) = j
      BY <2>4 DEF Awaits
    <3>4. b \in AheadOf(r)
      <4> SUFFICES ASSUME b \notin AheadOf(r)
                   PROVE  FALSE
        OBVIOUS
      <4>1. To(b) = r.last
        BY <1>1 DEF Fit, HoldsInOrder
      <4>2. From(r.transit[i]) = From(r.transit[r.progress])
        BY <2>1, <3>1, <3>3, <4>1
      <4>3. i = r.progress
        BY <1>1, <2>1, <4>2, WayStarts DEF Fit, OnItsWay, UnderWay
      <4> QED
        BY <2>1, <3>2, <4>3
    <3>5. b \in H
      BY <2>1, <3>3, <3>4
    <3> QED
      BY <1>3, <3>1, <3>3, <3>5 DEF Awaits
  <2> QED
    BY <1>2, <2>2, <2>3, <2>4, PointsOfOne DEF r, s, S, H
<1> QED
  BY <1>5, <1>6

(* A switch that has moved is where it was asked to be by the one train    *)
(* that is near it.                                                        *)
LEMMA SwitchKeepsPoints ==
    ASSUME TypeOK, Orderly, Points, Exclusive, NEW j \in Junction,
           requested[j] \notin {None, position[j]}, HandleSwitchStateChanged(j, requested[j])
    PROVE  Points'
<1>0. j \in Marker
  BY BlockEnds, LayoutAssumption DEF Junction, Block
<1>1. /\ trains' = trains /\ cleared' = cleared
      /\ position' = [position EXCEPT ![j] = requested[j]]
      /\ requested' = [requested EXCEPT ![j] = requested[j]]
      /\ position \in [Marker -> Position \cup {None}]
      /\ requested \in [Marker -> Position \cup {None}]
  BY DEF HandleSwitchStateChanged, TypeOK, TrackOK
<1>2. requested' = requested /\ position'[j] = requested[j]
      /\ \A m : m # j => position'[m] = position[m]
  BY <1>0, <1>1
<1>3. PICK t \in Train : Awaits(trains[t], cleared[t], j, requested[j])
  BY DEF Points, AskedFor
<1>4. PICK n \in DOMAIN trains[t].transit :
        /\ n >= trains[t].progress /\ From(trains[t].transit[n]) = j
        /\ trains[t].transit[n] \in DOMAIN Switched
        /\ Switched[trains[t].transit[n]] = requested[j]
  BY <1>3 DEF Awaits
<1>5. PICK b \in cleared[t] : To(b) = j
  BY <1>3 DEF Awaits
<1>6. ASSUME NEW u \in Train
      PROVE  SetFor(trains[u], cleared[u], position')
  <2> DEFINE r == trains[u]
  <2> SUFFICES ASSUME NEW i \in DOMAIN r.transit, i >= r.progress, r.transit[i] \in cleared[u],
                      r.transit[i] \in DOMAIN Switched
               PROVE  position'[From(r.transit[i])] = Switched[r.transit[i]]
    BY DEF SetFor
  <2>1. CASE From(r.transit[i]) # j
    <3>1. position[From(r.transit[i])] = Switched[r.transit[i]]
      BY DEF Points, SetFor
    <3> QED
      BY <1>2, <2>1, <3>1
  <2>2. ASSUME From(r.transit[i]) = j, u # t
        PROVE  FALSE
    <3>1. ~held[t] /\ ~held[u]
      BY DEF Orderly, Quiet
    <3>2. ~AnyEdgeSharesMarker(cleared[u], b)
      BY <2>2, <3>1 DEF Exclusive, Promise!Exclusive, Promise!AnyEdgeSharesMarker, AnyEdgeSharesMarker,
         Promise!EdgeSharesMarker, EdgeSharesMarker, Promise!From, Promise!To, From, To
    <3> QED
      BY <1>5, <2>2, <3>2 DEF AnyEdgeSharesMarker, EdgeSharesMarker
  <2>3. CASE From(r.transit[i]) = j /\ u = t
    <3>1. IsWay(r.transit)
      BY DEF Orderly, Fitting, Fit, OnItsWay
    <3>2. i = n
      BY <1>4, <2>3, <3>1, WayStarts
    <3> QED
      BY <1>2, <1>4, <2>3, <3>2
  <2> QED
    BY <2>1, <2>2, <2>3
<1>7. \A u \in Train : Grounded(trains[u], cleared[u])
  BY DEF Points
<1>8. ASSUME NEW k \in Junction
      PROVE  AskedFor(k)'
  <2>1. AskedFor(k)
    BY DEF Points
  <2> QED
    BY <1>1, <1>2, <2>1 DEF AskedFor
<1> QED
  BY <1>1, <1>6, <1>7, <1>8 DEF Points

(* Before its first schedule a train is nowhere.                           *)
LEMMA AssignKeepsPoints ==
    ASSUME LongTrainsOffJunctions, TypeOK, Orderly, Points, NEW t \in Train, NEW stops \in Schedules,
           trains[t].stops = <<>>, AssignSchedule(t, stops)
    PROVE  Points'
<1> DEFINE r == trains[t]
           s == trains'[t]
           none == <<>>
           k == IF stops[1] = stops[1] /\ Len(stops) > 1 THEN 2 ELSE 1
<1>1. /\ r \in TrainState /\ r.last = None /\ cleared[t] = {} /\ ~UnderWay(r)
  BY DEF Orderly, Fitting, Fit, Plain, TypeOK, TrainsOK, UnderWay
<1>2. /\ \A u \in Train \ {t} : trains'[u] = trains[u] /\ cleared'[u] = cleared[u]
      /\ s = [r EXCEPT !.last = stops[1], !.transit = <<>>, !.progress = 1,
                       !.stops = stops, !.stop = k]
      /\ cleared'[t] = {}
      /\ position' = position /\ requested' = requested
  BY <1>1 DEF AssignSchedule, TypeOK, TrainsOK, trackVars
<1>3. DOMAIN none = {} /\ none = <<>>
  OBVIOUS
<1>4. s.last = stops[1] /\ s.transit = none
  <2>1. s = [r EXCEPT !.last = stops[1], !.transit = none, !.progress = 1,
                      !.stops = stops, !.stop = k]
    BY <1>2
  <2> HIDE DEF none, s, k
  <2> QED
    BY <1>1, <2>1 DEF TrainState
<1> HIDE DEF none, s
<1>5. SetFor(s, {}, position) /\ Grounded(s, {})
  BY <1>3, <1>4 DEF SetFor, Grounded, LongTrainsOffJunctions
<1>6. \A j : ~Awaits(r, cleared[t], j, requested[j])
  BY <1>1, NobodyAwaits
<1> QED
  BY <1>2, <1>5, <1>6, PointsOfOne DEF s

(* Every orderly step leaves the points in order.                          *)
LEMMA PointsAreKept ==
    LongTrainsOffJunctions /\ TypeOK /\ Orderly /\ Orderly' /\ Exclusive /\ Points
        /\ [OrderlyNext]_vars => Points'
<1> SUFFICES ASSUME LongTrainsOffJunctions, TypeOK, Orderly, Orderly', Exclusive, Points,
                    [OrderlyNext]_vars
             PROVE  Points'
  OBVIOUS
<1>1. CASE UNCHANGED vars
  BY <1>1, PointsStay DEF vars
<1>2. ASSUME NEW t \in Train, RegisterTrain(t)
      PROVE  Points'
  <2>1. /\ \A u \in Train \ {t} : trains'[u] = trains[u]
        /\ \E x : trains'[t] = [trains[t] EXCEPT !.length = x]
    BY <1>2 DEF RegisterTrain, TypeOK, TrainsOK
  <2>2. \A u \in Train : /\ trains'[u].transit = trains[u].transit
                         /\ trains'[u].progress = trains[u].progress
                         /\ trains'[u].last = trains[u].last
    <3>1. PICK x : trains'[t] = [trains[t] EXCEPT !.length = x]
      BY <2>1
    <3>2. trains[t] \in TrainState
      BY DEF TypeOK, TrainsOK
    <3>3. /\ trains'[t].transit = trains[t].transit
          /\ trains'[t].progress = trains[t].progress
          /\ trains'[t].last = trains[t].last
      BY <3>1, <3>2 DEF TrainState
    <3> QED
      BY <2>1, <3>3
  <2> QED
    BY <1>2, <2>2, PointsStay DEF RegisterTrain, trackVars
<1>3. ASSUME NEW j, RecordSwitchPairing(j)
      PROVE  Points'
  BY <1>3, PointsStay DEF RecordSwitchPairing
<1> QED
  BY <1>1, <1>2, <1>3, TasksSetPoints, AssignKeepsPoints, PassKeepsPoints, StatusKeepsPoints,
     SwitchKeepsPoints DEF OrderlyNext

(* The points are in order at the start.                                   *)
LEMMA PointsAtTheStart == Init => Points
<1> SUFFICES ASSUME Init
             PROVE  Points
  OBVIOUS
<1>1. \A j \in Junction : requested[j] = None
  BY BlockEnds, LayoutAssumption DEF Init, Junction, Block
<1>2. None \notin Junction
  BY BlockEnds, LayoutAssumption DEF Junction, Block
<1> DEFINE r == InitialTrainState
<1>3. r.last = None
  BY DEF InitialTrainState
<1> HIDE DEF r
<1>4. Grounded(r, {}) /\ SetFor(r, {}, position)
  BY <1>2, <1>3 DEF Grounded, SetFor
<1> QED
  BY <1>1, <1>4 DEF Init, Points, AskedFor, r

(* Points are set for whoever holds the block beyond them                  *)
(* (maybeActuateSwitch, called after the conflict check): a switch is only *)
(* asked to move for a train that holds a block at the junction, which     *)
(* keeps all others away until the switch has moved.                       *)
THEOREM PointsAreSet ==
    PlansAreWays /\ LongTrainsOffJunctions /\ OrderlySpec => []Points
<1> SUFFICES ASSUME PlansAreWays, LongTrainsOffJunctions
             PROVE  OrderlySpec => []Points
  OBVIOUS
<1>1. Init => Points
  BY PointsAtTheStart
<1>2. TypeOK /\ Orderly /\ Orderly' /\ Exclusive /\ Points /\ [OrderlyNext]_vars => Points'
  BY PointsAreKept
<1>3. Safety => []TypeOK /\ []Exclusive
  BY TypeCorrect, Exclusivity
<1>4. OrderlySpec => []Orderly
  BY OrderPrevails
<1> QED
  BY <1>1, <1>2, <1>3, <1>4, PTL DEF OrderlySpec, Safety
=============================================================================
