-------------------------- MODULE OperationsProofs --------------------------
(***************************************************************************)
(* Trains that keep to their clearance, and switches that do as they are   *)
(* told, are among what the scheduler is modelled to meet: everything      *)
(* proved of it holds of the railway in operation.                         *)
(***************************************************************************)
EXTENDS Operations, OrderlyProofs

(* What trains are given for a timetable is what operators may assign.     *)
TimetablesCovered == \A t \in Train : Timetable[t] \in Schedules

(* The track that a train has crossed, and has backed out of, is track.    *)
WaysTyped ==
    /\ behind \in [Train -> Seq(Block)]
    /\ ahead \in [Train -> Seq(Block)]

-----------------------------------------------------------------------------
(* A piece of a way, from its first block on, is a way.                    *)
LEMMA PieceOfWay ==
    ASSUME NEW q \in Seq(Block), NEW m \in Nat \ {0}, NEW n \in Int, n <= Len(q)
    PROVE  SubSeq(q, m, n) \in Seq(Block)
<1>1. \A i \in m..n : q[i] \in Block
  BY ElementOfSeq
<1> QED
  BY <1>1, SubSeqProperties

(* Of some numbers that none exceeds n, one is the greatest.               *)
LEMMA GreatestNumber ==
    ASSUME NEW n \in Nat, NEW S \in SUBSET (0..n), S # {}
    PROVE  Max(S) \in S
<1> DEFINE D == {n - i : i \in S}
<1>1. D \in SUBSET Nat /\ D # {}
  <2>1. \A i \in S : n - i \in Nat
    OBVIOUS
  <2> QED
    BY <2>1
<1>2. Min(D) \in D /\ \A d \in D : Min(D) <= d
  BY <1>1, LeastNumber
<1>3. PICK i \in S : Min(D) = n - i
  BY <1>2
<1>4. \A k \in S : n - i <= n - k
  BY <1>2, <1>3
<1>5. \A k \in S : k <= i
  BY <1>3, <1>4
<1> QED
  BY <1>3, <1>5 DEF Max

-----------------------------------------------------------------------------
(* The way before a train that may move is track.                          *)
LEMMA NextIsTrack ==
    ASSUME TypeOK, WaysTyped, NEW t \in Train, MayMove(t)
    PROVE  NextTrack(t) \in Block
<1>1. NextEdge(t) \in Block
  BY DEF MayMove, TypeOK, TrainsOK
<1>2. ahead[t] # <<>> => Head(ahead[t]) \in Block
  BY DEF WaysTyped
<1> QED
  BY <1>1, <1>2 DEF NextTrack

(* A train that drives on remembers what it has crossed.                   *)
LEMMA DriveTyped ==
    ASSUME TypeOK, WaysTyped, NEW t \in Train, Drive(t)
    PROVE  WaysTyped'
<1>1. NextTrack(t) \in Block /\ behind[t] \in Seq(Block) /\ ahead[t] \in Seq(Block)
  BY NextIsTrack DEF Drive, WaysTyped
<1> DEFINE crossed == Append(behind[t], NextTrack(t))
           surplus == {0, Len(crossed) - MemoryLength}
<1>2. crossed \in Seq(Block) /\ Len(crossed) \in Nat
  BY <1>1
<1>3. Max(surplus) \in Nat
  <2>1. \E x \in surplus : \A y \in surplus : x >= y
    BY <1>2, TimetableAssumption
  <2>2. Max(surplus) \in surplus /\ \A y \in surplus : Max(surplus) >= y
    BY <2>1 DEF Max
  <2> QED
    BY <1>2, <2>2, TimetableAssumption
<1> DEFINE from == 1 + Max(surplus)
<1>4. from \in Nat \ {0}
  BY <1>3
<1> HIDE DEF crossed, from
<1>5. SubSeq(crossed, from, Len(crossed)) \in Seq(Block)
  BY <1>2, <1>4, PieceOfWay
<1>6. behind' = [behind EXCEPT ![t] = SubSeq(crossed, from, Len(crossed))]
  BY DEF Drive, Remember, crossed, from
<1>7. behind' \in [Train -> Seq(Block)]
  BY <1>5, <1>6 DEF WaysTyped
<1>8. ahead' \in [Train -> Seq(Block)]
  BY <1>1 DEF Drive, WaysTyped
<1> QED
  BY <1>7, <1>8 DEF WaysTyped

(* A train that backs out of track has that track before it.               *)
LEMMA ScheduleTyped ==
    ASSUME WaysTyped, Schedule
    PROVE  WaysTyped'
<1> DEFINE found(t) == {i \in DOMAIN behind[t] : From(behind[t][i]) = trains'[t].last} \cup {1}
           from(t) == Max(found(t))
<1>1. ASSUME NEW t \in Train
      PROVE  /\ SubSeq(behind[t], 1, from(t) - 1) \in Seq(Block)
             /\ SubSeq(behind[t], from(t), Len(behind[t])) \o ahead[t] \in Seq(Block)
  <2>1. behind[t] \in Seq(Block) /\ ahead[t] \in Seq(Block) /\ Len(behind[t]) \in Nat
    BY DEF WaysTyped
  <2>2. found(t) \in SUBSET (0..Len(behind[t]) + 1) /\ found(t) # {}
    BY <2>1
  <2>3. from(t) \in found(t)
    <3>1. Len(behind[t]) + 1 \in Nat
      BY <2>1
    <3> HIDE DEF found
    <3> QED
      BY <2>2, <3>1, GreatestNumber
  <2>4. from(t) \in Nat \ {0} /\ (from(t) = 1 \/ from(t) <= Len(behind[t]))
    BY <2>1, <2>3
  <2> HIDE DEF from
  <2>5. SubSeq(behind[t], 1, from(t) - 1) \in Seq(Block)
    BY <2>1, <2>4, PieceOfWay
  <2>6. SubSeq(behind[t], from(t), Len(behind[t])) \in Seq(Block)
    BY <2>1, <2>4, PieceOfWay
  <2> QED
    BY <2>1, <2>5, <2>6, ConcatProperties
<1> DEFINE backed == {t \in CanReverse : trains'[t].last # trains[t].last}
<1>2. /\ behind' = [t \in Train |-> IF t \notin backed THEN behind[t]
                                    ELSE SubSeq(behind[t], 1, from(t) - 1)]
      /\ ahead' = [t \in Train |-> IF t \notin backed THEN ahead[t]
                                   ELSE SubSeq(behind[t], from(t), Len(behind[t])) \o ahead[t]]
  BY DEF Schedule
<1> HIDE DEF from, backed
<1>3. \A t \in Train : behind[t] \in Seq(Block) /\ ahead[t] \in Seq(Block)
  BY DEF WaysTyped
<1> QED
  BY <1>1, <1>2, <1>3 DEF WaysTyped

(* Every step of the railway leaves the trains' ways in shape.             *)
LEMMA OperationsTypes == TypeOK /\ WaysTyped /\ [OpsNext]_opsVars => WaysTyped'
<1> SUFFICES ASSUME TypeOK, WaysTyped, [OpsNext]_opsVars
             PROVE  WaysTyped'
  OBVIOUS
<1>1. ASSUME NEW t \in Train, NEW mm \in Distances, NEW dwellOver \in BOOLEAN,
             Status(t, mm, dwellOver)
      PROVE  WaysTyped'
  BY <1>1 DEF Status, WaysTyped
<1>2. UNCHANGED worldVars => WaysTyped'
  BY DEF worldVars, WaysTyped
<1> QED
  BY <1>1, <1>2, DriveTyped, ScheduleTyped DEF OpsNext, opsVars

-----------------------------------------------------------------------------
(* The edge a train believes it is on is track.                            *)
LEMMA CurrentIsTrack ==
    ASSUME TypeOK, NEW t \in Train
    PROVE  CurrentEdge(t) \in Block \cup {None}
<1> DEFINE route == trains[t].transit
<1>1. route \in Seq(Block) /\ trains[t].progress \in Nat
  BY DEF TypeOK, TrainsOK, TrainState
<1>2. route # <<>> => 1 + ((trains[t].progress - 1) % Len(route)) \in DOMAIN route
  BY <1>1
<1> QED
  BY <1>1, <1>2, ElementOfSeq DEF CurrentEdge

(* Each step of the railway is a step of the scheduler.                    *)
LEMMA OperationsSimulates ==
    TimetablesCovered /\ TypeOK /\ WaysTyped /\ [OpsNext]_opsVars => [Next]_vars
<1> SUFFICES ASSUME TimetablesCovered, TypeOK, WaysTyped, [OpsNext]_opsVars
             PROVE  [Next]_vars
  OBVIOUS
<1>1. CASE Schedule
  BY <1>1 DEF Schedule, Next
<1>2. ASSUME NEW t \in Train, Drive(t)
      PROVE  Next
  <2>1. To(NextTrack(t)) \in Marker /\ MarkerReport(t, To(NextTrack(t)))
    BY <1>2, NextIsTrack, BlockEnds DEF Drive
  <2> QED
    BY <2>1 DEF TrainEvent, Next
<1>3. ASSUME NEW t \in Train, NEW mm \in Distances, NEW dwellOver \in BOOLEAN,
             Status(t, mm, dwellOver)
      PROVE  Next
  <2>1. HandleTrainStatus(t, CurrentEdge(t), mm, dwellOver)
    BY <1>3 DEF Status
  <2> QED
    BY <2>1, CurrentIsTrack DEF TrainEvent, Next
<1>4. ASSUME NEW t \in Train, Arrive(t) \/ Assign(t)
      PROVE  Next
  BY <1>4 DEF Arrive, Assign, TimetablesCovered, TrainEvent, OperatorCommand, Next
<1>5. ASSUME NEW j \in Junction, Pair(j) \/ Confirm(j)
      PROVE  Next
  <2>1. j \in Marker
    BY BlockEnds, LayoutAssumption DEF Junction, Block
  <2>2. Confirm(j) => requested[j] \in Position
    BY <2>1 DEF Confirm, TypeOK, TrackOK
  <2> QED
    BY <1>5, <2>2 DEF Pair, Confirm, SwitchEvent, Next
<1>6. CASE UNCHANGED opsVars
  BY <1>6 DEF opsVars
<1> QED
  BY <1>1, <1>2, <1>3, <1>4, <1>5, <1>6 DEF OpsNext

(* The railway in operation implements the scheduler                       *)
(* (scheduled-train-device.ts, switch-device.ts): obedient devices bring   *)
(* about no event that is outside of what it is proved for.                *)
THEOREM OperationsAreScheduling == TimetablesCovered /\ OpsSpec => Safety
<1> SUFFICES ASSUME TimetablesCovered
             PROVE  OpsSpec => Safety
  OBVIOUS
<1>1. OpsInit => Init /\ TypeOK /\ WaysTyped
  <2>1. OpsInit => WaysTyped
    BY DEF OpsInit, WaysTyped
  <2> QED
    BY <2>1, InitTypes DEF OpsInit
<1>2. TypeOK /\ WaysTyped /\ [OpsNext]_opsVars => (TypeOK /\ WaysTyped)' /\ [Next]_vars
  BY OperationsTypes, OperationsSimulates, StepTypes
<1> QED
  BY <1>1, <1>2, PTL DEF OpsSpec, Safety

-----------------------------------------------------------------------------
(* Lengths.                                                                *)

(* What the lengths of the blocks q[k], k in s, add up to.                 *)
FirstBlock(s) == CHOOSE k \in s : TRUE
AddsUp(q, S, sum) ==
    sum = [s \in SUBSET S |-> IF s = {} THEN 0
                              ELSE EdgeLength[q[FirstBlock(s)]] + sum[s \ {FirstBlock(s)}]]

(* Leaving out one element of a finite set leaves one less.                *)
LEMMA OneLess ==
    ASSUME NEW S, IsFiniteSet(S), NEW s \in SUBSET S, s # {}
    PROVE  /\ FirstBlock(s) \in s /\ s \ {FirstBlock(s)} \in SUBSET S
           /\ Cardinality(s) \in Nat /\ Cardinality(s) <= Cardinality(S) /\ Cardinality(s) # 0
           /\ Cardinality(s \ {FirstBlock(s)}) = Cardinality(s) - 1
<1>1. IsFiniteSet(s) /\ Cardinality(s) <= Cardinality(S)
  BY FS_Subset
<1>2. FirstBlock(s) \in s
  BY DEF FirstBlock
<1> QED
  BY <1>1, <1>2, FS_RemoveElement, FS_CardinalityType, FS_EmptySet

(* There is such a sum.                                                    *)
LEMMA SumExists ==
    ASSUME NEW q, NEW S, IsFiniteSet(S), \A k \in S : EdgeLength[q[k]] \in Nat
    PROVE  \E sum : AddsUp(q, S, sum)
<1> DEFINE small(s, n) == Cardinality(s) <= n
           right(g, s) == g[s] = IF s = {} THEN 0
                                 ELSE EdgeLength[q[FirstBlock(s)]] + g[s \ {FirstBlock(s)}]
           good(n) == \E g \in [SUBSET S -> Nat] : \A s \in SUBSET S : small(s, n) => right(g, s)
           bad == {n \in Nat : ~good(n)}
<1>0. \A s \in SUBSET S : /\ Cardinality(s) \in Nat
                          /\ Cardinality(s) <= Cardinality(S)
                          /\ s = {} <=> Cardinality(s) = 0
  BY FS_Subset, FS_CardinalityType, FS_EmptySet
<1>1. good(0)
  <2> DEFINE g == [s \in SUBSET S |-> 0]
  <2>1. g \in [SUBSET S -> Nat]
    OBVIOUS
  <2>2. \A s \in SUBSET S : small(s, 0) => right(g, s)
    BY <1>0
  <2> QED
    BY <2>1, <2>2
<1>2. ASSUME NEW n \in Nat, good(n)
      PROVE  good(n + 1)
  <2>1. PICK g \in [SUBSET S -> Nat] : \A s \in SUBSET S : small(s, n) => right(g, s)
    BY <1>2
  <2> DEFINE h == [s \in SUBSET S |->
                     IF small(s, n) THEN g[s]
                     ELSE EdgeLength[q[FirstBlock(s)]] + g[s \ {FirstBlock(s)}]]
  <2>2. ASSUME NEW s \in SUBSET S, s # {}
        PROVE  /\ FirstBlock(s) \in S /\ s \ {FirstBlock(s)} \in SUBSET S
               /\ small(s, n + 1) => small(s \ {FirstBlock(s)}, n)
    <3>1. FirstBlock(s) \in s /\ s \ {FirstBlock(s)} \in SUBSET S
      BY <2>2, OneLess
    <3>2. Cardinality(s \ {FirstBlock(s)}) = Cardinality(s) - 1 /\ Cardinality(s) \in Nat
      BY <2>2, OneLess
    <3> QED
      BY <3>1, <3>2
  <2>3. h \in [SUBSET S -> Nat]
    <3>1. ASSUME NEW s \in SUBSET S
          PROVE  h[s] \in Nat
      <4>1. CASE small(s, n)
        BY <4>1
      <4>2. CASE ~small(s, n)
        <5>1. s # {}
          BY <1>0, <4>2
        <5> DEFINE f == FirstBlock(s)
                   rest == s \ {FirstBlock(s)}
        <5>2. f \in S /\ rest \in SUBSET S
          BY <2>2, <5>1
        <5> HIDE DEF f, rest
        <5>3. EdgeLength[q[f]] \in Nat /\ g[rest] \in Nat
          BY <5>2
        <5>4. h[s] = EdgeLength[q[f]] + g[rest]
          BY <4>2 DEF f, rest
        <5> QED
          BY <5>3, <5>4
      <4> QED
        BY <4>1, <4>2
    <3> HIDE DEF small
    <3> QED
      BY <3>1
  <2>4. ASSUME NEW s \in SUBSET S, small(s, n + 1)
        PROVE  right(h, s)
    <3>1. CASE s = {}
      <4>1. small(s, n)
        BY <1>0, <3>1
      <4> QED
        BY <2>1, <3>1, <4>1
    <3>2. CASE s # {}
      <4> DEFINE rest == s \ {FirstBlock(s)}
      <4>1. rest \in SUBSET S /\ small(rest, n)
        BY <2>2, <2>4, <3>2
      <4>2. h[rest] = g[rest]
        BY <4>1
      <4>3. h[s] = EdgeLength[q[FirstBlock(s)]] + g[rest]
        BY <2>1, <3>2
      <4> QED
        BY <3>2, <4>2, <4>3
    <3> QED
      BY <3>1, <3>2
  <2> HIDE DEF h, right, small
  <2> QED
    BY <2>3, <2>4
<1> HIDE DEF good
<1>3. bad = {}
  <2> SUFFICES ASSUME bad # {}
               PROVE  FALSE
    OBVIOUS
  <2> DEFINE n == Min(bad)
  <2>1. n \in bad /\ \A k \in bad : n <= k
    BY LeastNumber
  <2> HIDE DEF n
  <2>2. n \in Nat /\ ~good(n) /\ n # 0
    BY <1>1, <2>1
  <2>3. n - 1 \in Nat /\ ~good(n - 1)
    BY <1>2, <2>2
  <2> QED
    BY <2>1, <2>2, <2>3
<1>4. good(Cardinality(S))
  BY <1>0, <1>3
<1>5. PICK g \in [SUBSET S -> Nat] : \A s \in SUBSET S : small(s, Cardinality(S)) => right(g, s)
  BY <1>4 DEF good
<1>6. AddsUp(q, S, g)
  BY <1>0, <1>5 DEF AddsUp
<1> QED
  BY <1>6

SumOver(q, S) == MapThenSumSet(LAMBDA k : EdgeLength[q[k]], S)

(* A sum of lengths is none if there are none, and no less than any.       *)
LEMMA SumIsEnough ==
    ASSUME NEW q, NEW S, IsFiniteSet(S), \A k \in S : EdgeLength[q[k]] \in Nat
    PROVE  /\ SumOver(q, S) \in Nat /\ (S = {} => SumOver(q, S) = 0)
           /\ \A k \in S : SumOver(q, S) >= EdgeLength[q[k]]
<1> DEFINE g == CHOOSE sum : AddsUp(q, S, sum)
           enough(s) == g[s] \in Nat /\ \A k \in s : g[s] >= EdgeLength[q[k]]
           bad == {n \in Nat : \E s \in SUBSET S : Cardinality(s) = n /\ ~enough(s)}
<1>1. SumOver(q, S) = g[S]
  BY DEF SumOver, MapThenSumSet, MapThenFoldSet, AddsUp, FirstBlock
<1>2. AddsUp(q, S, g)
  BY SumExists
<1> HIDE DEF g
<1>3. \A s \in SUBSET S :
         g[s] = IF s = {} THEN 0 ELSE EdgeLength[q[FirstBlock(s)]] + g[s \ {FirstBlock(s)}]
  BY <1>2 DEF AddsUp
<1>4. bad = {}
  <2> SUFFICES ASSUME bad # {}
               PROVE  FALSE
    OBVIOUS
  <2> DEFINE n == Min(bad)
  <2>1. n \in bad /\ \A k \in bad : n <= k
    BY LeastNumber
  <2>2. PICK s \in SUBSET S : Cardinality(s) = n /\ ~enough(s)
    BY <2>1
  <2> HIDE DEF n
  <2>3. CASE s = {}
    <3>1. g[s] = 0
      BY <1>3, <2>3
    <3> QED
      BY <2>2, <2>3, <3>1
  <2>4. CASE s # {}
    <3> DEFINE f == FirstBlock(s)
               rest == s \ {f}
    <3>1. /\ f \in s /\ rest \in SUBSET S /\ Cardinality(rest) = n - 1
          /\ n \in Nat /\ n - 1 \in Nat
      <4>1. /\ f \in s /\ rest \in SUBSET S
            /\ Cardinality(s) \in Nat /\ Cardinality(s) # 0
            /\ Cardinality(rest) = Cardinality(s) - 1
        BY <2>4, OneLess
      <4> HIDE DEF f, rest, enough
      <4> QED
        BY <2>2, <4>1
    <3>2. g[s] = EdgeLength[q[f]] + g[rest] /\ EdgeLength[q[f]] \in Nat /\ f \in s
      BY <1>3, <2>4, <3>1
    <3>3. rest = s \ {f}
      OBVIOUS
    <3> HIDE DEF f, rest
    <3>4. n - 1 \notin bad
      BY <2>1, <3>1
    <3>5. enough(rest)
      <4> HIDE DEF enough
      <4> QED
        BY <3>1, <3>4
    <3>6. \A k \in s : EdgeLength[q[k]] \in Nat
      OBVIOUS
    <3>7. g[s] \in Nat
      BY <3>2, <3>5
    <3>8. ASSUME NEW k \in s
          PROVE  g[s] >= EdgeLength[q[k]]
      <4>1. CASE k = f
        BY <3>2, <3>5, <4>1
      <4>2. CASE k # f
        <5>1. g[rest] >= EdgeLength[q[k]]
          BY <3>3, <3>5, <4>2
        <5> QED
          BY <3>2, <3>5, <3>6, <5>1
      <4> QED
        BY <4>1, <4>2
    <3> QED
      BY <2>2, <3>7, <3>8
  <2> QED
    BY <2>3, <2>4
<1>5. enough(S)
  <2>1. Cardinality(S) \in Nat
    BY FS_CardinalityType
  <2> HIDE DEF enough
  <2> QED
    BY <1>4, <2>1
<1>6. S = {} => g[S] = 0
  BY <1>3
<1> QED
  BY <1>1, <1>5, <1>6

-----------------------------------------------------------------------------
(* An orderly railway.                                                     *)

(* Where a train with record r that holds the blocks S is, how far it is   *)
(* on its block, and what it has behind and before it.  It backs out of    *)
(* nothing; it moves only onto a block it holds; once its length is on     *)
(* that block it holds nothing behind it, and until then the block that it *)
(* comes from.                                                             *)
InStep(r, S, far, crossed, again) ==
    /\ again = <<>> /\ far \in Nat /\ crossed \in Seq(Declared)
    /\ r.stops = <<>> => crossed = <<>>
    /\ far > 0 => UnderWay(r) /\ r.transit[r.progress] \in S
    /\ far >= r.length => S \subseteq AheadOf(r)
    /\ far < r.length /\ crossed # <<>> => crossed[Len(crossed)] \in S

TrainsInStep ==
    /\ offset \in [Train -> Nat]
    /\ \A t \in Train : InStep(trains[t], cleared[t], offset[t], behind[t], ahead[t])

(* A step of the scheduler leaves the trains in step.                      *)
LEMMA ScheduleInStep ==
    ASSUME TypeOK, WaysTyped, Orderly, Orderly', TrainsInStep, Schedule
    PROVE  TrainsInStep'
<1>1. Step /\ offset' = offset
  BY DEF Schedule
<1>2. behind' = behind /\ ahead' = ahead
  <2> DEFINE backed == {t \in CanReverse : trains'[t].last # trains[t].last}
             from(t) == Max({i \in DOMAIN behind[t] : From(behind[t][i]) = trains'[t].last} \cup {1})
  <2>1. backed = {}
    BY <1>1, StepOnATrain, TrainAssumption
  <2>2. /\ behind' = [t \in Train |-> IF t \notin backed THEN behind[t]
                                      ELSE SubSeq(behind[t], 1, from(t) - 1)]
        /\ ahead' = [t \in Train |-> IF t \notin backed THEN ahead[t]
                                     ELSE SubSeq(behind[t], from(t), Len(behind[t])) \o ahead[t]]
    BY DEF Schedule
  <2> HIDE DEF backed, from
  <2>3. behind' = [t \in Train |-> behind[t]] /\ ahead' = [t \in Train |-> ahead[t]]
    BY <2>1, <2>2
  <2> QED
    BY <2>3 DEF WaysTyped
<1>3. ASSUME NEW u \in Train
      PROVE  InStep(trains'[u], cleared'[u], offset[u], behind[u], ahead[u])
  <2> DEFINE r == trains[u]
             s == trains'[u]
             S == cleared[u]
             H == cleared'[u]
             far == offset[u]
  <2>1. InStep(r, S, far, behind[u], ahead[u]) /\ far \in Nat /\ r.length \in Nat
    BY DEF TrainsInStep, TypeOK, TrainsOK, TrainState
  <2>2. /\ s.length = r.length /\ s.stops = r.stops
        /\ UnderWay(r) => s.transit = r.transit /\ s.progress = r.progress
        /\ S \subseteq H /\ H \subseteq S \cup AheadOf(r)
    BY <1>1, StepOnATrain
  <2>3. Fit(u, s, H)
    BY DEF Orderly, Fitting
  <2> HIDE DEF r, s, S, H, far
  <2>4. UnderWay(r) => UnderWay(s) /\ AheadOf(s) = AheadOf(r)
    BY <2>2 DEF UnderWay, AheadOf
  <2>5. far >= s.length => H \subseteq AheadOf(s)
    <3> HAVE far >= s.length
    <3>1. CASE UnderWay(r)
      BY <2>1, <2>2, <2>4, <3>1 DEF InStep
    <3>2. CASE ~UnderWay(r)
      <4>1. ~(far > 0)
        BY <2>1, <3>2 DEF InStep
      <4>2. s.length = 0
        BY <2>1, <2>2, <4>1
      <4> QED
        BY <2>3, <4>2 DEF Fit, HoldsInOrder
    <3> QED
      BY <3>1, <3>2
  <2>6. far > 0 => UnderWay(s) /\ s.transit[s.progress] \in H
    BY <2>1, <2>2, <2>4 DEF InStep, UnderWay
  <2>7. InStep(s, H, far, behind[u], ahead[u])
    BY <2>1, <2>2, <2>5, <2>6 DEF InStep
  <2> QED
    BY <2>7 DEF s, H, far
<1> QED
  BY <1>1, <1>2, <1>3 DEF TrainsInStep

(* A step that moves one train only leaves the others in step.             *)
LEMMA OneInStep ==
    ASSUME WaysTyped, TrainsInStep, NEW t \in Train,
           offset' \in [Train -> Nat],
           \A u \in Train \ {t} : /\ trains'[u] = trains[u] /\ cleared'[u] = cleared[u]
                                  /\ offset'[u] = offset[u]
                                  /\ behind'[u] = behind[u] /\ ahead'[u] = ahead[u],
           InStep(trains'[t], cleared'[t], offset'[t], behind'[t], ahead'[t])
    PROVE  TrainsInStep'
  BY DEF TrainsInStep

(* Who reports as far as any report goes has all of itself on its block.   *)
LEMMA FarEnough ==
    ASSUME ShortTrains
    PROVE  Max(Distances) \in Distances /\ \A t \in Train : TrainLength[t] <= Max(Distances)
<1>1. PICK far \in Distances : /\ \A mm \in Distances : mm <= far
                               /\ \A t \in Train : TrainLength[t] <= far
  BY DEF ShortTrains
<1>2. \A mm \in Distances : mm \in Nat
  BY EventAssumption
<1>3. \E x \in Distances : \A y \in Distances : x >= y
  BY <1>1, <1>2
<1>4. Max(Distances) \in Distances /\ \A y \in Distances : Max(Distances) >= y
  BY <1>3 DEF Max
<1>5. Max(Distances) = far
  BY <1>1, <1>2, <1>4
<1> QED
  BY <1>1, <1>5

(* A train that drives on passes the marker it has before it.              *)
LEMMA DrivePasses ==
    ASSUME ShortTrains, TypeOK, Orderly, TrainsInStep, NEW t \in Train, Drive(t)
    PROVE  PassesOn(t) /\ NextTrack(t) = NextEdge(t)
<1> DEFINE r == trains[t]
           S == cleared[t]
           e == r.transit[r.progress]
           m == To(e)
<1>1. /\ r \in TrainState /\ Fit(t, r, S) /\ InStep(r, S, offset[t], behind[t], ahead[t])
      /\ e \in S /\ InTransit(t) /\ UnderWay(r) /\ NextTrack(t) = e /\ NextEdge(t) = e
  BY DEF Orderly, Fitting, TypeOK, TrainsOK, TrainsInStep, Drive, MayMove, NextTrack, NextEdge,
         InStep, InTransit, UnderWay
<1>2. r.progress \in Nat \ {0} /\ r.transit \in Seq(Block) /\ r.transit # <<>>
  BY <1>1 DEF TrainState, UnderWay
<1>3. e \in Declared /\ r.last = From(e) /\ e \in Block
  <2>1. r.transit \in Seq(Declared) /\ r.last = Place(r)
    BY <1>1, <1>2 DEF Fit, OnItsWay, IsWay
  <2> QED
    BY <1>1, <2>1 DEF Place, UnderWay, Block
<1>4. e = <<From(e), To(e)>> /\ From(e) \in Marker
  BY <1>3, LayoutAssumption DEF EdgeRef, From, To, Block
<1>5. ~Contradicts(t, m)
  BY <1>3, <1>4 DEF Contradicts, Orderly, Quiet
<1>6. ~EntersZone(t, m)
  BY <1>3, <1>4, BlockEnds DEF EntersZone, Orderly, Quiet
<1>7. HandleTrainAtMarker(t, m)
  BY <1>1, <1>5, <1>6 DEF Drive, MarkerReport, HandleTopologyViolation, HandleZoneEntry
<1>8. S \subseteq AheadOf(r)
  <2>1. r.length \in Nat /\ r.length <= offset[t] /\ offset[t] \in Nat
    <3>1. offset[t] = Max(Distances) /\ r.length \in {0, TrainLength[t]}
      BY <1>1 DEF Drive, Fit, Plain
    <3>2. Max(Distances) \in Nat /\ TrainLength[t] <= Max(Distances) /\ TrainLength[t] \in Nat
      BY FarEnough, EventAssumption, TrainAssumption
    <3> HIDE DEF r
    <3> QED
      BY <3>1, <3>2
  <2> QED
    BY <1>1, <2>1 DEF InStep
<1> QED
  BY <1>1, <1>7, <1>8 DEF PassesOn

(* What a train remembers of its way ends with what it crossed last.       *)
LEMMA LastRemembered ==
    ASSUME NEW crossed \in Seq(Declared), NEW e \in Declared
    PROVE  LET all == Append(crossed, e)
               kept == SubSeq(all, 1 + Max({0, Len(all) - MemoryLength}), Len(all))
           IN  kept \in Seq(Declared) /\ (kept # <<>> => kept[Len(kept)] = e)
<1> DEFINE all == Append(crossed, e)
           surplus == {0, Len(all) - MemoryLength}
           from == 1 + Max(surplus)
<1>1. /\ all \in Seq(Declared) /\ Len(all) \in Nat /\ all[Len(all)] = e
      /\ \A i \in 1..Len(all) : all[i] \in Declared
  BY ElementOfSeq
<1>2. from \in Nat \ {0}
  <2>1. \E x \in surplus : \A y \in surplus : x >= y
    BY <1>1, TimetableAssumption
  <2>2. Max(surplus) \in surplus /\ \A y \in surplus : Max(surplus) >= y
    BY <2>1 DEF Max
  <2> QED
    BY <1>1, <2>2, TimetableAssumption
<1> HIDE DEF all, from
<1> DEFINE kept == SubSeq(all, from, Len(all))
<1>3. \A i \in from..Len(all) : all[i] \in Declared
  BY <1>1, <1>2
<1>4. /\ kept \in Seq(Declared)
      /\ Len(kept) = IF from <= Len(all) THEN Len(all) - from + 1 ELSE 0
      /\ \A i \in 1..(Len(all) - from + 1) : kept[i] = all[from + i - 1]
  BY <1>1, <1>2, <1>3, SubSeqProperties
<1> HIDE DEF kept
<1>5. ASSUME kept # <<>>
      PROVE  kept[Len(kept)] = e
  <2>1. Len(kept) \in Nat /\ Len(kept) # 0
    BY <1>4, <1>5
  <2>2. Len(kept) \in 1..(Len(all) - from + 1) /\ from + Len(kept) - 1 = Len(all)
    BY <1>1, <1>2, <1>4, <2>1
  <2> QED
    BY <1>1, <1>4, <2>2
<1> QED
  BY <1>4, <1>5 DEF kept, from, all

(* A train that passes a marker stays in step.                             *)
LEMMA DriveInStep ==
    ASSUME ShortTrains, TypeOK, WaysTyped, Orderly, Orderly', TrainsInStep,
           NEW t \in Train, Drive(t)
    PROVE  TrainsInStep'
<1> DEFINE r == trains[t]
           s == trains'[t]
           S == cleared[t]
           H == cleared'[t]
           e == r.transit[r.progress]
           m == To(e)
           q == [r EXCEPT !.last = m, !.entry = None]
           kept == behind'[t]
<1>1. /\ PassesOn(t) /\ NextTrack(t) = e /\ HandleTrainAtMarker(t, m)
      /\ InTransit(t) /\ UnderWay(r) /\ e \in S
  BY DrivePasses DEF PassesOn, NextEdge, InTransit, UnderWay
<1>2. /\ r \in TrainState /\ Fit(t, r, S) /\ InStep(r, S, offset[t], behind[t], ahead[t])
      /\ Fit(t, s, H) /\ trains \in [Train -> TrainState] /\ cleared \in [Train -> SUBSET Block]
  BY DEF Orderly, Fitting, TypeOK, TrainsOK, TrainsInStep
<1>3. e \in Declared /\ r.stops # <<>> /\ m \in Marker
  <2>1. r.transit \in Seq(Declared) /\ r.transit # <<>> /\ r.stops # <<>>
    BY <1>1, <1>2 DEF Fit, Plain, OnItsWay, IsWay, UnderWay, TrainState
  <2> QED
    BY <1>1, <2>1, BlockEnds DEF UnderWay, Block
<1>4. /\ s = AdvanceTransit(q, m)
      /\ H = IF r.length = 0 THEN {x \in S : To(x) # m} ELSE S
      /\ \A u \in Train \ {t} : trains'[u] = trains[u] /\ cleared'[u] = cleared[u]
  BY <1>1, <1>2 DEF HandleTrainAtMarker
<1>5. /\ offset' = [offset EXCEPT ![t] = 0]
      /\ ahead' = [ahead EXCEPT ![t] = IF @ = <<>> THEN @ ELSE Tail(@)]
      /\ behind' = [behind EXCEPT ![t] =
                      SubSeq(Append(behind[t], e),
                             1 + Max({0, Len(Append(behind[t], e)) - MemoryLength}),
                             Len(Append(behind[t], e)))]
  BY <1>1 DEF Drive, Remember
<1>6. kept \in Seq(Declared) /\ (kept # <<>> => kept[Len(kept)] = e)
  BY <1>2, <1>3, <1>5, LastRemembered DEF InStep, WaysTyped
<1>7. /\ offset'[t] = 0 /\ offset' \in [Train -> Nat] /\ ahead'[t] = <<>>
      /\ \A u \in Train \ {t} : /\ offset'[u] = offset[u] /\ behind'[u] = behind[u]
                                /\ ahead'[u] = ahead[u]
  BY <1>2, <1>5 DEF InStep, TrainsInStep, WaysTyped
<1>8. /\ q \in TrainState /\ q.length = r.length /\ q.stops = r.stops /\ q.transit = r.transit
      /\ q.progress = r.progress
  BY <1>2, <1>3 DEF TrainState
<1> HIDE DEF q, kept
<1>9. s.length = r.length /\ s.stops = r.stops
  <2>1. q.progress \in DOMAIN q.transit /\ To(q.transit[q.progress]) = m
    BY <1>1, <1>8 DEF UnderWay
  <2> HIDE DEF m
  <2> QED
    BY <1>4, <1>8, <2>1 DEF AdvanceTransit, TrainState
<1> HIDE DEF r, s, S, H, e
<1>10. 0 >= s.length => H \subseteq AheadOf(s)
  <2> HAVE 0 >= s.length
  <2>1. s.length = 0
    BY <1>2, <1>9 DEF TrainState
  <2> QED
    BY <1>2, <2>1 DEF Fit, HoldsInOrder
<1>11. 0 < s.length /\ kept # <<>> => kept[Len(kept)] \in H
  BY <1>1, <1>2, <1>4, <1>6, <1>9
<1>12. InStep(s, H, 0, kept, <<>>)
  BY <1>3, <1>6, <1>9, <1>10, <1>11 DEF InStep
<1>13. InStep(trains'[t], cleared'[t], offset'[t], behind'[t], ahead'[t])
  BY <1>7, <1>12 DEF s, H, kept
<1> QED
  BY <1>4, <1>7, <1>13, OneInStep

(* The block that a train reports to be on is the one before it, or it has *)
(* none before it, and reports the first of its way, which it has left.    *)
LEMMA ReportsAreOrderly ==
    ASSUME TypeOK, Orderly, TrainsInStep, NEW t \in Train,
           NEW mm \in Distances, NEW dwellOver \in BOOLEAN, Status(t, mm, dwellOver)
    PROVE  /\ OrderlyStatus(t, CurrentEdge(t), mm, dwellOver)
           /\ InTransit(t) => CurrentEdge(t) = NextEdge(t)
<1> DEFINE r == trains[t]
           S == cleared[t]
           route == r.transit
           n == Len(route)
           p == r.progress
           edge == CurrentEdge(t)
<1>1. /\ r \in TrainState /\ Fit(t, r, S) /\ route \in Seq(Block) /\ p \in Nat \ {0} /\ n \in Nat
      /\ mm \in Nat /\ DOMAIN route = 1..n /\ r.length \in Nat
  BY EventAssumption DEF Orderly, Fitting, TypeOK, TrainsOK, TrainState
<1>2. edge = IF route = <<>> THEN None ELSE route[1 + ((p - 1) % n)]
  BY DEF CurrentEdge
<1>3. HandleTrainStatus(t, edge, mm, dwellOver) /\ (MayMove(t) \/ mm = 0)
  BY DEF Status
<1>4. InTransit(t) => edge = NextEdge(t)
  <2> HAVE InTransit(t)
  <2>1. p \in 1..n /\ route # <<>> /\ NextEdge(t) = route[p]
    BY <1>1 DEF InTransit, NextEdge
  <2> HIDE DEF route, p, n
  <2>2. (p - 1) % n = p - 1
    BY <1>1, <2>1
  <2>3. 1 + ((p - 1) % n) = p
    BY <1>1, <2>2
  <2> QED
    BY <1>2, <2>1, <2>3
<1>5. CASE InTransit(t)
  <2>1. mm = 0 \/ edge \in S
    BY <1>3, <1>4 DEF MayMove
  <2>2. r.length = 0 \/ mm < r.length \/ edge \in S
    <3> HIDE DEF r, edge
    <3> QED
      BY <1>1, <2>1
  <2> QED
    BY <1>3, <1>4, <1>5, <2>2 DEF OrderlyStatus
<1>6. CASE ~InTransit(t) /\ route # <<>>
  <2>1. ~(p \in DOMAIN route) /\ ~UnderWay(r) /\ p <= n + 1 /\ r.last = To(route[n])
        /\ (\A i \in DOMAIN route : To(route[i]) # From(route[1]))
    BY <1>1, <1>6 DEF InTransit, UnderWay, Fit, OnItsWay, IsWay, Place
  <2>2. p = n + 1 /\ n \in 1..n /\ n # 0
    <3> HIDE DEF route, p
    <3>1. n # 0
      BY <1>1, <1>6 DEF n
    <3> HIDE DEF n
    <3> QED
      BY <1>1, <2>1, <3>1
  <2>3. (p - 1) % n = 0
    <3> HIDE DEF p, n
    <3>1. p - 1 = n
      BY <1>1, <2>2
    <3>2. n % n = 0
      BY <1>1, <2>2
    <3> QED
      BY <3>1, <3>2
  <2>4. edge = route[1]
    BY <1>2, <1>6, <2>3
  <2>5. From(edge) # r.last /\ r.last # None
    <3>1. route[n] \in Block
      BY <1>1, <2>2
    <3>2. To(route[n]) \in Marker
      BY <3>1, BlockEnds
    <3> QED
      BY <1>1, <2>1, <2>2, <2>4, <3>2, LayoutAssumption
  <2> QED
    BY <1>3, <1>6, <2>5 DEF OrderlyStatus
<1>7. CASE ~InTransit(t) /\ route = <<>>
  BY <1>2, <1>3, <1>7 DEF OrderlyStatus
<1> QED
  BY <1>4, <1>5, <1>6, <1>7

(* A train that reports where it is stays in step.                         *)
LEMMA StatusInStep ==
    ASSUME TypeOK, WaysTyped, Orderly, Orderly', TrainsInStep, NEW t \in Train,
           NEW mm \in Distances, NEW dwellOver \in BOOLEAN, Status(t, mm, dwellOver)
    PROVE  TrainsInStep'
<1> DEFINE r == trains[t]
           s == trains'[t]
           S == cleared[t]
           H == cleared'[t]
           edge == CurrentEdge(t)
           seeded == IF r.current = None /\ r.entry = None
                     THEN [r EXCEPT !.current = edge] ELSE r
<1>1. /\ r \in TrainState /\ InStep(r, S, offset[t], behind[t], ahead[t]) /\ r.length \in Nat
      /\ Fit(t, s, H) /\ trains \in [Train -> TrainState] /\ cleared \in [Train -> SUBSET Block]
      /\ offset \in [Train -> Nat] /\ mm \in Nat /\ held[t] = FALSE
  BY EventAssumption DEF Orderly, Quiet, Fitting, TypeOK, TrainsOK, TrainsInStep, TrainState
<1>2. /\ OrderlyStatus(t, edge, mm, dwellOver) /\ HandleTrainStatus(t, edge, mm, dwellOver)
      /\ InTransit(t) => edge = NextEdge(t)
  BY ReportsAreOrderly DEF OrderlyStatus
<1>3. /\ offset' = [offset EXCEPT ![t] = mm] /\ behind' = behind /\ ahead' = ahead
      /\ IF MayMove(t) THEN mm > offset[t] ELSE mm = 0
  BY DEF Status
<1>4. \A u \in Train \ {t} : trains'[u] = trains[u] /\ cleared'[u] = cleared[u]
  BY <1>1, <1>2 DEF HandleTrainStatus
<1>5. s = Advanced([seeded EXCEPT !.dwelling = FALSE]) \/ s = seeded
  BY <1>1, <1>2 DEF HandleTrainStatus
<1>6. r.length = 0 => H = S
  BY <1>1, <1>2 DEF HandleTrainStatus
<1>7. edge \in Block \cup {None}
  BY CurrentIsTrack
<1>8. /\ s.length = r.length /\ s.stops = r.stops
      /\ s.transit = r.transit /\ s.progress = r.progress
  <2> HIDE DEF r, s, edge
  <2>1. /\ seeded \in TrainState /\ seeded.length = r.length /\ seeded.stops = r.stops
        /\ seeded.transit = r.transit /\ seeded.progress = r.progress
    BY <1>1, <1>7 DEF TrainState
  <2> HIDE DEF seeded
  <2> QED
    BY <1>5, <2>1 DEF Advanced, TrainState
<1>9. /\ H # S => mm >= r.length /\ H = S \cap AheadOf(r)
      /\ r.length # 0 /\ MayMove(t) /\ mm >= r.length => H = S \cap AheadOf(r)
  <2>1. MayMove(t) => InTransit(t) /\ edge = NextEdge(t) /\ edge # None
    <3>1. MayMove(t) => NextEdge(t) \in Block
      BY DEF MayMove, TypeOK, TrainsOK
    <3>2. None \notin Block
      BY LayoutAssumption
    <3> QED
      BY <1>2, <3>1, <3>2 DEF MayMove
  <2>2. r.length # 0 => /\ H # S => mm >= r.length /\ H = S \cap AheadOf(r)
                        /\ InTransit(t) /\ edge = NextEdge(t) /\ edge # None /\ mm >= r.length
                             => H = S \cap AheadOf(r)
    BY <1>1, <1>2, TailStays
  <2> QED
    BY <1>6, <2>1, <2>2
<1>10. MayMove(t) <=> UnderWay(r) /\ r.transit[r.progress] \in S
  BY <1>1 DEF MayMove, UnderWay, InTransit, NextEdge
<1> HIDE DEF r, s, S, H, edge
<1>11. UnderWay(s) <=> UnderWay(r)
  BY <1>8 DEF UnderWay
<1>12. AheadOf(s) = AheadOf(r)
  BY <1>8 DEF AheadOf
<1>13. mm > 0 => UnderWay(s) /\ s.transit[s.progress] \in H
  <2> HAVE mm > 0
  <2>1. UnderWay(r) /\ r.transit[r.progress] \in S
    BY <1>3, <1>1, <1>10
  <2>2. r.transit[r.progress] \in AheadOf(r)
    <3>1. r.progress \in DOMAIN r.transit /\ r.progress >= r.progress
      BY <1>1, <2>1 DEF UnderWay, TrainState
    <3> QED
      BY <3>1 DEF AheadOf
  <2> QED
    BY <1>8, <1>9, <1>11, <2>1, <2>2
<1>14. mm >= s.length => H \subseteq AheadOf(s)
  <2> HAVE mm >= s.length
  <2>1. CASE s.length = 0
    BY <1>1, <2>1 DEF Fit, HoldsInOrder
  <2>2. CASE s.length # 0
    <3>1. MayMove(t)
      BY <1>1, <1>3, <1>8, <2>2
    <3> QED
      BY <1>8, <1>9, <1>12, <2>2, <3>1
  <2> QED
    BY <2>1, <2>2
<1>15. mm < s.length /\ behind[t] # <<>> => behind[t][Len(behind[t])] \in H
  <2> HAVE mm < s.length /\ behind[t] # <<>>
  <2>1. H = S
    BY <1>1, <1>8, <1>9
  <2>2. offset[t] < r.length
    <3>1. CASE MayMove(t)
      BY <1>1, <1>3, <1>8, <3>1
    <3>2. CASE ~MayMove(t)
      <4>1. ~(offset[t] > 0)
        BY <1>1, <1>10, <3>2 DEF InStep
      <4> QED
        BY <1>1, <1>3, <1>8, <3>2, <4>1
    <3> QED
      BY <3>1, <3>2
  <2> QED
    BY <1>1, <2>1, <2>2 DEF InStep
<1>16. InStep(s, H, mm, behind[t], ahead[t])
  BY <1>1, <1>8, <1>13, <1>14, <1>15 DEF InStep
<1>17. /\ offset' \in [Train -> Nat] /\ offset'[t] = mm
       /\ \A u \in Train \ {t} : offset'[u] = offset[u]
  BY <1>1, <1>3
<1>18. InStep(trains'[t], cleared'[t], offset'[t], behind'[t], ahead'[t])
  BY <1>3, <1>16, <1>17 DEF s, H
<1> QED
  BY <1>3, <1>4, <1>17, <1>18, OneInStep

(* Trains come, and get their timetables, before they have gone anywhere.  *)
LEMMA ArriveInStep ==
    ASSUME TypeOK, WaysTyped, Orderly, TrainsInStep, NEW t \in Train, Arrive(t) \/ Assign(t),
           UNCHANGED worldVars
    PROVE  TrainsInStep'
<1> DEFINE r == trains[t]
           s == trains'[t]
           H == cleared'[t]
           far == offset[t]
<1>1. /\ r \in TrainState /\ InStep(r, cleared[t], far, behind[t], ahead[t])
      /\ r.stops = <<>> /\ Fit(t, r, cleared[t])
      /\ trains \in [Train -> TrainState] /\ cleared \in [Train -> SUBSET Block]
  <2>1. r.stops = <<>>
    <3>1. t \notin Registered => r = InitialTrainState
      BY DEF Orderly, Quiet
    <3> QED
      BY <3>1 DEF Arrive, Assign, InitialTrainState
  <2> QED
    BY <2>1 DEF Orderly, Fitting, TypeOK, TrainsOK, TrainsInStep
<1>2. behind[t] = <<>> /\ cleared[t] = {} /\ ~UnderWay(r) /\ far \in Nat /\ ~(far > 0)
  <2>1. behind[t] = <<>> /\ cleared[t] = {} /\ far \in Nat /\ r.transit = <<>>
    BY <1>1 DEF InStep, Fit, Plain
  <2>2. ~UnderWay(r)
    BY <2>1 DEF UnderWay
  <2> QED
    BY <1>1, <2>1, <2>2 DEF InStep
<1>3. H = {} /\ \A u \in Train \ {t} : trains'[u] = trains[u] /\ cleared'[u] = cleared[u]
  BY <1>1, <1>2 DEF Arrive, Assign, RegisterTrain, AssignSchedule
<1>4. offset' = offset /\ behind' = behind /\ ahead' = ahead
  BY DEF worldVars
<1> HIDE DEF r, s, H, far
<1>5. InStep(s, H, far, behind[t], ahead[t])
  BY <1>1, <1>2, <1>3 DEF InStep
<1>6. InStep(trains'[t], cleared'[t], offset'[t], behind'[t], ahead'[t])
  BY <1>4, <1>5 DEF s, H, far
<1> QED
  BY <1>3, <1>4, <1>6, OneInStep DEF TrainsInStep

(* Each event of an orderly railway is an orderly one.                     *)
LEMMA EventsAreOrderly ==
    TimetablesCovered /\ ShortTrains /\ TypeOK /\ Orderly /\ TrainsInStep /\ [OpsNext]_opsVars
        => [OrderlyNext]_vars
<1> SUFFICES ASSUME TimetablesCovered, ShortTrains, TypeOK, Orderly, TrainsInStep, OpsNext
             PROVE  OrderlyNext
  BY DEF opsVars
<1>1. CASE Schedule
  BY <1>1 DEF Schedule, OrderlyNext
<1>2. ASSUME NEW t \in Train, Drive(t)
      PROVE  OrderlyNext
  BY <1>2, DrivePasses DEF OrderlyNext
<1>3. ASSUME NEW t \in Train, NEW mm \in Distances, NEW dwellOver \in BOOLEAN,
             Status(t, mm, dwellOver)
      PROVE  OrderlyNext
  <2>1. OrderlyStatus(t, CurrentEdge(t), mm, dwellOver) /\ CurrentEdge(t) \in Block \cup {None}
    BY <1>3, ReportsAreOrderly, CurrentIsTrack
  <2> QED
    BY <2>1 DEF OrderlyNext
<1>4. ASSUME NEW t \in Train, Arrive(t) \/ Assign(t)
      PROVE  OrderlyNext
  BY <1>4 DEF Arrive, Assign, TimetablesCovered, OrderlyNext
<1>5. ASSUME NEW j \in Junction, Pair(j) \/ Confirm(j)
      PROVE  OrderlyNext
  BY <1>5 DEF Pair, Confirm, OrderlyNext
<1> QED
  BY <1>1, <1>2, <1>3, <1>4, <1>5 DEF OpsNext

(* Every step of the railway leaves its trains in step.                    *)
LEMMA TrainsStayInStep ==
    /\ ShortTrains /\ TypeOK /\ WaysTyped /\ Orderly /\ Orderly' /\ TrainsInStep
    /\ [OpsNext]_opsVars
    => TrainsInStep'
<1> SUFFICES ASSUME ShortTrains, TypeOK, WaysTyped, Orderly, Orderly', TrainsInStep,
                    [OpsNext]_opsVars
             PROVE  TrainsInStep'
  OBVIOUS
<1>1. ASSUME NEW j \in Junction, Pair(j) \/ Confirm(j), UNCHANGED worldVars
      PROVE  TrainsInStep'
  BY <1>1 DEF Pair, Confirm, RecordSwitchPairing, HandleSwitchStateChanged, worldVars,
              TrainsInStep
<1>2. CASE UNCHANGED opsVars
  BY <1>2 DEF opsVars, vars, worldVars, TrainsInStep
<1> QED
  BY <1>1, <1>2, ScheduleInStep, DriveInStep, StatusInStep, ArriveInStep DEF OpsNext

(* Nobody has gone anywhere when the railway starts.                       *)
LEMMA InStepAtTheStart == OpsInit => TrainsInStep
<1> SUFFICES ASSUME OpsInit
             PROVE  TrainsInStep
  OBVIOUS
<1>1. offset = [t \in Train |-> 0] /\ behind = [t \in Train |-> <<>>] /\ ahead = [t \in Train |-> <<>>]
  BY DEF OpsInit
<1>2. <<>> \in Seq(Declared)
  OBVIOUS
<1>3. cleared = [t \in Train |-> {}]
  BY DEF OpsInit, Init
<1> QED
  BY <1>1, <1>2, <1>3 DEF TrainsInStep, InStep

(* A railway on which trains are shorter than blocks, and planned along    *)
(* ways, is an orderly world (scheduled-train-device.ts,                   *)
(* switch-device.ts): what trains and switches do is no more than the      *)
(* scheduler is proved to cope with.                                       *)
THEOREM OperationsAreOrderly ==
    TimetablesCovered /\ PlansAreWays /\ ShortTrains /\ OpsSpec
        => OrderlySpec /\ []Orderly /\ []TrainsInStep
<1> SUFFICES ASSUME TimetablesCovered, PlansAreWays, ShortTrains
             PROVE  OpsSpec => OrderlySpec /\ []Orderly /\ []TrainsInStep
  OBVIOUS
<1>1. OpsInit => Init /\ TypeOK /\ WaysTyped /\ Orderly /\ TrainsInStep
  <2>1. OpsInit => WaysTyped
    BY DEF OpsInit, WaysTyped
  <2> QED
    BY <2>1, InitTypes, OrderAtTheStart, InStepAtTheStart DEF OpsInit
<1> DEFINE IInv == TypeOK /\ WaysTyped /\ Orderly /\ TrainsInStep
<1>2. IInv /\ [OpsNext]_opsVars => IInv' /\ [Next]_vars /\ [OrderlyNext]_vars
  <2> SUFFICES ASSUME IInv, [OpsNext]_opsVars
               PROVE  IInv' /\ [Next]_vars /\ [OrderlyNext]_vars
    OBVIOUS
  <2>1. [Next]_vars /\ [OrderlyNext]_vars
    BY OperationsSimulates, EventsAreOrderly
  <2>2. TypeOK' /\ WaysTyped' /\ Orderly'
    BY <2>1, StepTypes, OperationsTypes, OrderIsKept
  <2>3. TrainsInStep'
    BY <2>2, TrainsStayInStep
  <2> QED
    BY <2>1, <2>2, <2>3
<1> QED
  BY <1>1, <1>2, PTL DEF OpsSpec, OrderlySpec, Safety

-----------------------------------------------------------------------------
(* What the runs check of the railway.                                     *)

(* Held clearance has no holes (extendClearanceHorizon), whatever the      *)
(* order in which trains move and passes come.                             *)
THEOREM ClearanceHasNoHoles ==
    TimetablesCovered /\ PlansAreWays /\ ShortTrains /\ OpsSpec => []ContiguousAhead
<1>1. Orderly => ContiguousAhead
  BY DEF Orderly, Fitting, Fit, HoldsInOrder, ContiguousAhead
<1> QED
  BY <1>1, OperationsAreOrderly, PTL

(* No wakeup is lost (retryBlockedClearances): when no handler is running, *)
(* nobody waits for a block it could have.                                 *)
THEOREM NobodyIsForgotten ==
    TimetablesCovered /\ PlansAreWays /\ ShortTrains /\ OpsSpec => []NobodyForgotten
<1>1. Settled => NobodyForgotten
  BY DEF Settled, AtRest, NobodyForgotten
<1> QED
  BY <1>1, OperationsAreOrderly, OrderSettles, PTL

(* Points are set for whoever holds the way over them                      *)
(* (maybeActuateSwitch).                                                   *)
THEOREM PointsAreSetForHolders ==
    TimetablesCovered /\ PlansAreWays /\ ShortTrains /\ LongTrainsOffJunctions /\ OpsSpec
        => []PointsSetForHolder
<1>1. Points => PointsSetForHolder
  BY DEF Points, SetFor, PointsSetForHolder
<1> QED
  BY <1>1, OperationsAreOrderly, PointsAreSet, PTL

(* The blocks under a train are its own (ADR-012): the one its head is on, *)
(* and the one behind that, as long as any of its length is on it.  It     *)
(* reaches no further back, being shorter than a block.                    *)
LEMMA UnderTrain ==
    ShortTrains /\ TypeOK /\ Orderly /\ TrainsInStep => TrackUnderTrainIsHeld
<1> SUFFICES ASSUME ShortTrains, TypeOK, Orderly, TrainsInStep, NEW t \in Train
             PROVE  Occupied(t) \subseteq cleared[t]
  BY DEF TrackUnderTrainIsHeld
<1> DEFINE q == behind[t]
           n == Len(q)
           far == offset[t]
           mine == cleared[t]
           length == trains[t].length
<1>1. /\ q \in Seq(Declared) /\ n \in Nat /\ DOMAIN q = 1..n /\ far \in Nat /\ ahead[t] = <<>>
      /\ far > 0 => InTransit(t) /\ NextEdge(t) \in mine
      /\ far < length /\ q # <<>> => q[n] \in mine
  BY DEF TrainsInStep, InStep, UnderWay, InTransit, NextEdge
<1>2. length \in Nat /\ \A e \in Declared : EdgeLength[e] \in Nat /\ length <= EdgeLength[e]
  <2>1. length \in {0, TrainLength[t]} /\ TrainLength[t] \in Nat
    BY TrainAssumption DEF Orderly, Fitting, Fit, Plain
  <2>2. \A e \in Declared : EdgeLength[e] \in Nat /\ TrainLength[t] <= EdgeLength[e]
    BY LayoutAssumption DEF ShortTrains, Block
  <2> HIDE DEF length
  <2> QED
    BY <2>1, <2>2
<1>3. ASSUME NEW i \in 1..n, DistanceBehind(t, i) < length
      PROVE  q[i] \in mine
  <2> DEFINE nearer == (i + 1)..n
             sum == SumOver(q, nearer)
  <2>1. IsFiniteSet(nearer) /\ \A k \in nearer : EdgeLength[q[k]] \in Nat
    <3>1. i + 1 \in Nat /\ nearer \subseteq 1..n
      BY <1>1
    <3>2. IsFiniteSet(nearer)
      BY <1>1, <3>1, FS_Interval
    <3>3. \A k \in nearer : q[k] \in Declared
      BY <1>1, <3>1, ElementOfSeq
    <3> QED
      BY <1>2, <3>2, <3>3
  <2>2. sum \in Nat /\ (nearer = {} => sum = 0) /\ \A k \in nearer : sum >= EdgeLength[q[k]]
    BY <2>1, SumIsEnough
  <2>3. DistanceBehind(t, i) = far + sum
    BY DEF DistanceBehind, SumOver
  <2> HIDE DEF sum, far, length
  <2>4. CASE i = n
    <3>1. far < length /\ q # <<>>
      <4>1. nearer = {}
        BY <1>1, <2>4
      <4> QED
        BY <1>1, <1>3, <2>2, <2>3, <4>1
    <3> QED
      BY <1>1, <2>4, <3>1
  <2>5. CASE i # n
    <3>1. n \in nearer /\ q[n] \in Declared
      BY <1>1, <2>5, ElementOfSeq
    <3>2. sum >= EdgeLength[q[n]] /\ EdgeLength[q[n]] \in Nat /\ length <= EdgeLength[q[n]]
      BY <1>2, <2>2, <3>1
    <3> QED
      BY <1>1, <1>2, <1>3, <2>2, <2>3, <3>2
  <2> QED
    BY <2>4, <2>5
<1>4. far > 0 => NextTrack(t) \in mine
  BY <1>1 DEF NextTrack
<1> QED
  BY <1>1, <1>3, <1>4 DEF Occupied

(* A train stands on no track but its own (ADR-012).                       *)
THEOREM TrainsStandOnTheirOwn ==
    TimetablesCovered /\ PlansAreWays /\ ShortTrains /\ OpsSpec => []TrackUnderTrainIsHeld
<1> SUFFICES ASSUME TimetablesCovered, PlansAreWays, ShortTrains
             PROVE  OpsSpec => []TrackUnderTrainIsHeld
  OBVIOUS
<1>1. TypeOK /\ Orderly /\ TrainsInStep => TrackUnderTrainIsHeld
  BY UnderTrain
<1>2. OpsSpec => []TypeOK
  BY OperationsAreScheduling, TypeCorrect, PTL
<1> QED
  BY <1>1, <1>2, OperationsAreOrderly, PTL
=============================================================================
