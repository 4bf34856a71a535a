--------------------------- MODULE SchedulerProofs --------------------------
(***************************************************************************)
(* The scheduler keeps its promise: its records stay well-typed, and every *)
(* step of it is a step of Clearance, so block exclusivity holds on every  *)
(* railway.  And what its steps may never do, that a pass over the waiting *)
(* trains leaves nobody behind, and that the resolution of a deadlock      *)
(* resolves it.                                                            *)
(***************************************************************************)
EXTENDS Scheduler, SequenceTheorems, FiniteSetTheorems, WellFoundedInduction, TLAPS

-----------------------------------------------------------------------------
(* The agenda.                                                             *)

(* Tasks are well-typed. *)
LEMMA Tasks ==
    /\ \A t \in Train : PlanTask(t) \in Task /\ ExtendTask(t) \in Task
    /\ \A S \in SUBSET Train, t \in Train \cup {None} : RetryTask(S, t) \in Task
    /\ \A t : PlanTask(t).op = "plan" /\ PlanTask(t).train = t
    /\ \A t : ExtendTask(t).op # "plan"
    /\ \A S, t : RetryTask(S, t).op # "plan"
  BY DEF Task, PlanTask, ExtendTask, RetryTask

(* The registered trains are trains. *)
LEMMA RegisteredTrains ==
    TrainsOK => Registered \subseteq Train /\ RetryAll \in Task /\ RetryAll.op # "plan"
<1> SUFFICES ASSUME TrainsOK
             PROVE  Registered \subseteq Train /\ RetryAll \in Task /\ RetryAll.op # "plan"
  OBVIOUS
<1>1. Registered \subseteq Train
  BY DEF TrainsOK, Registered, Range
<1> QED
  BY <1>1, Tasks DEF RetryAll

KeepsSchedules == \A t \in Train : trains[t].stops # <<>> => trains'[t].stops # <<>>

(* A handler that leaves the schedules alone may go on with tasks that     *)
(* plan nothing, and then with what was on the agenda after its first.     *)
LEMMA AgendaGoesOn ==
    ASSUME TypeOK, KeepsSchedules, agenda # <<>>, deadlock' \subseteq Train,
           NEW tasks \in Seq(Task), \A i \in DOMAIN tasks : tasks[i].op # "plan",
           agenda' = tasks \o Tail(agenda)
    PROVE  AgendaOK'
<1>1. agenda \in Seq(Task) /\ Tail(agenda) \in Seq(Task) /\ Len(Tail(agenda)) = Len(agenda) - 1
  BY DEF TypeOK, AgendaOK
<1>2. agenda' \in Seq(Task) /\ Len(agenda') = Len(tasks) + Len(Tail(agenda))
  BY <1>1
<1>3. ASSUME NEW i \in DOMAIN agenda', agenda'[i].op = "plan"
      PROVE  trains'[agenda'[i].train].stops # <<>>
  <2>1. CASE i <= Len(tasks)
    <3>1. agenda'[i] = tasks[i]
      BY <1>1, <1>2, <2>1
    <3> QED
      BY <1>3, <1>2, <2>1, <3>1
  <2>2. CASE i > Len(tasks)
    <3> DEFINE k == i - Len(tasks) + 1
    <3>1. k \in DOMAIN agenda /\ agenda'[i] = agenda[k]
      BY <1>1, <1>2, <2>2
    <3> HIDE DEF k
    <3>2. agenda[k] \in Task /\ agenda[k].op = "plan"
      BY <1>1, <1>3, <3>1
    <3>3. agenda[k].train \in Train /\ trains[agenda[k].train].stops # <<>>
      BY <3>1, <3>2 DEF Task, TypeOK, AgendaOK
    <3> QED
      BY <3>1, <3>3 DEF KeepsSchedules
  <2>3. i \in Int /\ Len(tasks) \in Int
    BY <1>2, <1>3
  <2> QED
    BY <2>1, <2>2, <2>3
<1> QED
  BY <1>2, <1>3 DEF AgendaOK

(* The same when nothing is left but the rest. *)
LEMMA AgendaRests ==
    ASSUME TypeOK, KeepsSchedules, agenda # <<>>, deadlock' \subseteq Train,
           agenda' = Tail(agenda)
    PROVE  AgendaOK'
<1>1. agenda' = <<>> \o Tail(agenda)
  BY DEF TypeOK, AgendaOK
<1>2. <<>> \in Seq(Task) /\ \A i \in DOMAIN <<>> : <<>>[i].op # "plan"
  OBVIOUS
<1> QED
  BY <1>1, <1>2, AgendaGoesOn

(* An event leaves the agenda empty, or a retry on it. *)
LEMMA AgendaRetry ==
    ASSUME TrainsOK, deadlock' \subseteq Train,
           NEW S \in SUBSET Train, NEW t \in Train \cup {None},
           agenda' \in {<<>>, <<RetryTask(S, t)>>}
    PROVE  AgendaOK'
<1>1. RetryTask(S, t) \in Task /\ RetryTask(S, t).op # "plan"
  BY Tasks
<1>2. CASE agenda' = <<>>
  BY <1>2 DEF AgendaOK
<1>3. CASE agenda' = <<RetryTask(S, t)>>
  BY <1>1, <1>3 DEF AgendaOK
<1> QED
  BY <1>2, <1>3

(* An event that retries all trains, or none, leaves the agenda well-typed. *)
LEMMA RetriesAll ==
    ASSUME TypeOK, TrainsOK', UNCHANGED <<arrival, deadlock>>, agenda' \in {<<>>, <<RetryAll>>}
    PROVE  AgendaOK'
<1>1. Registered \in SUBSET Train /\ deadlock' \subseteq Train
  BY RegisteredTrains DEF TypeOK, AgendaOK
<1>2. TrainsOK
  BY DEF TypeOK
<1> QED
  BY <1>1, <1>2, AgendaRetry DEF RetryAll

(* An event that plans a train leaves it with a schedule. *)
LEMMA AgendaPlan ==
    ASSUME TrainsOK, deadlock' \subseteq Train, NEW t \in Train, trains'[t].stops # <<>>,
           agenda' \in {<<PlanTask(t)>>, <<PlanTask(t), RetryAll>>}
    PROVE  AgendaOK'
<1>1. PlanTask(t) \in Task /\ RetryAll \in Task /\ RetryAll.op # "plan" /\ PlanTask(t).train = t
  BY Tasks, RegisteredTrains
<1>2. CASE agenda' = <<PlanTask(t)>>
  BY <1>1, <1>2 DEF AgendaOK
<1>3. CASE agenda' = <<PlanTask(t), RetryAll>>
  BY <1>1, <1>3 DEF AgendaOK
<1> QED
  BY <1>2, <1>3

-----------------------------------------------------------------------------
(* The trains.                                                             *)

(* The record of one train may be replaced by a coherent one. *)
LEMMA OneTrain ==
    ASSUME TrainsOK, NEW t \in Train, NEW r \in TrainState, Coherent(r),
           trains' = [trains EXCEPT ![t] = r]
    PROVE  /\ trains' \in [Train -> TrainState]
           /\ \A u \in Train : Coherent(trains'[u])
           /\ trains'[t] = r
  BY DEF TrainsOK

(* So may one that keeps its schedule. *)
LEMMA ChangesOneTrain ==
    ASSUME TrainsOK, NEW t \in Train, NEW r \in TrainState, Coherent(r),
           r.stops = trains[t].stops,
           trains' = [trains EXCEPT ![t] = r]
    PROVE  /\ trains' \in [Train -> TrainState]
           /\ \A u \in Train : Coherent(trains'[u])
           /\ KeepsSchedules
  BY DEF TrainsOK, KeepsSchedules

(* The scheduler moves on to the next stop of a schedule. *)
LEMMA NextStop ==
    ASSUME NEW r \in TrainState, Coherent(r), r.stops # <<>>
    PROVE  Advanced(r) \in TrainState /\ Coherent(Advanced(r)) /\ Advanced(r).stops # <<>>
<1>1. r.stops \in Seq(Marker) /\ r.stop \in Nat \ {0} /\ Len(r.stops) \in Nat \ {0}
  BY DEF TrainState
<1>2. r.stop % Len(r.stops) \in 0..(Len(r.stops) - 1)
  BY <1>1
<1> DEFINE next == 1 + (r.stop % Len(r.stops))
<1>3. next \in Nat \ {0} /\ next \in DOMAIN r.stops
  BY <1>1, <1>2
<1>4. Advanced(r) = [r EXCEPT !.stop = next]
  BY DEF Advanced
<1> QED
  BY <1>3, <1>4 DEF TrainState, Coherent

(* A train may be given another route, or none. *)
LEMMA NewRoute ==
    ASSUME NEW r \in TrainState, Coherent(r), NEW route \in Seq(Block),
           NEW n \in Nat \ {0}, NEW x \in Marker \cup {None}
    PROVE  LET s == [r EXCEPT !.transit = route, !.progress = n, !.limit = x]
           IN  s \in TrainState /\ s.stops = r.stops /\ Coherent(s)
<1> DEFINE s == [r EXCEPT !.transit = route, !.progress = n, !.limit = x]
<1>1. s \in TrainState
  BY DEF TrainState
<1>2. s.stops = r.stops /\ s.stop = r.stop /\ s.last = r.last /\ s.dwelling = r.dwelling
  BY DEF TrainState
<1> HIDE DEF s
<1>3. Coherent(s)
  BY <1>2 DEF Coherent
<1> QED
  BY <1>1, <1>2, <1>3 DEF s

(* A marker report moves a train along its route. *)
LEMMA NextBlock ==
    ASSUME NEW r \in TrainState, Coherent(r), NEW m \in Marker
    PROVE  AdvanceTransit(r, m) \in TrainState /\ Coherent(AdvanceTransit(r, m))
<1>1. r.transit \in Seq(Block) /\ r.progress \in Nat \ {0}
  BY DEF TrainState
<1>2. CASE r.progress \in DOMAIN r.transit /\ To(r.transit[r.progress]) = m /\ r.progress < Len(r.transit)
  <2>1. r.transit[r.progress + 1] \in Block
    BY <1>1, <1>2
  <2>2. r.progress + 1 \in Nat \ {0}
    BY <1>1
  <2>3. AdvanceTransit(r, m) = [r EXCEPT !.progress = r.progress + 1, !.current = r.transit[r.progress + 1]]
    BY <1>2 DEF AdvanceTransit
  <2> QED
    BY <2>1, <2>2, <2>3 DEF TrainState, Coherent
<1>3. CASE r.progress \in DOMAIN r.transit /\ To(r.transit[r.progress]) = m /\ ~(r.progress < Len(r.transit))
  <2> DEFINE stays == r.dwelling \/ AtScheduledStop(r, m)
  <2>1. r.progress + 1 \in Nat \ {0}
    BY <1>1
  <2>2. AdvanceTransit(r, m) = [r EXCEPT !.progress = r.progress + 1, !.current = None, !.dwelling = stays]
    BY <1>3 DEF AdvanceTransit
  <2>3. stays \in BOOLEAN /\ (stays => r.stops # <<>>)
    BY DEF TrainState, AtScheduledStop, Coherent
  <2> QED
    BY <2>1, <2>2, <2>3 DEF TrainState, Coherent
<1>4. CASE ~(r.progress \in DOMAIN r.transit /\ To(r.transit[r.progress]) = m)
  BY <1>4 DEF AdvanceTransit
<1> QED
  BY <1>2, <1>3, <1>4

-----------------------------------------------------------------------------
(* The tasks of a running handler.                                         *)

(* A task of the agenda is well-typed. *)
LEMMA FirstTask ==
    ASSUME TypeOK, agenda # <<>>
    PROVE  /\ Head(agenda) \in Task
           /\ Head(agenda) = agenda[1]
           /\ Head(agenda).op = "plan" => trains[Head(agenda).train].stops # <<>>
<1>1. agenda \in Seq(Task) /\ 1 \in DOMAIN agenda /\ Head(agenda) = agenda[1]
  BY DEF TypeOK, AgendaOK
<1> QED
  BY <1>1 DEF TypeOK, AgendaOK

(* Both ends of a block are markers. *)
LEMMA BlockEnds == \A x \in Block : From(x) \in Marker /\ To(x) \in Marker
  BY LayoutAssumption DEF EdgeRef, From, To

(* The planner's answers are routes along known track, but for the edge    *)
(* that the train is on.                                                   *)
LEMMA RoutesAreBlocks ==
    ASSUME TrackOK, NEW from \in Marker, NEW to \in Marker, NEW heading \in Block \cup {None}
    PROVE  Plan(known, from, to, heading) \in Seq(Block)
<1>1. known = Declared \cup (known \ Declared) /\ known \ Declared \in SUBSET (Block \ Declared)
  BY DEF TrackOK
<1>2. Plan(known, from, to, heading) \in Seq(known \cup ({heading} \ {None}))
  BY <1>1, PlanAssumption
<1>3. known \cup ({heading} \ {None}) \subseteq Block
  BY DEF TrackOK
<1> QED
  BY <1>2, <1>3, SeqMonotonic

(* Extending a train's clearance changes what it holds, its limit, and     *)
(* what is asked of the switches: all to known blocks, markers, positions. *)
LEMMA ExtendTypes ==
    ASSUME TypeOK, NEW t \in Train, ExtendClearanceHorizon(t)
    PROVE  /\ cleared' \in [Train -> SUBSET Block]
           /\ trains' \in [Train -> TrainState]
           /\ \A u \in Train : Coherent(trains'[u])
           /\ KeepsSchedules
           /\ requested' \in [Marker -> Position \cup {None}]
<1>1. PICK h \in HORIZON_EDGES..HORIZON_MAX_EDGES :
        /\ cleared' = [cleared EXCEPT ![t] =
                           @ \cup {trains[t].transit[i] : i \in NewlyGranted(t, h)}]
        /\ \/ UNCHANGED trains
           \/ \E last \in NewlyGranted(t, h) :
                trains' = [trains EXCEPT ![t].limit = To(trains[t].transit[last])]
        /\ requested' = [j \in Marker |->
                            IF \E e \in SwitchesToThrow(t, h) : From(e) = j
                            THEN Switched[CHOOSE e \in SwitchesToThrow(t, h) : From(e) = j]
                            ELSE requested[j]]
  BY DEF ExtendClearanceHorizon
<1>2. trains[t] \in TrainState /\ Coherent(trains[t]) /\ trains[t].transit \in Seq(Block)
  BY DEF TypeOK, TrainsOK, TrainState
<1>3. \A i \in NewlyGranted(t, h) : trains[t].transit[i] \in Block
  BY <1>2 DEF NewlyGranted, Walked
<1>4. cleared' \in [Train -> SUBSET Block]
  BY <1>1, <1>3 DEF TypeOK, TrainsOK
<1>5. /\ trains' \in [Train -> TrainState]
      /\ \A u \in Train : Coherent(trains'[u])
      /\ KeepsSchedules
  <2>1. CASE UNCHANGED trains
    BY <2>1 DEF TypeOK, TrainsOK, KeepsSchedules
  <2>2. ASSUME NEW last \in NewlyGranted(t, h),
               trains' = [trains EXCEPT ![t].limit = To(trains[t].transit[last])]
        PROVE  /\ trains' \in [Train -> TrainState]
               /\ \A u \in Train : Coherent(trains'[u])
               /\ KeepsSchedules
    <3> DEFINE r == trains[t]
               x == To(trains[t].transit[last])
               s == [r EXCEPT !.limit = x]
    <3>1. x \in Marker
      BY <1>3, <2>2, BlockEnds
    <3>2. r \in TrainState /\ Coherent(r)
      BY <1>2
    <3>3. trains' = [trains EXCEPT ![t] = s]
      BY <2>2
    <3> HIDE DEF x, r
    <3>4. s \in TrainState /\ s.stops = r.stops /\ Coherent(s)
      BY <3>1, <3>2 DEF TrainState, Coherent
    <3> QED
      BY <3>3, <3>4, ChangesOneTrain DEF TypeOK, r
  <2> QED
    BY <1>1, <2>1, <2>2
<1>6. requested' \in [Marker -> Position \cup {None}]
  <2>1. \A e \in SwitchesToThrow(t, h) : Switched[e] \in Position
    BY DEF SwitchesToThrow, MustThrowSwitch, EdgeRequiresMismatchedSwitch, Position, Range
  <2>2. ASSUME NEW j \in Marker, \E e \in SwitchesToThrow(t, h) : From(e) = j
        PROVE  (CHOOSE e \in SwitchesToThrow(t, h) : From(e) = j) \in SwitchesToThrow(t, h)
    BY <2>2
  <2> QED
    BY <1>1, <2>1, <2>2 DEF TypeOK, TrackOK
<1> QED
  BY <1>4, <1>5, <1>6

(* extendClearanceHorizon as a task of its own. *)
LEMMA DoExtendTypes == TypeOK /\ DoExtend => TypeOK'
<1> SUFFICES ASSUME TypeOK, DoExtend
             PROVE  TypeOK'
  OBVIOUS
<1> DEFINE t == Head(agenda).train
<1>1. t \in Train
  BY FirstTask DEF DoExtend, Idle, Task
<1> HIDE DEF t
<1>2. ExtendClearanceHorizon(t)
  BY DEF DoExtend, t
<1>3. TrainsOK' /\ TrackOK' /\ KeepsSchedules
  BY <1>1, <1>2, ExtendTypes DEF DoExtend, TypeOK, TrainsOK, TrackOK, trackVars
<1>4. DevicesOK'
  BY DEF DoExtend, TypeOK, DevicesOK, deviceVars
<1>5. AgendaOK'
  BY <1>3, AgendaRests DEF DoExtend, Idle, TypeOK, AgendaOK
<1> QED
  BY <1>3, <1>4, <1>5 DEF TypeOK

(* One turn of the retry loop. *)
LEMMA DoRetryTypes == TypeOK /\ DoRetry => TypeOK'
<1> SUFFICES ASSUME TypeOK, DoRetry
             PROVE  TypeOK'
  OBVIOUS
<1>1. Head(agenda) \in Task /\ Head(agenda) = agenda[1] /\ agenda[1].op = "retry"
  BY FirstTask DEF DoRetry, Idle
<1>2. PICK t \in agenda[1].pending :
        /\ ExtendClearanceHorizon(t)
        /\ agenda' = [agenda EXCEPT ![1].pending = @ \ {t}]
  BY <1>1 DEF DoRetry
<1>3. t \in Train
  BY <1>1, <1>2 DEF Task
<1>4. TrainsOK' /\ TrackOK' /\ KeepsSchedules
  BY <1>2, <1>3, ExtendTypes DEF DoRetry, TypeOK, TrainsOK, TrackOK, trackVars
<1>5. DevicesOK'
  BY DEF DoRetry, TypeOK, DevicesOK, deviceVars
<1>6. AgendaOK'
  <2> DEFINE first == [agenda[1] EXCEPT !.pending = @ \ {t}]
  <2>1. first \in Task /\ first.op = "retry"
    BY <1>1, <1>3 DEF Task
  <2>2. agenda \in Seq(Task) /\ 1 \in 1..Len(agenda)
    BY DEF DoRetry, Idle, TypeOK, AgendaOK
  <2>5. agenda' = [agenda EXCEPT ![1] = first]
    BY <1>2
  <2> HIDE DEF first
  <2>3. agenda' \in Seq(Task) /\ Len(agenda') = Len(agenda)
    BY <2>1, <2>2, <2>5, ExceptSeq
  <2>4. ASSUME NEW i \in DOMAIN agenda', agenda'[i].op = "plan"
        PROVE  trains'[agenda'[i].train].stops # <<>>
    <3>1. i \in DOMAIN agenda /\ i # 1 /\ agenda'[i] = agenda[i]
      BY <2>1, <2>2, <2>3, <2>4, <2>5
    <3>2. agenda[i] \in Task /\ agenda[i].op = "plan"
      BY <2>2, <2>4, <3>1
    <3>3. agenda[i].train \in Train /\ trains[agenda[i].train].stops # <<>>
      BY <3>1, <3>2 DEF Task, TypeOK, AgendaOK
    <3> QED
      BY <1>4, <3>1, <3>3 DEF KeepsSchedules
  <2> QED
    BY <2>3, <2>4 DEF DoRetry, AgendaOK, TypeOK
<1> QED
  BY <1>4, <1>5, <1>6 DEF TypeOK

(* Every train of a cycle is a registered one that is not held. *)
LEMMA CyclesAreOfTrains ==
    ASSUME TrainsOK, NEW c \in WaitsForCycles, NEW v \in Range(c)
    PROVE  v \in Train /\ v \in CollectWaitingTrains /\ ~held[v]
<1>1. PICK t : c \in CyclesThrough(t)
  BY DEF WaitsForCycles
<1>2. PICK n \in 2..Cardinality(Train) : c \in [1..n -> CollectWaitingTrains]
  BY <1>1 DEF CyclesThrough
<1>3. v \in CollectWaitingTrains
  BY <1>2 DEF Range
<1> QED
  BY <1>3, RegisteredTrains DEF CollectWaitingTrains

(* After a yield or a reverse all trains but the victim are retried. *)
LEMMA RetryWithoutTypes ==
    ASSUME TypeOK, NEW v \in Train, KeepsSchedules, agenda # <<>>, deadlock' = deadlock,
           agenda' = RetryWithout(v)
    PROVE  AgendaOK'
<1> DEFINE task == RetryTask(Registered \ {v}, v)
           tasks == <<task>>
<1>1. task \in Task /\ task.op # "plan"
  BY Tasks, RegisteredTrains DEF TypeOK
<1>2. agenda' = tasks \o Tail(agenda)
  BY DEF RetryWithout
<1> HIDE DEF task
<1>3. tasks \in Seq(Task) /\ \A i \in DOMAIN tasks : tasks[i].op # "plan"
  BY <1>1
<1> QED
  BY <1>2, <1>3, AgendaGoesOn DEF TypeOK, AgendaOK

(* A yield only takes blocks away, and puts the limit where the train is. *)
LEMMA YieldTypes == TypeOK /\ TryYieldLowestRanked => TypeOK'
<1> SUFFICES ASSUME TypeOK, TryYieldLowestRanked
             PROVE  TypeOK'
  OBVIOUS
<1>1. PICK c, v :
        /\ c \in WaitsForCycles /\ v \in Range(c)
        /\ cleared' = [cleared EXCEPT ![v] = @ \ Releasable(v, PeerWantedEdge(c, v))]
        /\ trains' = [trains EXCEPT ![v].limit =
                          IF trains[v].last = None THEN @ ELSE trains[v].last]
        /\ agenda' = RetryWithout(v)
  BY DEF TryYieldLowestRanked
<1>2. v \in Train
  BY <1>1, CyclesAreOfTrains DEF TypeOK
<1>3. cleared' \in [Train -> SUBSET Block]
  BY <1>1 DEF TypeOK, TrainsOK
<1>4. /\ trains' \in [Train -> TrainState]
      /\ \A u \in Train : Coherent(trains'[u])
      /\ KeepsSchedules
  <2> DEFINE r == trains[v]
             s == [r EXCEPT !.limit = IF r.last = None THEN r.limit ELSE r.last]
  <2>1. r \in TrainState /\ Coherent(r)
    BY <1>2 DEF TypeOK, TrainsOK
  <2>2. trains' = [trains EXCEPT ![v] = s]
    BY <1>1
  <2> HIDE DEF r
  <2>3. s \in TrainState /\ s.stops = r.stops /\ Coherent(s)
    BY <2>1 DEF TrainState, Coherent
  <2> QED
    BY <1>2, <2>2, <2>3, ChangesOneTrain DEF TypeOK, r
<1>5. TrainsOK' /\ TrackOK' /\ DevicesOK'
  BY <1>3, <1>4 DEF TryYieldLowestRanked, TypeOK, TrainsOK, TrackOK, DevicesOK, trackVars, deviceVars
<1>6. AgendaOK'
  BY <1>1, <1>2, <1>4, RetryWithoutTypes DEF TryYieldLowestRanked, Resolving, Idle
<1> QED
  BY <1>5, <1>6 DEF TypeOK

(* A reverse moves the train to the far end of a block it held. *)
LEMMA ReverseTypes == TypeOK /\ TryReverseToBreakStandoff => TypeOK'
<1> SUFFICES ASSUME TypeOK, TryReverseToBreakStandoff
             PROVE  TypeOK'
  OBVIOUS
<1>1. PICK c, v, p :
        /\ c \in WaitsForCycles /\ v \in Range(c) /\ p \in Retreats(c, v)
        /\ cleared' = [cleared EXCEPT ![v] = @ \ Range(p)]
        /\ trains' = [trains EXCEPT ![v].last = From(p[Len(p)]), ![v].limit = From(p[Len(p)])]
        /\ agenda' = RetryWithout(v)
  BY DEF TryReverseToBreakStandoff
<1>2. v \in Train
  BY <1>1, CyclesAreOfTrains DEF TypeOK
<1>3. cleared' \in [Train -> SUBSET Block]
  BY <1>1 DEF TypeOK, TrainsOK
<1>4. From(p[Len(p)]) \in Marker
  <2>1. p \in BackwardRuns(cleared[v], trains[v].last)
    BY <1>1 DEF Retreats
  <2>2. PICK n \in 1..Cardinality(cleared[v]) : p \in [1..n -> cleared[v]]
    BY <2>1 DEF BackwardRuns
  <2>3. n \in Nat /\ n \in 1..n
    BY <2>2
  <2>4. Len(p) = n /\ p[n] \in cleared[v]
    BY <2>2, <2>3
  <2> QED
    BY <1>2, <2>4, BlockEnds DEF TypeOK, TrainsOK
<1>5. /\ trains' \in [Train -> TrainState]
      /\ \A u \in Train : Coherent(trains'[u])
      /\ KeepsSchedules
  <2> DEFINE r == trains[v]
             x == From(p[Len(p)])
             s == [r EXCEPT !.last = x, !.limit = x]
  <2>1. r \in TrainState /\ Coherent(r) /\ x \in Marker
    BY <1>2, <1>4 DEF TypeOK, TrainsOK
  <2>2. trains' = [trains EXCEPT ![v] = s]
    BY <1>1, <1>2 DEF TypeOK, TrainsOK
  <2> HIDE DEF r, x
  <2>3. s \in TrainState /\ s.stops = r.stops /\ Coherent(s)
    BY <2>1, LayoutAssumption DEF TrainState, Coherent
  <2> QED
    BY <1>2, <2>2, <2>3, ChangesOneTrain DEF TypeOK, r
<1>6. TrainsOK' /\ TrackOK' /\ DevicesOK'
  BY <1>3, <1>5 DEF TryReverseToBreakStandoff, TypeOK, TrainsOK, TrackOK, DevicesOK, trackVars, deviceVars
<1>7. AgendaOK'
  BY <1>1, <1>2, <1>5, RetryWithoutTypes DEF TryReverseToBreakStandoff, Resolving, Idle
<1> QED
  BY <1>6, <1>7 DEF TypeOK

(* What stands in a cycle are trains, so the report names trains. *)
LEMMA EmitTypes == TypeOK /\ EmitDeadlockState => TypeOK'
<1> SUFFICES ASSUME TypeOK, EmitDeadlockState
             PROVE  TypeOK'
  OBVIOUS
<1>1. deadlock' \subseteq Train
  BY CyclesAreOfTrains DEF EmitDeadlockState, TypeOK
<1>2. TrainsOK' /\ TrackOK' /\ DevicesOK' /\ KeepsSchedules
  BY DEF EmitDeadlockState, TypeOK, TrainsOK, TrackOK, DevicesOK, KeepsSchedules, trackVars, deviceVars
<1>3. AgendaOK'
  BY <1>1, <1>2, AgendaRests DEF EmitDeadlockState, Resolving, Idle
<1> QED
  BY <1>2, <1>3 DEF TypeOK

(* Planning a train gives it a route of known blocks, or none, or another  *)
(* stop of its schedule.                                                   *)
LEMMA DoPlanTypes == TypeOK /\ DoPlan => TypeOK'
<1> SUFFICES ASSUME TypeOK, DoPlan
             PROVE  TypeOK'
  OBVIOUS
<1> DEFINE t == Head(agenda).train
           r == trains[t]
           target == r.stops[r.stop]
           heading == IF r.current # None THEN r.current ELSE r.entry
           route == Plan(known, r.last, target, heading)
<1>1. t \in Train /\ r \in TrainState /\ Coherent(r) /\ r.stops # <<>>
  BY FirstTask DEF DoPlan, Idle, Task, TypeOK, TrainsOK
<1>2. route \in Seq(Block)
  <2>1. target \in Marker /\ r.last \in Marker /\ heading \in Block \cup {None}
    BY <1>1 DEF TrainState, Coherent
  <2> QED
    BY <2>1, RoutesAreBlocks DEF TypeOK
<1>3. \/ /\ agenda' = Tail(agenda)
         /\ UNCHANGED trains
      \/ /\ route # <<>>
         /\ trains' = [trains EXCEPT ![t].transit = route, ![t].progress = 1,
                                     ![t].limit = From(route[1])]
         /\ agenda' = <<ExtendTask(t), RetryAll>> \o Tail(agenda)
      \/ /\ trains' = [trains EXCEPT ![t].transit = <<>>, ![t].progress = 1,
                                     ![t].limit = r.last]
         /\ agenda' = Tail(agenda)
      \/ /\ trains' = [trains EXCEPT ![t] = Advanced(r)]
         /\ UNCHANGED agenda
  BY DEF DoPlan, PlanAndExecuteCurrentTransit
<1> HIDE DEF t, route
<1>4. /\ trains' \in [Train -> TrainState]
      /\ \A u \in Train : Coherent(trains'[u])
      /\ KeepsSchedules
  <2>1. CASE UNCHANGED trains
    BY <2>1 DEF TypeOK, TrainsOK, KeepsSchedules
  <2>2. ASSUME route # <<>>,
               trains' = [trains EXCEPT ![t].transit = route, ![t].progress = 1,
                                        ![t].limit = From(route[1])]
        PROVE  <1>4
    <3> DEFINE x == From(route[1])
               n == 1
               s == [r EXCEPT !.transit = route, !.progress = n, !.limit = x]
    <3>1. x \in Marker \cup {None} /\ n \in Nat \ {0}
      BY <1>2, <2>2, BlockEnds
    <3>2. trains' = [trains EXCEPT ![t] = s]
      BY <1>1, <2>2 DEF TypeOK, TrainsOK
    <3> HIDE DEF n, x, r
    <3>3. s \in TrainState /\ s.stops = r.stops /\ Coherent(s)
      BY <1>1, <1>2, <3>1, NewRoute
    <3> QED
      BY <1>1, <3>2, <3>3, ChangesOneTrain DEF TypeOK, r
  <2>3. ASSUME trains' = [trains EXCEPT ![t].transit = <<>>, ![t].progress = 1,
                                        ![t].limit = r.last]
        PROVE  <1>4
    <3> DEFINE none == <<>>
               n == 1
               x == r.last
               s == [r EXCEPT !.transit = none, !.progress = n, !.limit = x]
    <3>1. x \in Marker \cup {None} /\ none \in Seq(Block) /\ n \in Nat \ {0}
      BY <1>1 DEF TrainState
    <3>2. trains' = [trains EXCEPT ![t] = s]
      BY <1>1, <2>3 DEF TypeOK, TrainsOK
    <3> HIDE DEF none, n, x, r
    <3>3. s \in TrainState /\ s.stops = r.stops /\ Coherent(s)
      BY <1>1, <3>1, NewRoute
    <3> QED
      BY <1>1, <3>2, <3>3, ChangesOneTrain DEF TypeOK, r
  <2>4. ASSUME trains' = [trains EXCEPT ![t] = Advanced(r)]
        PROVE  <1>4
    <3> HIDE DEF r
    <3>1. Advanced(r) \in TrainState /\ Coherent(Advanced(r)) /\ Advanced(r).stops = r.stops
      BY <1>1, NextStop DEF Advanced, TrainState
    <3> QED
      BY <1>1, <2>4, <3>1, ChangesOneTrain DEF TypeOK, r
  <2> QED
    BY <1>3, <2>1, <2>2, <2>3, <2>4
<1>5. TrainsOK' /\ TrackOK' /\ DevicesOK'
  BY <1>4 DEF DoPlan, TypeOK, TrainsOK, TrackOK, DevicesOK, trackVars, deviceVars
<1>6. AgendaOK'
  <2>1. agenda # <<>> /\ deadlock' = deadlock /\ deadlock \subseteq Train
    BY DEF DoPlan, Idle, TypeOK, AgendaOK
  <2>2. CASE agenda' = Tail(agenda)
    BY <1>4, <2>1, <2>2, AgendaRests
  <2>3. CASE agenda' = <<ExtendTask(t), RetryAll>> \o Tail(agenda)
    <3> DEFINE extend == ExtendTask(t)
               retry == RetryAll
               tasks == <<extend, retry>>
    <3>1. extend \in Task /\ extend.op # "plan" /\ retry \in Task /\ retry.op # "plan"
      BY <1>1, Tasks, RegisteredTrains DEF TypeOK
    <3>2. agenda' = tasks \o Tail(agenda)
      BY <2>3
    <3> HIDE DEF extend, retry
    <3>3. tasks \in Seq(Task) /\ \A i \in DOMAIN tasks : tasks[i].op # "plan"
      BY <3>1
    <3> QED
      BY <1>4, <2>1, <3>2, <3>3, AgendaGoesOn
  <2>4. CASE UNCHANGED agenda
    <3>1. ASSUME NEW i \in DOMAIN agenda, agenda[i].op = "plan"
          PROVE  agenda[i].train \in Train /\ trains[agenda[i].train].stops # <<>>
      <4>1. agenda[i] \in Task
        BY DEF TypeOK, AgendaOK
      <4> QED
        BY <3>1, <4>1 DEF Task, TypeOK, AgendaOK
    <3> QED
      BY <1>4, <2>1, <2>4, <3>1 DEF TypeOK, AgendaOK, KeepsSchedules
  <2> QED
    BY <1>3, <2>2, <2>3, <2>4
<1> QED
  BY <1>5, <1>6 DEF TypeOK

-----------------------------------------------------------------------------
(* Marker reports and status reports.                                      *)

(* One train's record is replaced, blocks are taken from it, and the       *)
(* trains are retried, or nothing more is done.                            *)
LEMMA OneTrainTypes ==
    ASSUME TypeOK, NEW t \in Train, NEW r \in TrainState, Coherent(r),
           trains' = [trains EXCEPT ![t] = r],
           UNCHANGED arrival,
           cleared' \in [Train -> SUBSET Block],
           held' \in [Train -> BOOLEAN]
    PROVE  TrainsOK' /\ trains'[t] = r
  BY OneTrain DEF TypeOK, TrainsOK

(* handleTopologyViolation pins the reporting train to its last certain block. *)
LEMMA ViolationTypes ==
    ASSUME TypeOK, NEW t \in Train, NEW m \in Marker, HandleTopologyViolation(t, m)
    PROVE  TypeOK'
<1> DEFINE r == trains[t]
           x == r.last
           s == [r EXCEPT !.limit = x]
<1>1. r \in TrainState /\ Coherent(r) /\ x \in Marker \cup {None}
  BY DEF TypeOK, TrainsOK, TrainState
<1>2. trains' = [trains EXCEPT ![t] = s]
  BY DEF HandleTopologyViolation
<1>3. <<trains[t].last, m>> \in Block
  BY DEF HandleTopologyViolation, Reporting, Contradicts, Block
<1>4. cleared' \in [Train -> SUBSET Block] /\ held' \in [Train -> BOOLEAN]
  BY <1>3 DEF HandleTopologyViolation, TypeOK, TrainsOK
<1> HIDE DEF x, r
<1>5. s \in TrainState /\ Coherent(s)
  BY <1>1 DEF TrainState, Coherent
<1>6. TrainsOK'
  BY <1>2, <1>4, <1>5, OneTrainTypes DEF HandleTopologyViolation
<1>7. TrackOK' /\ DevicesOK'
  BY DEF HandleTopologyViolation, TypeOK, TrackOK, DevicesOK, trackVars, deviceVars
<1>8. AgendaOK'
  BY DEF HandleTopologyViolation, Reporting, Idle, TypeOK, AgendaOK
<1> QED
  BY <1>6, <1>7, <1>8 DEF TypeOK

(* handleZoneEntry takes the train out of the core, blocks and schedule included. *)
LEMMA ZoneEntryTypes ==
    ASSUME TypeOK, NEW t \in Train, NEW m \in Marker, HandleZoneEntry(t, m)
    PROVE  TypeOK'
<1> DEFINE r == trains[t]
           x == r.current
           none == <<>>
           n == 1
           s == [r EXCEPT !.last = m, !.limit = m, !.in_zone = m,
                          !.entry = x, !.current = None,
                          !.transit = none, !.progress = n]
<1>1. r \in TrainState /\ Coherent(r)
  BY DEF TypeOK, TrainsOK
<1>2. x \in Block \cup {None} /\ none \in Seq(Block) /\ n \in Nat \ {0} /\ m # None
  BY <1>1, LayoutAssumption DEF TrainState
<1>3. trains' = [trains EXCEPT ![t] = s]
  BY DEF HandleZoneEntry
<1>4. cleared' \in [Train -> SUBSET Block] /\ held' \in [Train -> BOOLEAN]
  BY DEF HandleZoneEntry, TypeOK, TrainsOK
<1> HIDE DEF x, r, none, n
<1>5. s \in TrainState
  BY <1>1, <1>2 DEF TrainState
<1>6. s.stops = r.stops /\ s.stop = r.stop /\ s.dwelling = r.dwelling /\ s.last = m
  BY <1>1 DEF TrainState
<1> HIDE DEF s
<1>7. Coherent(s)
  BY <1>1, <1>2, <1>6 DEF Coherent
<1>8. TrainsOK'
  BY <1>3, <1>4, <1>5, <1>7, OneTrainTypes DEF HandleZoneEntry
<1>9. TrackOK' /\ DevicesOK'
  BY DEF HandleZoneEntry, TypeOK, TrackOK, DevicesOK, trackVars, deviceVars
<1>10. AgendaOK'
  BY <1>8, RetriesAll DEF HandleZoneEntry
<1> QED
  BY <1>8, <1>9, <1>10 DEF TypeOK

(* handleTrainAtMarker, whichever of its outcomes the report has. *)
LEMMA MarkerTypes ==
    ASSUME TypeOK, NEW t \in Train, NEW m \in Marker, HandleTrainAtMarker(t, m)
    PROVE  TypeOK'
<1> DEFINE r == trains[t]
           q == [r EXCEPT !.last = m, !.entry = None]
           s == AdvanceTransit(q, m)
<1>1. r \in TrainState /\ Coherent(r) /\ m # None
  BY LayoutAssumption DEF TypeOK, TrainsOK
<1>2. trains' = [trains EXCEPT ![t] = s]
  BY DEF HandleTrainAtMarker
<1>3. cleared' \in [Train -> SUBSET Block] /\ held' \in [Train -> BOOLEAN]
  BY DEF HandleTrainAtMarker, TypeOK, TrainsOK
<1>4. TrackOK'
  <2>1. r.last \notin {None, m} => <<r.last, m>> \in Block
    BY DEF HandleTrainAtMarker, Reporting, Block
  <2> QED
    BY <2>1 DEF HandleTrainAtMarker, Traversed, TypeOK, TrackOK
<1> HIDE DEF r
<1>5. q \in TrainState /\ Coherent(q)
  BY <1>1 DEF TrainState, Coherent
<1> HIDE DEF q
<1>6. s \in TrainState /\ Coherent(s)
  BY <1>5, NextBlock
<1>7. TrainsOK'
  BY <1>2, <1>3, <1>6, OneTrainTypes DEF HandleTrainAtMarker
<1>8. DevicesOK'
  BY DEF HandleTrainAtMarker, TypeOK, DevicesOK, deviceVars
<1>9. AgendaOK'
  <2> DEFINE extend == ExtendTask(t)
             retry == RetryAll
  <2>1. extend \in Task /\ extend.op # "plan" /\ retry \in Task /\ retry.op # "plan"
    BY Tasks, RegisteredTrains DEF TypeOK
  <2>2. agenda' = <<extend, retry>> /\ deadlock' = deadlock
    BY DEF HandleTrainAtMarker
  <2> HIDE DEF extend, retry
  <2> QED
    BY <2>1, <2>2 DEF TypeOK, AgendaOK
<1> QED
  BY <1>4, <1>7, <1>8, <1>9 DEF TypeOK

(* handleTrainStatus moves the reported edge and releases vacated blocks. *)
LEMMA StatusTypes ==
    ASSUME TypeOK, NEW t \in Train, NEW x \in Block \cup {None},
           NEW mm, NEW dwellOver, HandleTrainStatus(t, x, mm, dwellOver)
    PROVE  TypeOK'
<1> DEFINE r == trains[t]
           seeded == IF r.current = None /\ r.entry = None THEN [r EXCEPT !.current = x] ELSE r
           s == [seeded EXCEPT !.dwelling = FALSE]
<1>1. r \in TrainState /\ Coherent(r)
  BY DEF TypeOK, TrainsOK
<1>2. \/ /\ r.dwelling
         /\ trains' = [trains EXCEPT ![t] = Advanced(s)]
         /\ agenda' = <<PlanTask(t)>>
         /\ UNCHANGED cleared
      \/ /\ trains' = [trains EXCEPT ![t] = seeded]
         /\ \E freed : /\ cleared' = [cleared EXCEPT ![t] = @ \ freed]
                       /\ agenda' \in {<<>>, <<RetryAll>>}
  BY DEF HandleTrainStatus, Idle
<1>3. UNCHANGED <<arrival, held, deadlock>>
  BY DEF HandleTrainStatus
<1>4. TrackOK' /\ DevicesOK'
  BY DEF HandleTrainStatus, TypeOK, TrackOK, DevicesOK, trackVars, deviceVars
<1> HIDE DEF r
<1>5. /\ seeded \in TrainState
      /\ seeded.stops = r.stops /\ seeded.stop = r.stop
      /\ seeded.last = r.last /\ seeded.dwelling = r.dwelling
  BY <1>1 DEF TrainState
<1> HIDE DEF seeded
<1>6. Coherent(seeded)
  BY <1>1, <1>5 DEF Coherent
<1>7. s \in TrainState /\ Coherent(s) /\ (r.dwelling => s.stops # <<>>)
  BY <1>1, <1>5, <1>6 DEF TrainState, Coherent
<1> HIDE DEF s
<1>8. CASE /\ r.dwelling
           /\ trains' = [trains EXCEPT ![t] = Advanced(s)]
           /\ agenda' = <<PlanTask(t)>>
           /\ UNCHANGED cleared
  <2>1. /\ Advanced(s) \in TrainState
        /\ Coherent(Advanced(s))
        /\ Advanced(s).stops # <<>>
    BY <1>7, <1>8, NextStop
  <2>2. TrainsOK' /\ trains'[t].stops # <<>>
    BY <1>3, <1>8, <2>1, OneTrainTypes DEF TypeOK, TrainsOK
  <2>3. AgendaOK'
    BY <1>3, <1>8, <2>2, AgendaPlan DEF TypeOK, AgendaOK
  <2> QED
    BY <1>4, <2>2, <2>3 DEF TypeOK
<1>9. ASSUME trains' = [trains EXCEPT ![t] = seeded],
             NEW freed,
             cleared' = [cleared EXCEPT ![t] = @ \ freed],
             agenda' \in {<<>>, <<RetryAll>>}
      PROVE  TypeOK'
  <2>1. cleared' \in [Train -> SUBSET Block]
    BY <1>9 DEF TypeOK, TrainsOK
  <2>2. TrainsOK'
    BY <1>3, <1>5, <1>6, <1>9, <2>1, OneTrainTypes DEF TypeOK, TrainsOK
  <2>3. AgendaOK'
    BY <1>3, <1>9, <2>2, RetriesAll
  <2> QED
    BY <1>4, <2>2, <2>3 DEF TypeOK
<1> QED
  BY <1>2, <1>8, <1>9

(* handleClearanceRequest grants at most the one block asked for. *)
LEMMA RequestTypes ==
    ASSUME TypeOK, NEW t \in Train, NEW x \in Requests, HandleClearanceRequest(t, x)
    PROVE  TypeOK'
<1> DEFINE r == trains[t]
           y == To(x)
           s == [r EXCEPT !.limit = y]
<1>1. r \in TrainState /\ Coherent(r) /\ x \in Block /\ y \in Marker
  BY BlockEnds DEF TypeOK, TrainsOK, Block
<1>2. trains' = [trains EXCEPT ![t] = s] \/ UNCHANGED trains
  BY DEF HandleClearanceRequest
<1>3. cleared' \in [Train -> SUBSET Block] /\ held' \in [Train -> BOOLEAN]
  BY <1>1 DEF HandleClearanceRequest, TypeOK, TrainsOK
<1> HIDE DEF r, y
<1>4. s \in TrainState /\ Coherent(s)
  BY <1>1 DEF TrainState, Coherent
<1>5. TrainsOK'
  BY <1>2, <1>3, <1>4, OneTrainTypes DEF HandleClearanceRequest, TypeOK, TrainsOK
<1>6. TrackOK'
  <2>1. MustThrowSwitch(t, x) => Switched[x] \in Position
    BY DEF MustThrowSwitch, EdgeRequiresMismatchedSwitch, Position, Range
  <2> QED
    BY <2>1 DEF HandleClearanceRequest, TypeOK, TrackOK, trackVars
<1>7. DevicesOK'
  BY DEF HandleClearanceRequest, TypeOK, DevicesOK, deviceVars
<1>8. AgendaOK'
  BY DEF HandleClearanceRequest, Idle, TypeOK, AgendaOK
<1> QED
  BY <1>5, <1>6, <1>7, <1>8 DEF TypeOK

-----------------------------------------------------------------------------
(* Switches, gates, zones, and devices that come and go.                   *)

(* Handlers that touch no train's record.                                  *)
LEMMA SwitchTypes ==
    ASSUME TypeOK, NEW j \in Junction,
           RecordSwitchPairing(j) \/ \E p \in Position : HandleSwitchStateChanged(j, p)
    PROVE  TypeOK'
<1>1. CASE RecordSwitchPairing(j)
  <2>1. TrainsOK' /\ TrackOK' /\ DevicesOK'
    BY <1>1 DEF RecordSwitchPairing, TypeOK, TrainsOK, TrackOK, DevicesOK, deviceVars
  <2>2. AgendaOK'
    BY <1>1 DEF RecordSwitchPairing, TypeOK, AgendaOK
  <2> QED
    BY <2>1, <2>2 DEF TypeOK
<1>2. ASSUME NEW p \in Position, HandleSwitchStateChanged(j, p)
      PROVE  TypeOK'
  <2>1. TrainsOK' /\ DevicesOK'
    BY <1>2 DEF HandleSwitchStateChanged, TypeOK, TrainsOK, DevicesOK, deviceVars
  <2>2. TrackOK'
    BY <1>2 DEF HandleSwitchStateChanged, TypeOK, TrackOK
  <2>3. AgendaOK'
    BY <1>2, <2>1, RetriesAll DEF HandleSwitchStateChanged
  <2> QED
    BY <2>1, <2>2, <2>3 DEF TypeOK
<1> QED
  BY <1>1, <1>2

(* A gate withholds or gives back a block (gates-clearance.ts, onEvent). *)
LEMMA GateTypes ==
    ASSUME TypeOK, NEW d \in Device,
           NEW m \in GateMarkers[d], NEW withholding \in BOOLEAN,
           HandleGateStateChanged(d, m, withholding)
    PROVE  TypeOK'
<1>1. m \in Marker
  BY EventAssumption
<1>2. TrainsOK' /\ TrackOK'
  BY DEF HandleGateStateChanged, TypeOK, TrainsOK, TrackOK, trackVars
<1>3. DevicesOK'
  BY <1>1 DEF HandleGateStateChanged, Asserted, TypeOK, DevicesOK
<1>4. AgendaOK'
  BY <1>2, RetriesAll DEF HandleGateStateChanged
<1> QED
  BY <1>2, <1>3, <1>4 DEF TypeOK

(* A zone reports whether it has room (gates-zone.ts, onEvent). *)
LEMMA ZoneStateTypes ==
    ASSUME TypeOK, NEW d \in Device, NEW z \in ZoneMarkers[d], NEW isFull \in BOOLEAN,
           HandleZoneStateChanged(d, z, isFull)
    PROVE  TypeOK'
<1>1. z \in Marker
  BY EventAssumption
<1>2. TrainsOK' /\ TrackOK'
  BY DEF HandleZoneStateChanged, TypeOK, TrainsOK, TrackOK, trackVars
<1>3. DevicesOK'
  BY <1>1 DEF HandleZoneStateChanged, Asserted, TypeOK, DevicesOK
<1>4. AgendaOK'
  BY <1>2, RetriesAll DEF HandleZoneStateChanged
<1> QED
  BY <1>2, <1>3, <1>4 DEF TypeOK

(* handleZoneTrainReleased puts a train back on the marker of its zone. *)
LEMMA ZoneReleaseTypes ==
    ASSUME TypeOK, NEW d \in Device, NEW z \in Marker, NEW t \in Train,
           HandleZoneTrainReleased(d, z, t)
    PROVE  TypeOK'
<1> DEFINE r == trains[t]
           s == [r EXCEPT !.in_zone = None]
           onward == AtScheduledStop(r, z)
<1>1. r \in TrainState /\ Coherent(r) /\ (onward => r.stops # <<>>)
  BY DEF TypeOK, TrainsOK, AtScheduledStop
<1>2. /\ trains' = [trains EXCEPT ![t] = IF onward THEN Advanced(s) ELSE s]
      /\ agenda' = IF onward THEN <<PlanTask(t)>> ELSE <<RetryAll>>
      /\ UNCHANGED <<arrival, cleared, held, deadlock>>
  BY DEF HandleZoneTrainReleased
<1>3. TrackOK' /\ DevicesOK'
  BY DEF HandleZoneTrainReleased, TypeOK, TrackOK, DevicesOK, trackVars, deviceVars
<1> HIDE DEF r, onward
<1>4. s \in TrainState /\ Coherent(s) /\ s.stops = r.stops
  BY <1>1 DEF TrainState, Coherent
<1> HIDE DEF s
<1>5. CASE onward
  <2>1. Advanced(s) \in TrainState /\ Coherent(Advanced(s)) /\ Advanced(s).stops # <<>>
    BY <1>1, <1>4, <1>5, NextStop
  <2>2. TrainsOK' /\ trains'[t].stops # <<>>
    BY <1>2, <1>5, <2>1, OneTrainTypes DEF TypeOK, TrainsOK
  <2>3. AgendaOK'
    BY <1>2, <1>5, <2>2, AgendaPlan DEF TypeOK, AgendaOK
  <2> QED
    BY <1>3, <2>2, <2>3 DEF TypeOK
<1>6. CASE ~onward
  <2>1. TrainsOK'
    BY <1>2, <1>4, <1>6, OneTrainTypes DEF TypeOK, TrainsOK
  <2>2. AgendaOK'
    BY <1>2, <1>6, <2>1, RetriesAll
  <2> QED
    BY <1>3, <2>1, <2>2 DEF TypeOK
<1> QED
  BY <1>5, <1>6

(* An event no handler knows leaves everything but the agenda alone. *)
LEMMA OtherEventTypes == TypeOK /\ OtherEvent => TypeOK'
<1> SUFFICES ASSUME TypeOK, OtherEvent
             PROVE  TypeOK'
  OBVIOUS
<1>1. TrainsOK' /\ TrackOK' /\ DevicesOK'
  BY DEF OtherEvent, TypeOK, TrainsOK, TrackOK, DevicesOK, trackVars, deviceVars
<1>2. AgendaOK'
  BY <1>1, RetriesAll DEF OtherEvent
<1> QED
  BY <1>1, <1>2 DEF TypeOK

(* A train that registers starts from an empty record, at the end of the order. *)
LEMMA RegisterTrainTypes ==
    ASSUME TypeOK, NEW t \in Train, RegisterTrain(t)
    PROVE  TypeOK'
<1> DEFINE r == trains[t]
           mm == IF TrainLength[t] > 0 THEN TrainLength[t] ELSE r.length
           s == [r EXCEPT !.length = mm]
<1>1. r \in TrainState /\ Coherent(r) /\ mm \in Nat
  BY TrainAssumption DEF TypeOK, TrainsOK, TrainState
<1>2. trains' = [trains EXCEPT ![t] = s]
  BY DEF RegisterTrain
<1> HIDE DEF r, mm
<1>3. s \in TrainState /\ Coherent(s) /\ s.stops = r.stops
  BY <1>1 DEF TrainState, Coherent
<1> HIDE DEF s
<1>4. arrival' \in Seq(Train) /\ IsInjective(arrival')
  <2>1. CASE t \in Registered
    BY <2>1 DEF RegisterTrain, TypeOK, TrainsOK
  <2>2. CASE t \notin Registered
    BY <2>2 DEF RegisterTrain, TypeOK, TrainsOK, Registered, Range, IsInjective
  <2> QED
    BY <2>1, <2>2
<1>5. /\ trains' \in [Train -> TrainState]
      /\ \A u \in Train : Coherent(trains'[u])
      /\ KeepsSchedules
  BY <1>1, <1>2, <1>3, ChangesOneTrain DEF TypeOK, r
<1>6. TrainsOK'
  BY <1>4, <1>5 DEF RegisterTrain, TypeOK, TrainsOK
<1>7. TrackOK' /\ DevicesOK'
  BY DEF RegisterTrain, TypeOK, TrackOK, DevicesOK, trackVars, deviceVars
<1>8. AgendaOK'
  BY DEF RegisterTrain, Idle, TypeOK, AgendaOK
<1> QED
  BY <1>6, <1>7, <1>8 DEF TypeOK

(* Switches, gates and zones come and go without a record of their own. *)
LEMMA DeviceTypes ==
    ASSUME TypeOK, NEW d \in Device, RegisterDevice(d) \/ ForgetDevice(d)
    PROVE  TypeOK'
<1>1. TrainsOK' /\ TrackOK' /\ deadlock' = deadlock /\ arrival' = arrival
  BY DEF RegisterDevice, ForgetDevice, TypeOK, TrainsOK, TrackOK, trackVars
<1>2. DevicesOK'
  BY DEF RegisterDevice, ForgetDevice, TypeOK, DevicesOK
<1>3. agenda' \in {<<>>, <<RetryAll>>}
  BY DEF RegisterDevice, ForgetDevice, Idle
<1>4. AgendaOK'
  BY <1>1, <1>3, RetriesAll
<1> QED
  BY <1>1, <1>2, <1>4 DEF TypeOK

(* What is left of a sequence without its i-th element. *)
LEMMA RemoveAtProperties ==
    ASSUME NEW S, NEW s \in Seq(S), NEW i \in 1..Len(s)
    PROVE  /\ RemoveAt(s, i) \in Seq(S)
           /\ Len(RemoveAt(s, i)) = Len(s) - 1
           /\ \A k \in 1..(Len(s) - 1) :
                 RemoveAt(s, i)[k] = IF k < i THEN s[k] ELSE s[k + 1]
<1> DEFINE before == SubSeq(s, 1, i - 1)
           after == SubSeq(s, i + 1, Len(s))
<1>1. /\ before \in Seq(S)
      /\ Len(before) = i - 1
      /\ \A k \in 1..(i - 1) : before[k] = s[k]
  OBVIOUS
<1>2. /\ after \in Seq(S)
      /\ Len(after) = Len(s) - i
      /\ \A k \in 1..(Len(s) - i) : after[k] = s[k + i]
  OBVIOUS
<1>3. RemoveAt(s, i) = before \o after
  BY DEF RemoveAt
<1> HIDE DEF before, after
<1>4. Len(s) \in Nat /\ i \in Int /\ Len(before) + Len(after) = Len(s) - 1
  BY <1>1, <1>2
<1>5. /\ before \o after \in Seq(S)
      /\ Len(before \o after) = Len(before) + Len(after)
      /\ \A k \in 1..(Len(before) + Len(after)) :
            (before \o after)[k] = IF k <= Len(before) THEN before[k] ELSE after[k - Len(before)]
  BY <1>1, <1>2, ConcatProperties
<1>6. ASSUME NEW k \in 1..(Len(s) - 1)
      PROVE  (before \o after)[k] = IF k < i THEN s[k] ELSE s[k + 1]
  <2>1. CASE k < i
    BY <1>1, <1>4, <1>5, <2>1
  <2>2. CASE k >= i
    <3>1. k \in 1..(Len(before) + Len(after)) /\ ~(k <= Len(before)) /\ Len(before) = i - 1
      BY <1>1, <1>4, <2>2
    <3>2. (before \o after)[k] = after[k - Len(before)]
      BY <1>5, <3>1
    <3>3. (k - Len(before)) \in 1..(Len(s) - i) /\ (k - Len(before)) + i = k + 1
      BY <1>4, <2>2, <3>1
    <3>4. after[k - Len(before)] = s[(k - Len(before)) + i]
      BY <1>2, <3>3
    <3> QED
      BY <2>2, <3>2, <3>3, <3>4
  <2> QED
    BY <1>4, <2>1, <2>2
<1> QED
  BY <1>3, <1>4, <1>5, <1>6

(* forgetDevice resets the record of a train and takes it out of the order. *)
LEMMA ForgetTrainTypes ==
    ASSUME TypeOK, NEW t \in Train, ForgetTrain(t)
    PROVE  TypeOK'
<1>1. InitialTrainState \in TrainState /\ Coherent(InitialTrainState)
  BY DEF InitialTrainState, TrainState, Coherent
<1>2. arrival' \in Seq(Train) /\ IsInjective(arrival')
  <2> DEFINE i == RegistrationSeq(t)
  <2>1. arrival \in Seq(Train) /\ IsInjective(arrival)
    BY DEF TypeOK, TrainsOK
  <2>2. i \in 1..Len(arrival)
    BY <2>1 DEF ForgetTrain, Registered, Range, RegistrationSeq
  <2>3. arrival' = RemoveAt(arrival, i)
    BY DEF ForgetTrain
  <2> HIDE DEF i
  <2>4. /\ arrival' \in Seq(Train)
        /\ Len(arrival') = Len(arrival) - 1
        /\ \A k \in 1..(Len(arrival) - 1) :
              arrival'[k] = IF k < i THEN arrival[k] ELSE arrival[k + 1]
    BY <2>1, <2>2, <2>3, RemoveAtProperties
  <2>5. ASSUME NEW k \in DOMAIN arrival', NEW l \in DOMAIN arrival', arrival'[k] = arrival'[l]
        PROVE  k = l
    <3> DEFINE place(x) == IF x < i THEN x ELSE x + 1
    <3>1. Len(arrival) \in Nat /\ k \in 1..(Len(arrival) - 1) /\ l \in 1..(Len(arrival) - 1)
      BY <2>1, <2>4
    <3>2. DOMAIN arrival = 1..Len(arrival) /\ i \in Int
      BY <2>1, <2>2
    <3>3. ASSUME NEW x \in 1..(Len(arrival) - 1)
          PROVE  place(x) \in DOMAIN arrival /\ arrival'[x] = arrival[place(x)]
      <4>1. place(x) \in 1..Len(arrival)
        BY <3>1, <3>2
      <4>2. arrival'[x] = arrival[place(x)]
        BY <2>4
      <4> QED
        BY <3>2, <4>1, <4>2
    <3>4. arrival[place(k)] = arrival[place(l)]
      BY <2>5, <3>1, <3>3
    <3>5. place(k) = place(l)
      BY <2>1, <3>1, <3>3, <3>4 DEF IsInjective
    <3> QED
      BY <3>1, <3>2, <3>5
  <2> QED
    BY <2>4, <2>5 DEF IsInjective
<1>3. TrainsOK'
  <2> DEFINE initial == InitialTrainState
  <2>1. trains' = [trains EXCEPT ![t] = initial]
    BY DEF ForgetTrain
  <2>2. initial \in TrainState /\ Coherent(initial)
    BY <1>1
  <2> HIDE DEF initial
  <2>3. trains' \in [Train -> TrainState] /\ \A u \in Train : Coherent(trains'[u])
    BY <2>1, <2>2, OneTrain DEF TypeOK
  <2> QED
    BY <1>2, <2>3 DEF ForgetTrain, TypeOK, TrainsOK
<1>4. TrackOK' /\ DevicesOK'
  BY DEF ForgetTrain, TypeOK, TrackOK, DevicesOK, trackVars, deviceVars
<1>5. AgendaOK'
  <2>1. Registered \ {t} \in SUBSET Train /\ deadlock' \subseteq Train
    BY RegisteredTrains DEF ForgetTrain, TypeOK, AgendaOK
  <2>2. TrainsOK
    BY DEF TypeOK
  <2> QED
    BY <2>1, <2>2, AgendaRetry DEF ForgetTrain
<1> QED
  BY <1>3, <1>4, <1>5 DEF TypeOK

(* handleTrainLengthChanged replaces the length of one train. *)
LEMMA LengthTypes ==
    ASSUME TypeOK, NEW t \in Train, NEW mm \in Lengths, HandleTrainLengthChanged(t, mm)
    PROVE  TypeOK'
<1> DEFINE r == trains[t]
           s == [r EXCEPT !.length = mm]
<1>1. r \in TrainState /\ Coherent(r) /\ mm \in Nat
  BY EventAssumption DEF TypeOK, TrainsOK
<1>2. trains' = [trains EXCEPT ![t] = s]
  BY DEF HandleTrainLengthChanged
<1> HIDE DEF r
<1>3. s \in TrainState /\ Coherent(s)
  BY <1>1 DEF TrainState, Coherent
<1>4. TrainsOK'
  BY <1>2, <1>3, OneTrainTypes DEF HandleTrainLengthChanged, TypeOK, TrainsOK
<1>5. TrackOK' /\ DevicesOK'
  BY DEF HandleTrainLengthChanged, TypeOK, TrackOK, DevicesOK, trackVars, deviceVars
<1>6. AgendaOK'
  BY DEF HandleTrainLengthChanged, Idle, TypeOK, AgendaOK
<1> QED
  BY <1>4, <1>5, <1>6 DEF TypeOK

-----------------------------------------------------------------------------
(* Operator commands.                                                      *)

(* assignSchedule gives a train a schedule and plans its first stop. *)
LEMMA AssignTypes ==
    ASSUME TypeOK, NEW t \in Train, NEW stops \in Schedules, AssignSchedule(t, stops)
    PROVE  TypeOK'
<1> DEFINE r == trains[t]
           start == IF r.last = None THEN stops[1] ELSE r.last
           none == <<>>
           n == 1
           k == IF start = stops[1] /\ Len(stops) > 1 THEN 2 ELSE 1
           s == [r EXCEPT !.last = start, !.transit = none, !.progress = n,
                          !.stops = stops, !.stop = k]
<1>1. r \in TrainState
  BY DEF TypeOK, TrainsOK
<1>2. /\ stops \in Seq(Marker) /\ stops # <<>> /\ stops[1] \in Marker
      /\ start \in Marker /\ start # None
      /\ none \in Seq(Block)
      /\ n \in Nat \ {0}
      /\ k \in Nat \ {0} /\ k \in DOMAIN stops
  <2>1. stops \in Seq(Marker) /\ stops # <<>>
    BY EventAssumption
  <2>2. Len(stops) \in Nat /\ Len(stops) >= 1 /\ stops[1] \in Marker
    BY <2>1
  <2> QED
    BY <1>1, <2>1, <2>2, LayoutAssumption DEF TrainState
<1>3. trains' = [trains EXCEPT ![t] = s]
  BY DEF AssignSchedule
<1> HIDE DEF r, start, none, n, k
<1>4. s \in TrainState
  BY <1>1, <1>2 DEF TrainState
<1>5. s.stops = stops /\ s.stop = k /\ s.last = start
  BY <1>1 DEF TrainState
<1> HIDE DEF s
<1>6. Coherent(s)
  BY <1>2, <1>5 DEF Coherent
<1>7. cleared' \in [Train -> SUBSET Block] /\ held' \in [Train -> BOOLEAN]
  BY DEF AssignSchedule, TypeOK, TrainsOK
<1>8. TrainsOK' /\ trains'[t].stops # <<>>
  BY <1>2, <1>3, <1>4, <1>5, <1>6, <1>7, OneTrainTypes DEF AssignSchedule
<1>9. TrackOK' /\ DevicesOK'
  BY DEF AssignSchedule, TypeOK, TrackOK, DevicesOK, trackVars, deviceVars
<1>10. AgendaOK'
  BY <1>8, AgendaPlan DEF AssignSchedule, TypeOK, AgendaOK
<1> QED
  BY <1>8, <1>9, <1>10 DEF TypeOK

(* revokeClearance takes every block from one train. *)
LEMMA RevokeTypes ==
    ASSUME TypeOK, NEW t \in Train, RevokeClearance(t)
    PROVE  TypeOK'
<1> DEFINE r == trains[t]
           x == IF r.last = None THEN r.limit ELSE r.last
           s == [r EXCEPT !.limit = x]
<1>1. r \in TrainState /\ Coherent(r) /\ x \in Marker \cup {None}
  BY DEF TypeOK, TrainsOK, TrainState
<1>2. trains' = [trains EXCEPT ![t] = s]
  BY DEF RevokeClearance
<1> HIDE DEF r, x
<1>3. s \in TrainState /\ Coherent(s)
  BY <1>1 DEF TrainState, Coherent
<1>4. cleared' \in [Train -> SUBSET Block] /\ held' \in [Train -> BOOLEAN]
  BY DEF RevokeClearance, TypeOK, TrainsOK
<1>5. TrainsOK'
  BY <1>2, <1>3, <1>4, OneTrainTypes DEF RevokeClearance
<1>6. TrackOK' /\ DevicesOK'
  BY DEF RevokeClearance, TypeOK, TrackOK, DevicesOK, trackVars, deviceVars
<1>7. AgendaOK'
  <2>1. Registered \ {t} \in SUBSET Train /\ deadlock' \subseteq Train
    BY RegisteredTrains DEF RevokeClearance, TypeOK, AgendaOK
  <2>2. TrainsOK
    BY DEF TypeOK
  <2> QED
    BY <2>1, <2>2, AgendaRetry DEF RevokeClearance
<1> QED
  BY <1>5, <1>6, <1>7 DEF TypeOK

(* Both recoveries put the train on a marker, without a route. *)
LEMMA RecoverTypes ==
    ASSUME TypeOK, NEW t \in Train, NEW m \in Marker, RecoverAt(t, m), UNCHANGED arrival
    PROVE  TrainsOK' /\ AgendaOK'
<1> DEFINE r == trains[t]
           none == <<>>
           n == 1
           s == [r EXCEPT !.last = m, !.limit = m, !.transit = none, !.progress = n]
<1>1. r \in TrainState /\ Coherent(r) /\ m # None /\ none \in Seq(Block) /\ n \in Nat \ {0}
  BY LayoutAssumption DEF TypeOK, TrainsOK
<1>2. trains' = [trains EXCEPT ![t] = s]
  BY DEF RecoverAt
<1>3. agenda' = IF r.stops = <<>> THEN <<RetryAll>> ELSE <<PlanTask(t), RetryAll>>
  BY DEF RecoverAt
<1> HIDE DEF r, none, n
<1>4. s \in TrainState
  BY <1>1 DEF TrainState
<1>5. s.stops = r.stops /\ s.stop = r.stop /\ s.last = m /\ s.dwelling = r.dwelling
  BY <1>1 DEF TrainState
<1> HIDE DEF s
<1>6. Coherent(s)
  BY <1>1, <1>5 DEF Coherent
<1>7. cleared' \in [Train -> SUBSET Block] /\ held' \in [Train -> BOOLEAN]
  BY DEF RecoverAt, TypeOK, TrainsOK
<1>8. TrainsOK' /\ trains'[t] = s
  BY <1>2, <1>4, <1>6, <1>7, OneTrainTypes
<1>9. deadlock' = deadlock /\ deadlock \subseteq Train
  BY DEF RecoverAt, TypeOK, AgendaOK
<1>10. CASE r.stops = <<>>
  BY <1>3, <1>8, <1>9, <1>10, RetriesAll
<1>11. CASE r.stops # <<>>
  BY <1>3, <1>5, <1>8, <1>9, <1>11, AgendaPlan DEF TypeOK
<1> QED
  BY <1>8, <1>10, <1>11

(* reanchor is a recovery at a marker the operator names. *)
LEMMA ReanchorTypes ==
    ASSUME TypeOK, NEW t \in Train, NEW m \in Marker, Reanchor(t, m)
    PROVE  TypeOK'
<1>1. TrainsOK' /\ AgendaOK'
  BY RecoverTypes DEF Reanchor, RecoverAt
<1>2. TrackOK' /\ DevicesOK'
  BY DEF Reanchor, RecoverAt, TypeOK, TrackOK, DevicesOK, trackVars, deviceVars
<1> QED
  BY <1>1, <1>2 DEF TypeOK

(* confirmNewTrack is a recovery at the marker that was reported. *)
LEMMA ConfirmTypes ==
    ASSUME TypeOK, NEW t \in Train, ConfirmNewTrack(t)
    PROVE  TypeOK'
<1>1. PICK x \in cleared[t] \ known : known' = known \cup {x} /\ RecoverAt(t, To(x))
  BY DEF ConfirmNewTrack
<1>2. x \in Block /\ To(x) \in Marker
  BY BlockEnds DEF TypeOK, TrainsOK
<1>3. TrainsOK' /\ AgendaOK'
  BY <1>1, <1>2, RecoverTypes DEF RecoverAt
<1>4. TrackOK'
  BY <1>1, <1>2 DEF ConfirmNewTrack, RecoverAt, TypeOK, TrackOK
<1>5. DevicesOK'
  BY DEF ConfirmNewTrack, TypeOK, DevicesOK, deviceVars
<1> QED
  BY <1>3, <1>4, <1>5 DEF TypeOK

-----------------------------------------------------------------------------
(* The initial state, which a reset returns to.                            *)

(* The record of a train that has said nothing is well-typed. *)
LEMMA InitialTypes ==
    /\ InitialTrainState \in TrainState
    /\ Coherent(InitialTrainState)
  BY DEF InitialTrainState, TrainState, Coherent

(* So is the state of a scheduler that has just been built. *)
LEMMA InitTypes == Init => TypeOK
<1> SUFFICES ASSUME Init
             PROVE  TypeOK
  OBVIOUS
<1> DEFINE initial == InitialTrainState
<1>1. initial \in TrainState /\ Coherent(initial)
  BY InitialTypes
<1>2. trains = [t \in Train |-> initial]
  BY DEF Init
<1> HIDE DEF initial
<1>3. TrainsOK
  BY <1>1, <1>2 DEF Init, TrainsOK, IsInjective
<1>4. TrackOK /\ DevicesOK
  BY EventAssumption DEF Init, TrackOK, DevicesOK, Block
<1>5. AgendaOK
  BY DEF Init, AgendaOK
<1> QED
  BY <1>3, <1>4, <1>5 DEF TypeOK

(* reset returns to that state, keeping nothing. *)
LEMMA ResetTypes == TypeOK /\ Reset => TypeOK'
<1> SUFFICES ASSUME Reset
             PROVE  TypeOK'
  OBVIOUS
<1> DEFINE initial == InitialTrainState
<1>1. initial \in TrainState /\ Coherent(initial)
  BY InitialTypes
<1>2. trains' = [t \in Train |-> initial]
  BY DEF Reset
<1> HIDE DEF initial
<1>3. TrainsOK'
  BY <1>1, <1>2 DEF Reset, TrainsOK, IsInjective
<1>4. TrackOK' /\ DevicesOK'
  BY EventAssumption DEF Reset, TrackOK, DevicesOK, Block
<1>5. AgendaOK'
  BY DEF Reset, Idle, AgendaOK
<1> QED
  BY <1>3, <1>4, <1>5 DEF TypeOK

-----------------------------------------------------------------------------
(* Being well-typed depends on the variables alone. *)
LEMMA StutterTypes == TypeOK /\ UNCHANGED vars => TypeOK'
<1> SUFFICES ASSUME TypeOK, UNCHANGED vars
             PROVE  TypeOK'
  OBVIOUS
<1>1. TrainsOK' /\ TrackOK' /\ DevicesOK'
  BY DEF vars, TypeOK, TrainsOK, TrackOK, DevicesOK
<1>2. AgendaOK'
  BY DEF vars, TypeOK, AgendaOK
<1> QED
  BY <1>1, <1>2 DEF TypeOK

(* Every step of every handler keeps the state well-typed. *)
LEMMA StepTypes == TypeOK /\ [Next]_vars => TypeOK'
<1> SUFFICES ASSUME TypeOK, [Next]_vars
             PROVE  TypeOK'
  OBVIOUS
<1>1. CASE Step
  BY <1>1, DoPlanTypes, DoExtendTypes, DoRetryTypes, YieldTypes, ReverseTypes, EmitTypes DEF Step
<1>2. ASSUME NEW t \in Train, TrainEvent(t)
      PROVE  TypeOK'
  <2>1. ASSUME NEW m \in Marker, MarkerReport(t, m)
        PROVE  TypeOK'
    BY <2>1, ViolationTypes, ZoneEntryTypes, MarkerTypes DEF MarkerReport
  <2> QED
    BY <1>2, <2>1, RegisterTrainTypes, ForgetTrainTypes, StatusTypes, RequestTypes, LengthTypes
       DEF TrainEvent
<1>3. ASSUME NEW t \in Train, OperatorCommand(t)
      PROVE  TypeOK'
  BY <1>3, AssignTypes, RevokeTypes, ReanchorTypes, ConfirmTypes DEF OperatorCommand
<1>4. ASSUME NEW j \in Junction, SwitchEvent(j)
      PROVE  TypeOK'
  BY <1>4, SwitchTypes DEF SwitchEvent
<1>5. ASSUME NEW d \in Device, DeviceEvent(d)
      PROVE  TypeOK'
  <2>1. ASSUME NEW z \in ZoneMarkers[d], NEW t \in Train, HandleZoneTrainReleased(d, z, t)
        PROVE  TypeOK'
    <3>1. z \in Marker
      BY EventAssumption
    <3> QED
      BY <2>1, <3>1, ZoneReleaseTypes
  <2> QED
    BY <1>5, <2>1, DeviceTypes, GateTypes, ZoneStateTypes DEF DeviceEvent
<1>6. CASE OtherEvent
  BY <1>6, OtherEventTypes
<1>7. CASE Reset
  BY <1>7, ResetTypes
<1>8. CASE UNCHANGED vars
  BY <1>8, StutterTypes
<1> QED
  BY <1>1, <1>2, <1>3, <1>4, <1>5, <1>6, <1>7, <1>8 DEF Next

(* The scheduler's state is well-typed and coherent on every railway,      *)
(* under every schedule, whatever devices report and in whatever order     *)
(* (scheduler.ts, handleEvent and the operator commands).                  *)
THEOREM TypeCorrect == Safety => []TypeOK
  BY InitTypes, StepTypes, PTL DEF Safety


-----------------------------------------------------------------------------
(* Who holds what, before and after a step.                                *)

(* One train's holding and its hold are what a step may change. *)
OnlyOne(t) == \A u \in Train \ {t} : cleared'[u] = cleared[u] /\ held'[u] = held[u]

(* A train is granted only what conflicts with nobody, and keeps the rest. *)
Granted(t) ==
    /\ cleared[t] \subseteq cleared'[t]
    /\ \A x \in cleared'[t] \ cleared[t] : Grantable(t, x)
    /\ held'[t] = held[t]

(* What extendClearanceHorizon adds has been found grantable. *)
LEMMA ExtendGrants ==
    ASSUME TypeOK, NEW t \in Train, ExtendClearanceHorizon(t), UNCHANGED held
    PROVE  OnlyOne(t) /\ Granted(t)
<1>1. PICK h \in HORIZON_EDGES..HORIZON_MAX_EDGES :
        cleared' = [cleared EXCEPT ![t] =
                       @ \cup {trains[t].transit[i] : i \in NewlyGranted(t, h)}]
  BY DEF ExtendClearanceHorizon
<1>2. \A i \in NewlyGranted(t, h) : Grantable(t, trains[t].transit[i])
  BY DEF NewlyGranted
<1> QED
  BY <1>1, <1>2 DEF TypeOK, TrainsOK, OnlyOne, Granted

(* What a step may do to the holdings: nothing; grants to one train; a     *)
(* release, a suspicion or a recovery of one train; a reset.               *)
Effect ==
    \/ UNCHANGED <<cleared, held>>
    \/ \E t \in Train :
          OnlyOne(t) /\ (Granted(t) \/ Promise!Release(t) \/ Promise!Suspect(t) \/ Promise!Recover(t))
    \/ Promise!Forget

(* While a handler runs, trains are granted blocks, and a train that is    *)
(* not held may be made to give some up.                                   *)
StepEffect ==
    \/ UNCHANGED <<cleared, held>>
    \/ \E t \in Train : OnlyOne(t) /\ (Granted(t) \/ (~held[t] /\ Promise!Release(t)))

(* A step of a handler that is under way grants or takes back blocks. *)
LEMMA StepsGrantOrTakeBack == TypeOK /\ Step => StepEffect
<1> SUFFICES ASSUME TypeOK, Step
             PROVE  StepEffect
  OBVIOUS
<1>1. CASE DoPlan \/ EmitDeadlockState
  BY <1>1 DEF DoPlan, EmitDeadlockState, StepEffect
<1>2. CASE DoExtend
  <2>1. Head(agenda).train \in Train
    BY <1>2, FirstTask DEF DoExtend, Idle, Task
  <2> QED
    BY <1>2, <2>1, ExtendGrants DEF DoExtend, StepEffect
<1>3. CASE DoRetry
  <2>1. PICK t \in Head(agenda).pending : ExtendClearanceHorizon(t)
    BY <1>3 DEF DoRetry
  <2>2. t \in Train
    BY <1>3, <2>1, FirstTask DEF DoRetry, Idle, Task
  <2> QED
    BY <1>3, <2>1, <2>2, ExtendGrants DEF DoRetry, StepEffect
<1>4. CASE TryYieldLowestRanked
  <2>1. PICK c, v :
          /\ c \in WaitsForCycles /\ v \in Range(c)
          /\ cleared' = [cleared EXCEPT ![v] = @ \ Releasable(v, PeerWantedEdge(c, v))]
          /\ held' = held
    BY <1>4 DEF TryYieldLowestRanked
  <2>2. v \in Train /\ ~held[v]
    BY <2>1, CyclesAreOfTrains DEF TypeOK
  <2>3. OnlyOne(v) /\ Promise!Release(v)
    BY <2>1, <2>2 DEF OnlyOne, Promise!Release, TypeOK, TrainsOK
  <2> QED
    BY <2>2, <2>3 DEF StepEffect
<1>5. CASE TryReverseToBreakStandoff
  <2>1. PICK c, v, p :
          /\ c \in WaitsForCycles /\ v \in Range(c)
          /\ cleared' = [cleared EXCEPT ![v] = @ \ Range(p)]
          /\ held' = held
    BY <1>5 DEF TryReverseToBreakStandoff
  <2>2. v \in Train /\ ~held[v]
    BY <2>1, CyclesAreOfTrains DEF TypeOK
  <2>3. OnlyOne(v) /\ Promise!Release(v)
    BY <2>1, <2>2 DEF OnlyOne, Promise!Release, TypeOK, TrainsOK
  <2> QED
    BY <2>2, <2>3 DEF StepEffect
<1> QED
  BY <1>1, <1>2, <1>3, <1>4, <1>5 DEF Step

(* The event handlers of a train do one of the five things of Effect. *)
LEMMA TrainEventEffect ==
    ASSUME TypeOK, NEW t \in Train, TrainEvent(t)
    PROVE  Effect
<1>1. CASE RegisterTrain(t)
  BY <1>1 DEF RegisterTrain, Effect
<1>2. CASE ForgetTrain(t)
  BY <1>2 DEF ForgetTrain, Effect, OnlyOne, Promise!Recover, TypeOK, TrainsOK
<1>3. ASSUME NEW m \in Marker, HandleTopologyViolation(t, m)
      PROVE  Effect
  <2>1. <<trains[t].last, m>> \in EdgeRef
    BY <1>3, LayoutAssumption
       DEF HandleTopologyViolation, Reporting, Contradicts, Block
  <2>2. OnlyOne(t) /\ Promise!Suspect(t)
    BY <1>3, <2>1
       DEF HandleTopologyViolation, OnlyOne, Promise!Suspect, Promise!EdgeRef, EdgeRef, TypeOK, TrainsOK
  <2> QED
    BY <2>2 DEF Effect
<1>4. ASSUME NEW m \in Marker, HandleZoneEntry(t, m) \/ HandleTrainAtMarker(t, m)
      PROVE  Effect
  <2>1. OnlyOne(t) /\ Promise!Release(t)
    BY <1>4 DEF HandleZoneEntry, HandleTrainAtMarker, OnlyOne, Promise!Release, TypeOK, TrainsOK
  <2> QED
    BY <2>1 DEF Effect
<1>5. ASSUME NEW x \in Block \cup {None}, NEW mm, NEW over, HandleTrainStatus(t, x, mm, over)
      PROVE  Effect
  <2>1. held' = held /\ (cleared' = cleared \/ \E freed : cleared' = [cleared EXCEPT ![t] = @ \ freed])
    BY <1>5 DEF HandleTrainStatus
  <2>2. OnlyOne(t) /\ Promise!Release(t)
    BY <2>1 DEF OnlyOne, Promise!Release, TypeOK, TrainsOK
  <2> QED
    BY <2>2 DEF Effect
<1>6. ASSUME NEW x \in Requests, HandleClearanceRequest(t, x)
      PROVE  Effect
  <2>1. OnlyOne(t) /\ Granted(t)
    BY <1>6 DEF HandleClearanceRequest, OnlyOne, Granted, TypeOK, TrainsOK
  <2> QED
    BY <2>1 DEF Effect
<1>7. ASSUME NEW mm \in Lengths, HandleTrainLengthChanged(t, mm)
      PROVE  Effect
  BY <1>7 DEF HandleTrainLengthChanged, Effect
<1> QED
  BY <1>1, <1>2, <1>3, <1>4, <1>5, <1>6, <1>7 DEF TrainEvent, MarkerReport

(* So do the commands of the operator. *)
LEMMA OperatorEffect ==
    ASSUME TypeOK, NEW t \in Train, OperatorCommand(t)
    PROVE  Effect
<1>1. /\ cleared' = [cleared EXCEPT ![t] = {}]
      /\ held' = [held EXCEPT ![t] = FALSE]
  BY DEF OperatorCommand, AssignSchedule, RevokeClearance, Reanchor, ConfirmNewTrack, RecoverAt
<1>2. OnlyOne(t) /\ Promise!Recover(t)
  BY <1>1 DEF OnlyOne, Promise!Recover, TypeOK, TrainsOK
<1> QED
  BY <1>2 DEF Effect

(* So does every step, the resets and stuttering included. *)
LEMMA StepsHaveEffects == TypeOK /\ [Next]_vars => Effect
<1> SUFFICES ASSUME TypeOK, [Next]_vars
             PROVE  Effect
  OBVIOUS
<1>1. CASE Step
  BY <1>1, StepsGrantOrTakeBack DEF StepEffect, Effect
<1>2. ASSUME NEW t \in Train, TrainEvent(t)
      PROVE  Effect
  BY <1>2, TrainEventEffect
<1>3. ASSUME NEW t \in Train, OperatorCommand(t)
      PROVE  Effect
  BY <1>3, OperatorEffect
<1>4. ASSUME NEW j \in Junction, SwitchEvent(j)
      PROVE  Effect
  BY <1>4 DEF SwitchEvent, RecordSwitchPairing, HandleSwitchStateChanged, Effect
<1>5. ASSUME NEW d \in Device, DeviceEvent(d)
      PROVE  UNCHANGED <<cleared, held>>
  BY <1>5 DEF DeviceEvent, RegisterDevice, ForgetDevice, HandleGateStateChanged,
     HandleZoneStateChanged, HandleZoneTrainReleased
<1>6. CASE OtherEvent
  BY <1>6 DEF OtherEvent, Effect
<1>7. CASE Reset
  BY <1>7 DEF Reset, Promise!Forget, Effect
<1>8. CASE UNCHANGED vars
  BY <1>8 DEF vars, Effect
<1> QED
  BY <1>1, <1>2, <1>3, <1>4, <1>5, <1>6, <1>7, <1>8 DEF Next, Effect

-----------------------------------------------------------------------------
(* The promise.                                                            *)

(* A grant is a claim of Clearance. *)
LEMMA GrantsAreClaims ==
    ASSUME NEW t \in Train, Granted(t)
    PROVE  Promise!Claim(t)
  BY DEF Granted, Grantable, EdgeConflictsWithAnotherTrain, Promise!Claim, Promise!Free,
         AnyEdgeSharesMarker, EdgeSharesMarker, Promise!AnyEdgeSharesMarker,
         Promise!EdgeSharesMarker, Promise!From, Promise!To, From, To

(* Every step that does one of these things is a step of Clearance. *)
LEMMA StepSimulation == TypeOK /\ TypeOK' /\ [Next]_vars => [Promise!Next]_<<cleared, held>>
<1> SUFFICES ASSUME TypeOK, TypeOK', [Next]_vars
             PROVE  [Promise!Next]_<<cleared, held>>
  OBVIOUS
<1>1. Promise!TypeOK'
  BY LayoutAssumption DEF TypeOK, TrainsOK, Promise!TypeOK, EdgeRef, Promise!EdgeRef
<1>2. ASSUME NEW t \in Train, OnlyOne(t),
             Granted(t) \/ Promise!Release(t) \/ Promise!Suspect(t) \/ Promise!Recover(t)
      PROVE  Promise!TrainNext
  BY <1>1, <1>2, GrantsAreClaims DEF OnlyOne, Promise!OthersKeep, Promise!TrainNext
<1> QED
  BY <1>2, StepsHaveEffects DEF Effect, Promise!Next

(* The scheduler implements Clearance (tryGrantClearance and all that      *)
(* calls it, yields, reverses, tail releases, recoveries): whatever the    *)
(* railway, the events and the order they come in, blocks are claimed only *)
(* while no other train touches them, and doubt about a train ends only    *)
(* together with all it holds.                                             *)
THEOREM Implementation == Safety => ImplementsClearance
<1>1. Init => Promise!Init
  BY DEF Init, Promise!Init
<1> QED
  BY <1>1, StepSimulation, TypeCorrect, PTL
  DEF Safety, ImplementsClearance, Promise!Spec, Promise!clearanceVars

(* Whether blocks share a marker is the same seen from either side.        *)
LEMMA SharingIsMutual ==
    \A x, y : Promise!EdgeSharesMarker(x, y) <=> Promise!EdgeSharesMarker(y, x)
  BY DEF Promise!EdgeSharesMarker

(* A step that obeys the rules of Clearance keeps exclusivity: what a      *)
(* train adds touches nobody's, and if it ends a hold it ends up with      *)
(* nothing to share.                                                       *)
LEMMA ExclusiveStep ==
    Promise!TypeOK /\ Promise!Exclusive /\ [Promise!Next]_<<cleared, held>> => Promise!Exclusive'
<1> SUFFICES ASSUME Promise!TypeOK, Promise!Exclusive, [Promise!Next]_<<cleared, held>>
             PROVE  Promise!Exclusive'
  OBVIOUS
<1>1. CASE Promise!TrainNext
  <2>1. PICK t \in Train :
          /\ Promise!TypeOK'
          /\ Promise!OthersKeep(t)
          /\ Promise!Claim(t) \/ Promise!Release(t) \/ Promise!Suspect(t) \/ Promise!Recover(t)
    BY <1>1 DEF Promise!TrainNext
  <2>2. SUFFICES ASSUME NEW u \in Train \ {t}, ~held'[t], ~held'[u],
                        NEW x \in cleared'[t], NEW y \in cleared'[u]
                 PROVE  ~Promise!EdgeSharesMarker(x, y)
    <3>1. ASSUME NEW v \in Train, NEW w \in Train, v # w, ~held'[v], ~held'[w],
                 NEW x \in cleared'[v], NEW y \in cleared'[w]
          PROVE  ~Promise!EdgeSharesMarker(y, x)
      <4>1. CASE v = t
        BY <2>2, <3>1, <4>1, SharingIsMutual
      <4>2. CASE w = t
        BY <2>2, <3>1, <4>2, SharingIsMutual
      <4>3. CASE v # t /\ w # t
        BY <2>1, <3>1, <4>3
        DEF Promise!OthersKeep, Promise!Exclusive, Promise!AnyEdgeSharesMarker
      <4> QED
        BY <4>1, <4>2, <4>3
    <3> QED
      BY <3>1 DEF Promise!Exclusive, Promise!AnyEdgeSharesMarker
  <2>3. cleared'[u] = cleared[u] /\ held'[u] = held[u]
    BY <2>1 DEF Promise!OthersKeep
  <2>4. ASSUME x \in cleared[t], ~held[t]
        PROVE  ~Promise!EdgeSharesMarker(x, y)
    BY <2>2, <2>3, <2>4, SharingIsMutual DEF Promise!Exclusive, Promise!AnyEdgeSharesMarker
  <2>5. CASE Promise!Claim(t)
    <3>1. CASE x \in cleared[t]
      BY <2>2, <2>4, <2>5, <3>1 DEF Promise!Claim
    <3>2. CASE x \notin cleared[t]
      BY <2>2, <2>3, <2>5, <3>2, SharingIsMutual
      DEF Promise!Claim, Promise!Free, Promise!AnyEdgeSharesMarker
    <3> QED
      BY <3>1, <3>2
  <2>6. CASE Promise!Release(t)
    BY <2>2, <2>4, <2>6 DEF Promise!Release
  <2>7. CASE Promise!Suspect(t)
    BY <2>2, <2>7 DEF Promise!Suspect
  <2>8. CASE Promise!Recover(t)
    BY <2>2, <2>8 DEF Promise!Recover
  <2> QED
    BY <2>1, <2>5, <2>6, <2>7, <2>8
<1>2. CASE Promise!Forget
  BY <1>2 DEF Promise!Forget, Promise!Exclusive, Promise!AnyEdgeSharesMarker
<1>3. CASE UNCHANGED <<cleared, held>>
  BY <1>3 DEF Promise!Exclusive, Promise!AnyEdgeSharesMarker
<1> QED
  BY <1>1, <1>2, <1>3 DEF Promise!Next

(* Block exclusivity is a consequence of the rules of Clearance alone,     *)
(* whoever obeys them, and for whatever reasons.                           *)
THEOREM PromiseIsExclusive == Promise!Spec => []Promise!Exclusive
<1>1. Promise!Init => Promise!TypeOK /\ Promise!Exclusive
  BY DEF Promise!Init, Promise!TypeOK, Promise!Exclusive, Promise!AnyEdgeSharesMarker
<1>2. Promise!TypeOK /\ [Promise!Next]_<<cleared, held>> => Promise!TypeOK'
  BY DEF Promise!TypeOK, Promise!Next, Promise!TrainNext, Promise!Forget
<1> QED
  BY <1>1, <1>2, ExclusiveStep, PTL DEF Promise!Spec, Promise!clearanceVars

(* Block exclusivity (ADR-002, ADR-011): on every railway, two trains      *)
(* whose positions are certain never hold blocks that share a marker.      *)
THEOREM Exclusivity == Safety => []Exclusive
  BY Implementation, PromiseIsExclusive, PTL DEF ImplementsClearance, Exclusive

-----------------------------------------------------------------------------
(* What a step may never do.                                               *)

(* No event is taken while a handler runs. *)
LEMMA BusyMeansStep == Next /\ ~Idle => Step
<1> SUFFICES ASSUME ~Idle, Next, ~Step
             PROVE  FALSE
  OBVIOUS
<1>1. ASSUME NEW t \in Train, TrainEvent(t)
      PROVE  FALSE
  BY <1>1 DEF TrainEvent, RegisterTrain, ForgetTrain, MarkerReport, HandleTopologyViolation,
     HandleZoneEntry, HandleTrainAtMarker, Reporting, HandleTrainStatus, HandleClearanceRequest,
     HandleTrainLengthChanged
<1>2. ASSUME NEW t \in Train, OperatorCommand(t)
      PROVE  FALSE
  BY <1>2 DEF OperatorCommand, AssignSchedule, RevokeClearance, Reanchor, ConfirmNewTrack
<1>3. ASSUME NEW j \in Junction, SwitchEvent(j)
      PROVE  FALSE
  BY <1>3 DEF SwitchEvent, RecordSwitchPairing, HandleSwitchStateChanged
<1>4. ASSUME NEW d \in Device, DeviceEvent(d)
      PROVE  FALSE
  BY <1>4 DEF DeviceEvent, RegisterDevice, ForgetDevice, HandleGateStateChanged,
     HandleZoneStateChanged, HandleZoneTrainReleased
<1>5. ~OtherEvent /\ ~Reset
  BY DEF OtherEvent, Reset
<1> QED
  BY <1>1, <1>2, <1>3, <1>4, <1>5 DEF Next

(* A denial binds (anyCapabilityDeniesClearance): a marker that a gate     *)
(* withholds, or a zone that is full, is granted to no train by any step.  *)
THEOREM DenialBinds == Safety => NoGrantAgainstDenial
<1>1. TypeOK /\ [Next]_vars =>
        \A t \in Train : \A e \in cleared'[t] \ cleared[t] :
            AnyCapabilityDeniesClearance(e) => held'[t]
  <2> SUFFICES ASSUME TypeOK, [Next]_vars,
                      NEW t \in Train, NEW e \in cleared'[t] \ cleared[t], ~held'[t]
               PROVE  ~AnyCapabilityDeniesClearance(e)
    OBVIOUS
  <2>1. CASE UNCHANGED <<cleared, held>>
    BY <2>1
  <2>2. ASSUME NEW u \in Train, OnlyOne(u),
               Granted(u) \/ Promise!Release(u) \/ Promise!Suspect(u) \/ Promise!Recover(u)
        PROVE  ~AnyCapabilityDeniesClearance(e)
    <3>1. t = u
      BY <2>2 DEF OnlyOne
    <3> QED
      BY <2>2, <3>1 DEF Granted, Grantable, Promise!Release, Promise!Suspect, Promise!Recover
  <2>3. CASE Promise!Forget
    BY <2>3 DEF Promise!Forget
  <2> QED
    BY <2>1, <2>2, <2>3, StepsHaveEffects DEF Effect
<1> QED
  BY <1>1, TypeCorrect, PTL DEF Safety, NoGrantAgainstDenial

(* A suspected position stays guarded (ADR-019; collectWaitingTrains skips *)
(* held trains): no retry, yield or reverse takes a block from a held      *)
(* train.                                                                  *)
THEOREM SuspicionStaysGuarded == Safety => HeldKeepsItsGround
<1>1. TypeOK /\ [Next]_vars =>
        \A t \in Train : held[t] /\ ~Idle => cleared[t] \subseteq cleared'[t]
  <2> SUFFICES ASSUME TypeOK, [Next]_vars, NEW t \in Train, held[t], ~Idle
               PROVE  cleared[t] \subseteq cleared'[t]
    OBVIOUS
  <2>1. CASE UNCHANGED vars
    BY <2>1 DEF vars
  <2>2. CASE Next
    <3>1. StepEffect
      BY <2>2, BusyMeansStep, StepsGrantOrTakeBack
    <3> QED
      BY <3>1 DEF StepEffect, OnlyOne, Granted
  <2> QED
    BY <2>1, <2>2
<1> QED
  BY <1>1, TypeCorrect, PTL DEF Safety, HeldKeepsItsGround

(* A held block of the route, or one granted in the same walk, is held     *)
(* after the walk; the walk passes over no other.                          *)
LEMMA WalkLeavesNoGap ==
    ASSUME TypeOK, NEW t \in Train, ExtendClearanceHorizon(t),
           NEW u \in Train, NEW x \in cleared'[u] \ cleared[u]
    PROVE  \E i \in DOMAIN trains[u].transit :
              /\ trains[u].transit[i] = x
              /\ \A k \in trains[u].progress..i : trains[u].transit[k] \in cleared'[u]
<1>1. PICK h \in HORIZON_EDGES..HORIZON_MAX_EDGES :
        cleared' = [cleared EXCEPT ![t] =
                       @ \cup {trains[t].transit[i] : i \in NewlyGranted(t, h)}]
  BY DEF ExtendClearanceHorizon
<1>2. u = t
  BY <1>1 DEF TypeOK, TrainsOK
<1>3. cleared'[t] = cleared[t] \cup {trains[t].transit[i] : i \in NewlyGranted(t, h)}
  BY <1>1 DEF TypeOK, TrainsOK
<1>4. PICK i \in NewlyGranted(t, h) : trains[t].transit[i] = x
  BY <1>2, <1>3
<1>5. /\ trains[t].transit \in Seq(Block) /\ trains[t].progress \in Nat \ {0} /\ h \in Int
  BY HorizonAssumption DEF TypeOK, TrainsOK, TrainState
<1>6. i \in DOMAIN trains[t].transit /\ i \in Int /\ i < trains[t].progress + h
  BY <1>5 DEF NewlyGranted, Walked
<1>7. ASSUME NEW k \in trains[t].progress..i
      PROVE  trains[t].transit[k] \in cleared'[t]
  <2>1. CASE k = i
    BY <1>3, <1>4, <2>1
  <2>2. CASE k < i
    <3>1. /\ k \in trains[t].progress..(i - 1)
          /\ trains[t].transit[k] \in cleared[t] \/ Grantable(t, trains[t].transit[k])
      BY <1>4, <1>5, <1>6, <2>2 DEF NewlyGranted, Walked
    <3>2. k \in Walked(t, h)
      <4>1. k \in DOMAIN trains[t].transit /\ trains[t].progress <= k /\ k < trains[t].progress + h
        BY <1>5, <1>6, <3>1
      <4>2. ASSUME NEW l \in trains[t].progress..(k - 1)
            PROVE  trains[t].transit[l] \in cleared[t] \/ Grantable(t, trains[t].transit[l])
        <5>1. l \in trains[t].progress..(i - 1)
          BY <1>5, <1>6, <3>1
        <5> QED
          BY <1>4, <5>1 DEF NewlyGranted, Walked
      <4> QED
        BY <4>1, <4>2 DEF Walked
    <3> QED
      BY <1>3, <3>1, <3>2 DEF NewlyGranted
  <2> QED
    BY <1>5, <1>6, <2>1, <2>2
<1> QED
  BY <1>2, <1>4, <1>6, <1>7

(* Stop-on-gap (extendClearanceHorizon): no handler grants a train an edge *)
(* of its route beyond one that it does not hold.                          *)
THEOREM GrantsLeaveNoGap == Safety => NoGrantAcrossGap
<1>1. TypeOK /\ [Next]_vars =>
        (~Idle => \A t \in Train : \A e \in cleared'[t] \ cleared[t] :
            \E i \in DOMAIN trains[t].transit :
                /\ trains[t].transit[i] = e
                /\ \A k \in trains[t].progress..i : trains[t].transit[k] \in cleared'[t])
  <2> SUFFICES ASSUME TypeOK, [Next]_vars, ~Idle,
                      NEW u \in Train, NEW e \in cleared'[u] \ cleared[u]
               PROVE  \E i \in DOMAIN trains[u].transit :
                        /\ trains[u].transit[i] = e
                        /\ \A k \in trains[u].progress..i : trains[u].transit[k] \in cleared'[u]
    OBVIOUS
  <2>1. CASE UNCHANGED vars
    BY <2>1 DEF vars
  <2>2. CASE Step
    <3>1. CASE DoExtend
      <4>1. Head(agenda).train \in Train
        BY <3>1, FirstTask DEF DoExtend, Idle, Task
      <4> QED
        BY <3>1, <4>1, WalkLeavesNoGap DEF DoExtend
    <3>2. CASE DoRetry
      <4>1. PICK t \in Head(agenda).pending : ExtendClearanceHorizon(t)
        BY <3>2 DEF DoRetry
      <4>2. t \in Train
        BY <3>2, <4>1, FirstTask DEF DoRetry, Idle, Task
      <4> QED
        BY <4>1, <4>2, WalkLeavesNoGap
    <3>3. CASE DoPlan \/ EmitDeadlockState
      BY <3>3 DEF DoPlan, EmitDeadlockState
    <3>4. CASE TryYieldLowestRanked
      BY <3>4 DEF TryYieldLowestRanked, TypeOK, TrainsOK
    <3>5. CASE TryReverseToBreakStandoff
      BY <3>5 DEF TryReverseToBreakStandoff, TypeOK, TrainsOK
    <3> QED
      BY <2>2, <3>1, <3>2, <3>3, <3>4, <3>5 DEF Step
  <2> QED
    BY <2>1, <2>2, BusyMeansStep
<1> QED
  BY <1>1, TypeCorrect, PTL DEF Safety, NoGrantAcrossGap

(* A switch is asked to move on the way of a train whose next steps need   *)
(* it, and that conflicts with nobody there.                               *)
LEMMA ThrowIsNeeded ==
    ASSUME TypeOK, NEW t \in Train, ExtendClearanceHorizon(t),
           NEW j \in Junction, requested'[j] # requested[j]
    PROVE  Needs(t, j, requested'[j]) /\ \A u \in Train \ {t} : ~Touches(cleared[u], j)
<1>1. PICK h \in HORIZON_EDGES..HORIZON_MAX_EDGES :
        requested' = [m \in Marker |->
                        IF \E e \in SwitchesToThrow(t, h) : From(e) = m
                        THEN Switched[CHOOSE e \in SwitchesToThrow(t, h) : From(e) = m]
                        ELSE requested[m]]
  BY DEF ExtendClearanceHorizon
<1>2. j \in Marker
  BY BlockEnds, LayoutAssumption DEF Junction, Block
<1> DEFINE x == CHOOSE e \in SwitchesToThrow(t, h) : From(e) = j
<1>3. x \in SwitchesToThrow(t, h) /\ From(x) = j /\ requested'[j] = Switched[x]
  BY <1>1, <1>2
<1> HIDE DEF x
<1>4. PICK i \in Walked(t, h) : x = trains[t].transit[i]
  BY <1>3 DEF SwitchesToThrow
<1>5. /\ i \in DOMAIN trains[t].transit /\ trains[t].progress <= i
      /\ i \in Int /\ trains[t].progress \in Int
  BY <1>4 DEF Walked, TypeOK, TrainsOK, TrainState
<1>6. MustThrowSwitch(t, x)
  BY <1>3 DEF SwitchesToThrow
<1>7. Needs(t, j, requested'[j])
  BY <1>3, <1>4, <1>5, <1>6 DEF Needs, MustThrowSwitch, EdgeRequiresMismatchedSwitch
<1>8. \A u \in Train \ {t} : ~Touches(cleared[u], j)
  BY <1>3, <1>6 DEF MustThrowSwitch, EdgeConflictsWithAnotherTrain, AnyEdgeSharesMarker,
     EdgeSharesMarker, Touches
<1> QED
  BY <1>7, <1>8

(* A handler asks a switch to move only as it extends a train's clearance. *)
LEMMA WalksThrow ==
    ASSUME TypeOK, Step, requested' # requested
    PROVE  \E t \in Train : ExtendClearanceHorizon(t)
<1>1. CASE DoExtend
  BY <1>1, FirstTask DEF DoExtend, Idle, Task
<1>2. CASE DoRetry
  BY <1>2, FirstTask DEF DoRetry, Idle, Task
<1> QED
  BY <1>1, <1>2 DEF Step, DoPlan, TryYieldLowestRanked, TryReverseToBreakStandoff, EmitDeadlockState

(* Points are thrown for one train only (maybeActuateSwitch, called after  *)
(* the conflict check): no handler asks a switch to move while a train     *)
(* other than the one that needs it holds a block at the junction.         *)
THEOREM PointsAreThrownForOne == Safety => SwitchNotThrownUnderPeer
<1>1. TypeOK /\ [Next]_vars =>
        (~Idle => \A j \in Junction : requested'[j] # requested[j] =>
            \E t \in Train :
                /\ Needs(t, j, requested'[j])
                /\ \A u \in Train \ {t} : ~Touches(cleared[u], j))
  <2> SUFFICES ASSUME TypeOK, [Next]_vars, ~Idle,
                      NEW j \in Junction, requested'[j] # requested[j]
               PROVE  \E t \in Train :
                        /\ Needs(t, j, requested'[j])
                        /\ \A u \in Train \ {t} : ~Touches(cleared[u], j)
    OBVIOUS
  <2>1. ~UNCHANGED requested
    OBVIOUS
  <2>2. Step
    BY <2>1, BusyMeansStep DEF vars
  <2> QED
    BY <2>1, <2>2, WalksThrow, ThrowIsNeeded
<1> QED
  BY <1>1, TypeCorrect, PTL DEF Safety, SwitchNotThrownUnderPeer

-----------------------------------------------------------------------------
(* The pass.  A train that had its turn and still waits cannot have its    *)
(* edge; a pass that has yet to begin has every train before it.           *)

IsPass(task) == task.op = "retry" /\ task.train = None

AllCovered(tasks) ==
    \A i \in DOMAIN tasks : IsPass(tasks[i]) => Registered \subseteq tasks[i].pending

Served ==
    ~Idle /\ IsPass(Head(agenda)) =>
        \A t \in CollectWaitingTrains \ Head(agenda).pending : ~Grantable(t, NextEdge(t))

PassInv == Served /\ (~Idle => AllCovered(Tail(agenda)))

(* A handler leaves a pass over all trains, or one that resolves nothing.  *)
LEMMA HandlersCover ==
    ASSUME NEW t \in Train, Registered' \subseteq Registered,
           \/ agenda' \in {<<>>, <<RetryAll>>, <<PlanTask(t)>>, <<PlanTask(t), RetryAll>>,
                           <<ExtendTask(t), RetryAll>>, <<RetryTask(Registered \ {t}, t)>>}
           \/ agenda' = <<RetryTask(Registered \ {t}, None)>> /\ t \notin Registered'
    PROVE  AllCovered(agenda)'
<1>1. t # None
  BY LayoutAssumption, TrainAssumption
<1>2. /\ ~IsPass(PlanTask(t)) /\ ~IsPass(ExtendTask(t))
      /\ ~IsPass(RetryTask(Registered \ {t}, t))
      /\ RetryAll.pending = Registered
      /\ RetryTask(Registered \ {t}, None).pending = Registered \ {t}
  BY <1>1 DEF IsPass, PlanTask, ExtendTask, RetryTask, RetryAll
<1> DEFINE plan == PlanTask(t)
           extend == ExtendTask(t)
           all == RetryAll
           others == RetryTask(Registered \ {t}, t)
           rest == RetryTask(Registered \ {t}, None)
<1> HIDE DEF plan, extend, all, others, rest
<1>3. \A i \in DOMAIN agenda' : \/ agenda'[i] \in {plan, extend, all, others}
                                \/ agenda'[i] = rest /\ t \notin Registered'
  BY DEF plan, extend, all, others, rest
<1>4. \A i \in DOMAIN agenda' : IsPass(agenda'[i]) => Registered' \subseteq agenda'[i].pending
  BY <1>2, <1>3 DEF plan, extend, all, others, rest
<1> QED
  BY <1>4 DEF AllCovered, IsPass

(* A pass that has all trains before it has served all that it should.     *)
LEMMA CoveredIsServed ==
    ASSUME TypeOK', AllCovered(agenda)'
    PROVE  PassInv'
<1>1. agenda' \in Seq(Task)
  BY DEF TypeOK, AgendaOK
<1>2. CASE agenda' = <<>>
  BY <1>2 DEF PassInv, Served, Idle
<1>3. CASE agenda' # <<>>
  <2>1. /\ 1 \in DOMAIN agenda' /\ Head(agenda') = agenda'[1]
        /\ \A i \in DOMAIN Tail(agenda') : i + 1 \in DOMAIN agenda' /\ Tail(agenda')[i] = agenda'[i + 1]
    BY <1>1, <1>3
  <2>2. IsPass(Head(agenda))' => Registered' \subseteq Head(agenda').pending
    BY <2>1 DEF AllCovered, IsPass
  <2>3. CollectWaitingTrains' \subseteq Registered'
    BY DEF CollectWaitingTrains
  <2>4. Served'
    BY <2>2, <2>3 DEF Served
  <2>5. AllCovered(Tail(agenda))'
    BY <2>1 DEF AllCovered, IsPass
  <2> QED
    BY <2>4, <2>5 DEF PassInv
<1> QED
  BY <1>2, <1>3

(* So does an event that is not about any one train.                       *)
LEMMA RetryAllCovers ==
    ASSUME Registered' \subseteq Registered, agenda' \in {<<>>, <<RetryAll>>}
    PROVE  AllCovered(agenda)'
<1>1. RetryAll.pending = Registered
  BY DEF RetryAll, RetryTask
<1> DEFINE all == RetryAll
<1> HIDE DEF all
<1>2. \A i \in DOMAIN agenda' : agenda'[i] = all
  BY DEF all
<1> QED
  BY <1>1, <1>2 DEF AllCovered, all

(* A train that is forgotten is not registered any more.                   *)
LEMMA ForgottenIsGone ==
    ASSUME TypeOK, NEW t \in Train, ForgetTrain(t)
    PROVE  Registered' \subseteq Registered \ {t}
<1> DEFINE i == RegistrationSeq(t)
<1>1. arrival \in Seq(Train) /\ IsInjective(arrival)
  BY DEF TypeOK, TrainsOK
<1>2. i \in 1..Len(arrival) /\ arrival[i] = t
  BY <1>1 DEF ForgetTrain, Registered, Range, RegistrationSeq
<1>3. arrival' = RemoveAt(arrival, i)
  BY DEF ForgetTrain
<1> HIDE DEF i
<1>4. /\ arrival' \in Seq(Train) /\ Len(arrival') = Len(arrival) - 1
      /\ \A k \in 1..(Len(arrival) - 1) :
            arrival'[k] = IF k < i THEN arrival[k] ELSE arrival[k + 1]
  BY <1>1, <1>2, <1>3, RemoveAtProperties
<1>5. ASSUME NEW k \in DOMAIN arrival'
      PROVE  arrival'[k] \in Registered \ {t}
  <2> DEFINE n == IF k < i THEN k ELSE k + 1
  <2>1. n \in DOMAIN arrival /\ n # i /\ arrival'[k] = arrival[n] /\ i \in DOMAIN arrival
    BY <1>1, <1>2, <1>4
  <2> HIDE DEF n
  <2>2. arrival[n] # arrival[i]
    BY <1>1, <2>1 DEF IsInjective
  <2> QED
    BY <1>2, <2>1, <2>2 DEF Registered, Range
<1> QED
  BY <1>5 DEF Registered, Range

(* Whatever event is taken, its handler leaves all trains covered.         *)
LEMMA EventsCover ==
    ASSUME TypeOK, TypeOK', Next, Idle
    PROVE  AllCovered(agenda)'
<1>1. ~Step
  BY DEF Step, DoPlan, DoExtend, DoRetry, TryYieldLowestRanked, TryReverseToBreakStandoff,
     EmitDeadlockState, Resolving
<1>2. ASSUME NEW t \in Train, TrainEvent(t)
      PROVE  AllCovered(agenda)'
  <2>1. CASE RegisterTrain(t)
    BY <2>1 DEF RegisterTrain, Idle, AllCovered
  <2>2. CASE ForgetTrain(t)
    BY <2>2, ForgottenIsGone, HandlersCover DEF ForgetTrain
  <2>3. ASSUME UNCHANGED arrival,
               agenda' \in {<<>>, <<RetryAll>>, <<PlanTask(t)>>, <<ExtendTask(t), RetryAll>>}
        PROVE  AllCovered(agenda)'
    BY <2>3, HandlersCover DEF Registered
  <2> QED
    BY <1>2, <2>1, <2>2, <2>3 DEF TrainEvent, MarkerReport, HandleTopologyViolation,
       HandleZoneEntry, HandleTrainAtMarker, HandleTrainStatus, HandleClearanceRequest,
       HandleTrainLengthChanged, Idle
<1>3. ASSUME NEW t \in Train, OperatorCommand(t)
      PROVE  AllCovered(agenda)'
  <2>1. UNCHANGED arrival /\ agenda' \in {<<RetryAll>>, <<PlanTask(t)>>, <<PlanTask(t), RetryAll>>,
                                          <<RetryTask(Registered \ {t}, t)>>}
    BY <1>3 DEF OperatorCommand, AssignSchedule, RevokeClearance, Reanchor, ConfirmNewTrack, RecoverAt
  <2> QED
    BY <2>1, HandlersCover DEF Registered
<1>4. ASSUME NEW j \in Junction, SwitchEvent(j)
      PROVE  AllCovered(agenda)'
  BY <1>4, RetryAllCovers DEF SwitchEvent, RecordSwitchPairing, HandleSwitchStateChanged, Idle, Registered
<1>5. ASSUME NEW d \in Device, DeviceEvent(d)
      PROVE  AllCovered(agenda)'
  <2>1. ASSUME NEW t \in Train, NEW z \in ZoneMarkers[d], HandleZoneTrainReleased(d, z, t)
        PROVE  AllCovered(agenda)'
    BY <2>1, HandlersCover DEF HandleZoneTrainReleased, Registered
  <2>2. ASSUME UNCHANGED arrival, agenda' \in {<<>>, <<RetryAll>>}
        PROVE  AllCovered(agenda)'
    BY <2>2, RetryAllCovers DEF Registered
  <2> QED
    BY <1>5, <2>1, <2>2 DEF DeviceEvent, RegisterDevice, ForgetDevice, HandleGateStateChanged,
       HandleZoneStateChanged, Idle
<1>6. CASE OtherEvent
  BY <1>6, RetryAllCovers DEF OtherEvent, Registered
<1>7. CASE Reset
  BY <1>7, RetryAllCovers DEF Reset, Registered, Idle, Range
<1> QED
  BY <1>1, <1>2, <1>3, <1>4, <1>5, <1>6, <1>7 DEF Next

-----------------------------------------------------------------------------
(* One turn of the pass.                                                   *)

(* What can be granted could be granted when trains held less.             *)
LEMMA ConflictsOnlyGrow ==
    ASSUME NEW u, NEW x, Grantable(u, x)', UNCHANGED <<trackVars, deviceVars>>,
           \A v \in Train : cleared[v] \subseteq cleared'[v]
    PROVE  Grantable(u, x)
<1>1. ~EdgeConflictsWithAnotherTrain(u, x)
  BY DEF Grantable, EdgeConflictsWithAnotherTrain, AnyEdgeSharesMarker
<1>2. ~EdgeRequiresMismatchedSwitch(x) /\ ~AnyCapabilityDeniesClearance(x)
  BY DEF Grantable, EdgeRequiresMismatchedSwitch, AnyCapabilityDeniesClearance, Denied,
     trackVars, deviceVars
<1> QED
  BY <1>1, <1>2 DEF Grantable

(* A walk makes no edge available that was not so before, and a train that *)
(* waits after its own walk waits for one it could not have.               *)
LEMMA WalkFreesNothing ==
    ASSUME TypeOK, NEW t \in Train, ExtendClearanceHorizon(t),
           UNCHANGED <<arrival, held, trackVars, deviceVars>>,
           NEW u \in CollectWaitingTrains', Grantable(u, NextEdge(u))'
    PROVE  u # t /\ u \in CollectWaitingTrains /\ Grantable(u, NextEdge(u))
<1>1. PICK h \in HORIZON_EDGES..HORIZON_MAX_EDGES :
        /\ cleared' = [cleared EXCEPT ![t] =
                          @ \cup {trains[t].transit[i] : i \in NewlyGranted(t, h)}]
        /\ trains' = trains \/ \E x : trains' = [trains EXCEPT ![t].limit = x]
  BY DEF ExtendClearanceHorizon
<1>2. u \in Registered /\ u \in Train /\ ~held[u]
  BY RegisteredTrains DEF TypeOK, CollectWaitingTrains, Registered
<1>3. trains'[u].transit = trains[u].transit /\ trains'[u].progress = trains[u].progress
  <2>1. trains \in [Train -> TrainState]
    BY DEF TypeOK, TrainsOK
  <2>2. ASSUME NEW x, trains' = [trains EXCEPT ![t].limit = x]
        PROVE  trains'[u].transit = trains[u].transit /\ trains'[u].progress = trains[u].progress
    <3>1. CASE u = t
      BY <1>2, <2>1, <2>2, <3>1 DEF TrainState
    <3>2. CASE u # t
      BY <1>2, <2>1, <2>2, <3>2
    <3> QED
      BY <3>1, <3>2
  <2> QED
    BY <1>1, <2>2
<1>4. InTransit(u) /\ NextEdge(u)' = NextEdge(u) /\ NextEdge(u) \notin cleared'[u]
  BY <1>3 DEF CollectWaitingTrains, InTransit, NextEdge
<1>5. \A v \in Train : cleared[v] \subseteq cleared'[v]
  BY <1>1 DEF TypeOK, TrainsOK
<1>6. u \in CollectWaitingTrains
  BY <1>2, <1>4, <1>5 DEF CollectWaitingTrains
<1>7. Grantable(u, NextEdge(u))
  <2>1. PICK x : x = NextEdge(u) /\ x = NextEdge(u)'
    BY <1>4
  <2>2. Grantable(u, x)'
    BY <2>1 DEF Grantable, EdgeConflictsWithAnotherTrain, EdgeRequiresMismatchedSwitch,
       AnyCapabilityDeniesClearance
  <2> QED
    BY <1>5, <2>1, <2>2, ConflictsOnlyGrow
<1>8. u # t
  <2> SUFFICES ASSUME u = t
               PROVE  FALSE
    OBVIOUS
  <2> DEFINE k == trains[t].progress
  <2>1. k \in DOMAIN trains[t].transit /\ k \in Nat
    BY <1>2, <1>4 DEF InTransit, TypeOK, TrainsOK, TrainState
  <2>2. h \in Nat \ {0}
    BY HorizonAssumption
  <2>3. k \in Walked(t, h)
    BY <2>1, <2>2 DEF Walked
  <2>4. k \in NewlyGranted(t, h)
    BY <1>6, <1>7, <2>3 DEF NewlyGranted, NextEdge, CollectWaitingTrains
  <2>5. NextEdge(t) \in cleared'[t]
    BY <1>1, <2>4 DEF NextEdge, TypeOK, TrainsOK
  <2> QED
    BY <1>4, <2>5
<1> QED
  BY <1>6, <1>7, <1>8

(* Tasks put on top of what is left of a handler.                          *)
LEMMA OnTopOfTheRest ==
    ASSUME TypeOK, TypeOK', PassInv, ~Idle, UNCHANGED arrival,
           NEW tasks \in Seq(Task), AllCovered(tasks),
           agenda' = tasks \o Tail(agenda)
    PROVE  PassInv'
<1>1. Tail(agenda) \in Seq(Task) /\ AllCovered(Tail(agenda))
  BY DEF TypeOK, AgendaOK, Idle, PassInv
<1> DEFINE rest == Tail(agenda)
<1> HIDE DEF rest
<1>2. rest \in Seq(Task) /\ AllCovered(rest) /\ agenda' = tasks \o rest
  BY <1>1 DEF rest
<1>3. ASSUME NEW i \in DOMAIN agenda', IsPass(agenda'[i])
      PROVE  Registered \subseteq agenda'[i].pending
  <2>1. /\ i \in 1..Len(tasks) + Len(rest)
        /\ agenda'[i] = IF i <= Len(tasks) THEN tasks[i] ELSE rest[i - Len(tasks)]
    <3> DEFINE q == tasks \o rest
    <3>1. /\ q \in Seq(Task) /\ Len(q) = Len(tasks) + Len(rest)
          /\ \A k \in 1..Len(tasks) + Len(rest) :
                q[k] = IF k <= Len(tasks) THEN tasks[k] ELSE rest[k - Len(tasks)]
      BY <1>2, ConcatProperties
    <3>2. agenda' = q
      BY <1>2
    <3> HIDE DEF q
    <3>3. DOMAIN agenda' = 1..Len(tasks) + Len(rest)
      BY <3>1, <3>2
    <3> QED
      BY <1>3, <3>1, <3>2, <3>3
  <2>2. CASE i <= Len(tasks)
    BY <1>3, <2>1, <2>2 DEF AllCovered, IsPass
  <2>3. CASE i > Len(tasks)
    <3>1. i - Len(tasks) \in DOMAIN rest /\ agenda'[i] = rest[i - Len(tasks)]
      BY <1>2, <2>1, <2>3
    <3> QED
      BY <1>2, <1>3, <3>1 DEF AllCovered, IsPass
  <2> QED
    BY <2>1, <2>2, <2>3
<1>4. AllCovered(agenda)'
  BY <1>3 DEF AllCovered, IsPass, Registered
<1> QED
  BY <1>4, CoveredIsServed

(* Every step of a handler keeps the invariant of the pass.                *)
LEMMA PassGoesOn == TypeOK /\ TypeOK' /\ PassInv /\ Step => PassInv'
<1> SUFFICES ASSUME TypeOK, TypeOK', PassInv, Step
             PROVE  PassInv'
  OBVIOUS
<1>1. ~Idle /\ agenda \in Seq(Task) /\ Tail(agenda) \in Seq(Task) /\ Tail(agenda) = <<>> \o Tail(agenda)
  <2>1. ~Idle /\ agenda \in Seq(Task)
    BY DEF TypeOK, AgendaOK, Step, DoPlan, DoExtend, DoRetry, TryYieldLowestRanked,
       TryReverseToBreakStandoff, EmitDeadlockState, Resolving
  <2>2. Tail(agenda) \in Seq(Task)
    BY <2>1 DEF Idle
  <2> QED
    BY <2>1, <2>2, ConcatEmptySeq
<1>2. ASSUME UNCHANGED arrival, agenda' = Tail(agenda)
      PROVE  PassInv'
  <2>1. AllCovered(<<>>) /\ <<>> \in Seq(Task)
    BY DEF AllCovered
  <2> QED
    BY <1>1, <1>2, <2>1, OnTopOfTheRest
<1>3. CASE DoExtend \/ EmitDeadlockState
  BY <1>2, <1>3 DEF DoExtend, EmitDeadlockState
<1>4. CASE DoPlan
  <2> DEFINE t == Head(agenda).train
  <2>1. t \in Train
    BY <1>1, <1>4, FirstTask DEF DoPlan, Task, Idle
  <2>2. CASE agenda' = <<ExtendTask(t), RetryAll>> \o Tail(agenda)
    <3> DEFINE extend == ExtendTask(t)
               all == RetryAll
    <3>1. extend \in Task /\ all \in Task
      BY <2>1, Tasks, RegisteredTrains DEF TypeOK
    <3>2. ~IsPass(extend) /\ all.pending = Registered
      BY DEF IsPass, ExtendTask, RetryAll, RetryTask
    <3> HIDE DEF extend, all
    <3>3. <<extend, all>> \in Seq(Task) /\ AllCovered(<<extend, all>>)
      BY <3>1, <3>2 DEF AllCovered
    <3>4. agenda' = <<extend, all>> \o Tail(agenda)
      BY <2>2 DEF extend, all
    <3> QED
      BY <1>1, <1>4, <3>3, <3>4, OnTopOfTheRest DEF DoPlan
  <2>3. CASE UNCHANGED agenda
    BY <1>4, <2>3 DEF DoPlan, PassInv, Served, IsPass, Idle, AllCovered, Registered
  <2> QED
    BY <1>2, <1>4, <2>2, <2>3 DEF DoPlan, PlanAndExecuteCurrentTransit
<1>5. CASE DoRetry
  <2>1. PICK t \in Head(agenda).pending :
          /\ ExtendClearanceHorizon(t)
          /\ agenda' = [agenda EXCEPT ![1].pending = @ \ {t}]
    BY <1>5 DEF DoRetry
  <2>2. /\ Head(agenda) \in Task /\ Head(agenda) = agenda[1] /\ agenda[1].op = "retry"
        /\ 1 \in DOMAIN agenda /\ t \in Train
    BY <1>1, <1>5, <2>1, FirstTask DEF DoRetry, Idle, Task
  <2>3. /\ Head(agenda') = agenda'[1] /\ Tail(agenda') = Tail(agenda)
        /\ agenda'[1] = [agenda[1] EXCEPT !.pending = @ \ {t}]
    BY <1>1, <2>1, <2>2 DEF Idle
  <2>4. /\ IsPass(Head(agenda')) <=> IsPass(Head(agenda))
        /\ Head(agenda').pending = Head(agenda).pending \ {t}
    BY <2>2, <2>3 DEF IsPass, Task
  <2>5. ASSUME IsPass(Head(agenda)), NEW u \in CollectWaitingTrains' \ Head(agenda').pending,
               Grantable(u, NextEdge(u))'
        PROVE  FALSE
    <3>1. u # t /\ u \in CollectWaitingTrains /\ Grantable(u, NextEdge(u))
      BY <1>5, <2>1, <2>2, <2>5, WalkFreesNothing DEF DoRetry
    <3> QED
      BY <1>1, <2>4, <2>5, <3>1 DEF PassInv, Served
  <2>6. Served'
    BY <2>4, <2>5 DEF Served, IsPass
  <2>7. AllCovered(Tail(agenda))'
    BY <1>1, <1>5, <2>3 DEF PassInv, AllCovered, IsPass, Registered, DoRetry
  <2> QED
    BY <2>6, <2>7 DEF PassInv
<1>6. ASSUME NEW v, v \in Train, agenda' = RetryWithout(v), UNCHANGED arrival
      PROVE  PassInv'
  <2> DEFINE task == RetryTask(Registered \ {v}, v)
  <2>1. task \in Task /\ ~IsPass(task)
    BY <1>6, Tasks, RegisteredTrains, LayoutAssumption DEF TypeOK, IsPass, RetryTask
  <2>2. agenda' = <<task>> \o Tail(agenda)
    BY <1>6 DEF RetryWithout
  <2> HIDE DEF task
  <2>3. <<task>> \in Seq(Task) /\ AllCovered(<<task>>)
    BY <2>1 DEF AllCovered
  <2> QED
    BY <1>1, <1>6, <2>2, <2>3, OnTopOfTheRest
<1>7. CASE TryYieldLowestRanked
  <2>1. PICK c \in WaitsForCycles : \E v \in Range(c) : agenda' = RetryWithout(v)
    BY <1>7 DEF TryYieldLowestRanked
  <2> QED
    BY <1>6, <1>7, <2>1, CyclesAreOfTrains DEF TryYieldLowestRanked, TypeOK
<1>8. CASE TryReverseToBreakStandoff
  <2>1. PICK c \in WaitsForCycles : \E v \in Range(c) : agenda' = RetryWithout(v)
    BY <1>8 DEF TryReverseToBreakStandoff
  <2> QED
    BY <1>6, <1>8, <2>1, CyclesAreOfTrains DEF TryReverseToBreakStandoff, TypeOK
<1> QED
  BY <1>3, <1>4, <1>5, <1>7, <1>8 DEF Step

(* No lost wakeup (retryBlockedClearances): a pass that has considered     *)
(* every train leaves none waiting for an edge that it could have had.     *)
THEOREM NobodyIsLeftBehind == Safety => []PassLeavesNobodyBehind
<1>1. Init => PassInv
  BY DEF Init, PassInv, Served, Idle
<1>2. TypeOK /\ TypeOK' /\ PassInv /\ [Next]_vars => PassInv'
  <2> SUFFICES ASSUME TypeOK, TypeOK', PassInv, [Next]_vars
               PROVE  PassInv'
    OBVIOUS
  <2>1. CASE Step
    BY <2>1, PassGoesOn
  <2>2. CASE Next /\ Idle
    BY <2>2, EventsCover, CoveredIsServed
  <2>3. CASE UNCHANGED vars
    BY <2>3 DEF vars, PassInv, Served, AllCovered, IsPass, Idle, Registered, CollectWaitingTrains,
       InTransit, NextEdge, Grantable, EdgeConflictsWithAnotherTrain,
       EdgeRequiresMismatchedSwitch, AnyCapabilityDeniesClearance, Denied
  <2> QED
    BY <2>1, <2>2, <2>3, BusyMeansStep
<1>3. PassInv => PassLeavesNobodyBehind
  BY DEF PassInv, Served, PassLeavesNobodyBehind, Resolving, IsPass
<1> QED
  BY <1>1, <1>2, <1>3, TypeCorrect, PTL DEF Safety

-----------------------------------------------------------------------------
(* Resolving a deadlock.                                                   *)

(* A set of numbers that is not empty has a least one.                     *)
LEMMA LeastNumber ==
    ASSUME NEW S \in SUBSET Nat, S # {}
    PROVE  Min(S) \in S /\ \A k \in S : Min(S) <= k
<1>1. \E n \in S : \A k \in S : ~(k < n)
  <2>1. PICK n \in S : \A k \in S : ~(<<k, n>> \in OpToRel(<, Nat))
    BY NatLessThanWellFounded, WFMin, Zenon
  <2>2. \A k \in S : k < n => <<k, n>> \in OpToRel(<, Nat)
    BY Zenon DEF OpToRel
  <2> QED
    BY <2>1, <2>2, Zenon
<1>2. \E n \in S : \A k \in S : n <= k
  BY <1>1
<1> QED
  BY <1>2 DEF Min

(* What the victim of a cycle is in the way of is the next edge of a train *)
(* that waits.                                                             *)
LEMMA SomebodyWantsIt ==
    ASSUME NEW c \in WaitsForCycles, NEW v, Blocked(c, v) # {}
    PROVE  \E u \in CollectWaitingTrains :
              /\ PeerWantedEdge(c, v) = NextEdge(u)
              /\ AnyEdgeSharesMarker(cleared[v], NextEdge(u))
<1>1. PICK n \in 2..Cardinality(Train) : c \in [1..n -> CollectWaitingTrains]
  BY DEF WaitsForCycles, CyclesThrough
<1>2. Blocked(c, v) \in SUBSET Nat
  BY <1>1 DEF Blocked
<1>3. Min(Blocked(c, v)) \in Blocked(c, v)
  BY <1>2, LeastNumber
<1> DEFINE i == Min(Blocked(c, v))
<1>4. c[i] \in CollectWaitingTrains /\ AnyEdgeSharesMarker(cleared[v], NextEdge(c[i]))
  BY <1>1, <1>3 DEF Blocked
<1> QED
  BY <1>4 DEF PeerWantedEdge

(* The blocks that a train backs out of all lie ahead of where it comes to *)
(* stand.                                                                  *)
LEMMA RetreatClearsTheHead ==
    ASSUME NEW c, NEW v, NEW p \in Retreats(c, v)
    PROVE  /\ Len(p) \in DOMAIN p
           /\ Range(p) = {p[i] : i \in 1..Len(p)}
           /\ \A e \in Range(p) : To(e) # From(p[Len(p)])
<1> DEFINE behind == {From(p[i]) : i \in DOMAIN p}
<1>1. /\ p \in BackwardRuns(cleared[v], trains[v].last)
      /\ trains[v].last \notin behind
      /\ Cardinality(behind) = Len(p)
  BY DEF Retreats
<1>2. PICK n \in 1..Cardinality(cleared[v]) : p \in [1..n -> cleared[v]]
  BY <1>1 DEF BackwardRuns
<1>3. n \in Nat /\ n > 0 /\ DOMAIN p = 1..n /\ Len(p) = n
  BY <1>2
<1>4. /\ To(p[1]) = trains[v].last
      /\ \A i \in 1..(n - 1) : To(p[i + 1]) = From(p[i])
  BY <1>1, <1>3 DEF BackwardRuns
<1> DEFINE f == [i \in 1..n |-> From(p[i])]
<1>5. f \in Injection(1..n, behind)
  <2>1. f \in Surjection(1..n, behind)
    BY <1>3 DEF Surjection
  <2>2. IsFiniteSet(1..n) /\ Cardinality(1..n) = n
    BY <1>3, FS_Interval
  <2> HIDE DEF f, behind
  <2> QED
    BY <1>1, <1>3, <2>1, <2>2, FS_Surjection
<1>6. ASSUME NEW i \in 1..n
      PROVE  To(p[i]) # From(p[n])
  <2>1. n \in 1..n
    BY <1>3
  <2>2. CASE i = 1
    BY <1>1, <1>3, <1>4, <2>1, <2>2
  <2>3. CASE i # 1
    <3>1. i - 1 \in 1..(n - 1) /\ i - 1 \in 1..n /\ (i - 1) + 1 = i /\ i - 1 # n
      BY <1>3, <2>3
    <3>2. To(p[i]) = f[i - 1] /\ From(p[n]) = f[n]
      BY <1>4, <2>1, <3>1
    <3>3. f[i - 1] # f[n]
      BY <1>5, <2>1, <3>1 DEF Injection, IsInjective
    <3> QED
      BY <3>2, <3>3
  <2> QED
    BY <2>2, <2>3
<1>7. Range(p) = {p[i] : i \in 1..n}
  BY <1>3 DEF Range
<1> QED
  BY <1>3, <1>6, <1>7

(* Resolution never takes the ground from under a train, and helps the one *)
(* in whose favour it happens (tryYieldLowestRanked,                       *)
(* tryReverseToBreakStandoff).                                             *)
THEOREM ResolutionIsSafe == Safety => ResolutionVacates
<1>1. TypeOK /\ [Next]_vars =>
        (Resolving => \A v \in Train : cleared'[v] # cleared[v] =>
            /\ \A e \in cleared[v] \ cleared'[v] : To(e) # trains'[v].last
            /\ \E u \in CollectWaitingTrains :
                  /\ AnyEdgeSharesMarker(cleared[v], NextEdge(u))
                  /\ ~AnyEdgeSharesMarker(cleared'[v], NextEdge(u)))
  <2> SUFFICES ASSUME TypeOK, [Next]_vars, Resolving, NEW v \in Train, cleared'[v] # cleared[v]
               PROVE  /\ \A e \in cleared[v] \ cleared'[v] : To(e) # trains'[v].last
                      /\ \E u \in CollectWaitingTrains :
                            /\ AnyEdgeSharesMarker(cleared[v], NextEdge(u))
                            /\ ~AnyEdgeSharesMarker(cleared'[v], NextEdge(u))
    OBVIOUS
  <2>1. Step
    BY BusyMeansStep DEF vars, Resolving
  <2>2. ~DoPlan /\ ~DoExtend /\ ~DoRetry /\ ~EmitDeadlockState
    BY DEF DoPlan, DoExtend, DoRetry, EmitDeadlockState, Resolving
  <2>3. CASE TryYieldLowestRanked
    <3>1. PICK c \in WaitsForCycles : \E w \in Range(c) :
            /\ CanYield(c, w)
            /\ cleared' = [cleared EXCEPT ![w] = @ \ Releasable(w, PeerWantedEdge(c, w))]
            /\ trains' = [trains EXCEPT ![w].limit =
                              IF trains[w].last = None THEN @ ELSE trains[w].last]
      BY <2>3 DEF TryYieldLowestRanked
    <3>2. /\ CanYield(c, v)
          /\ cleared'[v] = cleared[v] \ Releasable(v, PeerWantedEdge(c, v))
          /\ \E x : trains' = [trains EXCEPT ![v].limit = x]
      BY <3>1 DEF TypeOK, TrainsOK
    <3>3. trains'[v].last = trains[v].last
      BY <3>2 DEF TypeOK, TrainsOK, TrainState
    <3>4. \A e \in cleared[v] \ cleared'[v] : To(e) # trains'[v].last
      BY <3>2, <3>3 DEF Releasable
    <3>5. PICK u \in CollectWaitingTrains :
            PeerWantedEdge(c, v) = NextEdge(u) /\ AnyEdgeSharesMarker(cleared[v], NextEdge(u))
      BY <3>2, SomebodyWantsIt DEF CanYield
    <3>6. ~AnyEdgeSharesMarker(cleared'[v], NextEdge(u))
      BY <3>2, <3>5 DEF CanYield
    <3> QED
      BY <3>4, <3>5, <3>6
  <2>4. CASE TryReverseToBreakStandoff
    <3>1. PICK c \in WaitsForCycles : \E w \in Range(c) : \E p \in Retreats(c, w) :
            /\ cleared' = [cleared EXCEPT ![w] = @ \ Range(p)]
            /\ trains' = [trains EXCEPT ![w].last = From(p[Len(p)]), ![w].limit = From(p[Len(p)])]
      BY <2>4 DEF TryReverseToBreakStandoff
    <3>2. PICK p \in Retreats(c, v) :
            /\ cleared'[v] = cleared[v] \ Range(p)
            /\ trains' = [trains EXCEPT ![v].last = From(p[Len(p)]), ![v].limit = From(p[Len(p)])]
      BY <3>1 DEF TypeOK, TrainsOK
    <3>3. trains'[v].last = From(p[Len(p)])
      BY <3>2 DEF TypeOK, TrainsOK, TrainState
    <3>4. \A e \in cleared[v] \ cleared'[v] : To(e) # trains'[v].last
      BY <3>2, <3>3, RetreatClearsTheHead
    <3>5. /\ Blocked(c, v) # {}
          /\ ~AnyEdgeSharesMarker(cleared[v] \ Range(p), PeerWantedEdge(c, v))
      BY <3>2, RetreatClearsTheHead DEF Retreats
    <3>6. PICK u \in CollectWaitingTrains :
            PeerWantedEdge(c, v) = NextEdge(u) /\ AnyEdgeSharesMarker(cleared[v], NextEdge(u))
      BY <3>5, SomebodyWantsIt
    <3> QED
      BY <3>2, <3>4, <3>5, <3>6
  <2> QED
    BY <2>1, <2>2, <2>3, <2>4 DEF Step
<1> QED
  BY <1>1, TypeCorrect, PTL DEF Safety, ResolutionVacates

(* All that is proved holds of the scheduler proper, whose handlers end.   *)
THEOREM Guarantees ==
    Spec => /\ []TypeOK /\ []Exclusive /\ []PassLeavesNobodyBehind
            /\ ImplementsClearance
            /\ NoGrantAgainstDenial /\ NoGrantAcrossGap
            /\ HeldKeepsItsGround /\ SwitchNotThrownUnderPeer /\ ResolutionVacates
  BY TypeCorrect, Exclusivity, Implementation, DenialBinds, GrantsLeaveNoGap,
     SuspicionStaysGuarded, PointsAreThrownForOne, NobodyIsLeftBehind, ResolutionIsSafe,
     PTL DEF Spec
=============================================================================
