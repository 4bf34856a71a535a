--------------------------- MODULE DiscoveryProofs ---------------------------
(***************************************************************************)
(* However many trains explore, and whoever lifts, deletes or restarts     *)
(* them, the server learns no edge that no train has crossed, leaves no    *)
(* train to run that it does not watch, and keeps nothing on the broker    *)
(* that it does not know.                                                  *)
(***************************************************************************)
EXTENDS Discovery, SequenceTheorems, TLAPS

(* The panel shows whether there is a session; one that waits for a train  *)
(* has sent none out, and any other has its train.                         *)
SessionShown ==
    /\ session = None <=> shown = "idle"
    /\ session # None =>
          IF session.status = "waiting_for_train" THEN ~session.exploring
          ELSE session.train \in Train

(* Where a train may get from p by ways A if it reads unbound tags at G:   *)
(* Onward, of any history.                                                 *)
Reach(p, A, G) ==
    {q \in Place : \A S \in SUBSET Place :
        p \in S /\ (\A arc \in A : arc[1] \in S \cap (G \cup {p}) => arc[2] \in S) => q \in S}

(* A train that was seen at a marker has passed none since that was bound  *)
(* when its tag was read; the tag it has just read may have to be told.    *)
UnderWay ==
    \A t \in Train : last[t] # None =>
        /\ at[t] \in Reach(last[t], arcs, gaps)
        /\ fromTrain[t] = <<>> => at[t] \in gaps \cup {last[t]}

LearnInv ==
    /\ TypeOK /\ SessionShown /\ NobodyExploresUnwatched /\ UnderWay /\ LearnedIsTravelled
    /\ RetainedIsKnown

-----------------------------------------------------------------------------
(* Sequences.                                                              *)

Commands == {"begin_exploration", "revoke_clearance"}

(* What a train will be doing that explores, or not, with commands waiting. *)
Will(commands, explores) ==
    IF commands = <<>> THEN explores ELSE Last(commands) = "begin_exploration"

(* It does in the end what it was sent last.                               *)
LEMMA Sent ==
    ASSUME NEW q \in Seq(Commands), NEW c \in Commands
    PROVE  /\ q \o <<c>> \in Seq(Commands) /\ Len(q \o <<c>>) = Len(q) + 1
           /\ q \o <<>> = q /\ Append(q, c) = q \o <<c>>
           /\ \A b : Will(q \o <<c>>, b) <=> c = "begin_exploration"
<1>1. q \o <<c>> = Append(q, c) /\ q \o <<>> = q
  OBVIOUS
<1>2. /\ Append(q, c) \in Seq(Commands) /\ Len(Append(q, c)) = Len(q) + 1
      /\ Append(q, c)[Len(q) + 1] = c /\ Append(q, c) # <<>>
  BY AppendProperties
<1> QED
  BY <1>1, <1>2 DEF Will, Last

(* What it obeys first makes no difference, unless it is the last.         *)
LEMMA Heard ==
    ASSUME NEW q \in Seq(Commands), q # <<>>, NEW b
    PROVE  /\ Head(q) \in Commands /\ Tail(q) \in Seq(Commands) /\ Len(Tail(q)) = Len(q) - 1
           /\ Will(Tail(q), Head(q) = "begin_exploration") <=> Will(q, b)
           /\ Last(q) \in Range(q)
<1>1. /\ Len(q) \in Nat /\ Len(q) > 0 /\ Head(q) = q[1] /\ DOMAIN q = 1..Len(q)
      /\ Head(q) \in Commands /\ Tail(q) \in Seq(Commands) /\ Len(Tail(q)) = Len(q) - 1
      /\ \A i \in 1..Len(q) - 1 : Tail(q)[i] = q[i + 1]
  BY HeadTailProperties, EmptySeq
<1>2. CASE Tail(q) = <<>>
  <2>1. Len(q) = 1
    <3> DEFINE n == Len(q)
               m == Len(Tail(q))
    <3>1. m = 0
      BY <1>2, EmptySeq
    <3>2. n \in Nat /\ m = n - 1
      BY <1>1
    <3> HIDE DEF n, m
    <3>3. n = 1
      BY <3>1, <3>2
    <3> QED
      BY <3>3 DEF n
  <2> QED
    BY <1>1, <1>2, <2>1 DEF Will, Last, Range
<1>3. CASE Tail(q) # <<>>
  <2>1. Len(q) - 1 \in 1..Len(q) - 1 /\ (Len(q) - 1) + 1 = Len(q)
    BY <1>1, <1>3, EmptySeq
  <2>2. Tail(q)[Len(Tail(q))] = q[Len(q)]
    BY <1>1, <2>1
  <2>3. Len(q) \in DOMAIN q
    BY <1>1
  <2> QED
    BY <1>1, <1>3, <2>2, <2>3 DEF Will, Last, Range
<1> QED
  BY <1>2, <1>3

(* A sequence without its i-th element.                                    *)
LEMMA RemoveAtProperties ==
    ASSUME NEW S, NEW s \in Seq(S), NEW i \in 1..Len(s)
    PROVE  /\ RemoveAt(s, i) \in Seq(S) /\ Len(RemoveAt(s, i)) = Len(s) - 1
           /\ \A k \in 1..(Len(s) - 1) : RemoveAt(s, i)[k] = IF k < i THEN s[k] ELSE s[k + 1]
<1> DEFINE before == SubSeq(s, 1, i - 1)
           after == SubSeq(s, i + 1, Len(s))
<1>1. before \in Seq(S) /\ Len(before) = i - 1 /\ \A k \in 1..(i - 1) : before[k] = s[k]
  OBVIOUS
<1>2. /\ after \in Seq(S) /\ Len(after) = Len(s) - i
      /\ \A k \in 1..(Len(s) - i) : after[k] = s[k + i]
  OBVIOUS
<1>3. RemoveAt(s, i) = before \o after
  BY DEF RemoveAt
<1> HIDE DEF before, after
<1>4. Len(s) \in Nat /\ i \in Int /\ Len(before) + Len(after) = Len(s) - 1
  BY <1>1, <1>2
<1>5. /\ before \o after \in Seq(S) /\ Len(before \o after) = Len(before) + Len(after)
      /\ \A k \in 1..(Len(before) + Len(after)) :
            (before \o after)[k] = IF k <= Len(before) THEN before[k] ELSE after[k - Len(before)]
  BY <1>1, <1>2, ConcatProperties
<1>6. ASSUME NEW k \in 1..(Len(s) - 1)
      PROVE  (before \o after)[k] = IF k < i THEN s[k] ELSE s[k + 1]
  <2>1. CASE k < i
    BY <1>1, <1>4, <1>5, <2>1
  <2>2. CASE k >= i
    <3>1. k \in 1..(Len(before) + Len(after)) /\ ~(k <= Len(before)) /\ Len(before) = i - 1
      BY <1>1, <1>4, <2>2
    <3>2. (before \o after)[k] = after[k - Len(before)]
      BY <1>5, <3>1
    <3>3. (k - Len(before)) \in 1..(Len(s) - i) /\ (k - Len(before)) + i = k + 1
      BY <1>4, <2>2, <3>1
    <3>4. after[k - Len(before)] = s[(k - Len(before)) + i]
      BY <1>2, <3>3
    <3> QED
      BY <2>2, <3>2, <3>3, <3>4
  <2> QED
    BY <1>4, <2>1, <2>2
<1> QED
  BY <1>3, <1>4, <1>5, <1>6

(* A train is taken out of the order: the others are still there once.     *)
LEMMA LeavesOrder ==
    ASSUME NEW q \in Seq(Train), IsInjective(q), NEW t \in Range(q)
    PROVE  LET left == RemoveAt(q, CHOOSE i \in DOMAIN q : q[i] = t)
           IN  left \in Seq(Train) /\ IsInjective(left) /\ Range(left) = Range(q) \ {t}
<1> DEFINE i == CHOOSE k \in DOMAIN q : q[k] = t
           left == RemoveAt(q, i)
           place(k) == IF k < i THEN k ELSE k + 1
<1>1. Len(q) \in Nat /\ DOMAIN q = 1..Len(q) /\ i \in 1..Len(q)
  BY DEF Range
<1> HIDE DEF i
<1>2. /\ left \in Seq(Train) /\ Len(left) = Len(q) - 1
      /\ \A k \in 1..(Len(q) - 1) : left[k] = IF k < i THEN q[k] ELSE q[k + 1]
  BY <1>1, RemoveAtProperties
<1> HIDE DEF left
<1>3. DOMAIN left = 1..(Len(q) - 1)
  BY <1>2
<1>4. ASSUME NEW k \in DOMAIN left
      PROVE  place(k) \in DOMAIN q /\ left[k] = q[place(k)]
  <2>1. place(k) \in 1..Len(q)
    BY <1>1, <1>3
  <2> QED
    BY <1>1, <1>2, <1>3, <2>1
<1>5. IsInjective(left)
  <2> SUFFICES ASSUME NEW k \in DOMAIN left, NEW l \in DOMAIN left, left[k] = left[l]
               PROVE  k = l
    BY DEF IsInjective
  <2>1. q[place(k)] = q[place(l)]
    BY <1>4
  <2>2. place(k) = place(l)
    BY <1>4, <2>1 DEF IsInjective
  <2>3. k \in Int /\ l \in Int /\ i \in Int
    BY <1>1, <1>3
  <2> QED
    BY <2>2, <2>3
<1>6. Range(left) = Range(q) \ {t}
  <2>1. q[i] = t
    BY DEF i, Range
  <2>2. ASSUME NEW k \in DOMAIN left
        PROVE  left[k] \in Range(q) \ {t}
    <3>1. place(k) \in DOMAIN q /\ left[k] = q[place(k)] /\ place(k) # i
      <4>1. k \in Int /\ i \in Int
        BY <1>1, <1>3
      <4> QED
        BY <1>4, <4>1
    <3> QED
      BY <1>1, <2>1, <3>1 DEF Range, IsInjective
  <2>3. ASSUME NEW l \in DOMAIN q, q[l] # t
        PROVE  q[l] \in Range(left)
    <3> DEFINE k == IF l < i THEN l ELSE l - 1
    <3>1. k \in 1..(Len(q) - 1) /\ place(k) = l
      <4>1. l \in 1..Len(q) /\ l # i /\ Len(q) \in Nat /\ i \in 1..Len(q)
        BY <1>1, <2>1, <2>3
      <4> QED
        BY <4>1
    <3> HIDE DEF k
    <3>2. k \in DOMAIN left /\ left[k] = q[l]
      BY <1>3, <1>4, <3>1
    <3> QED
      BY <3>2 DEF Range
  <2> QED
    BY <2>2, <2>3 DEF Range
<1> QED
  BY <1>2, <1>5, <1>6 DEF left, i

-----------------------------------------------------------------------------
(* What is learned.                                                        *)

(* Whoever can get on as far as x can get to q, if some train went there   *)
(* from x and passed nothing that was bound; history is not lost.          *)
LEMMA GettingOn ==
    ASSUME NEW p \in Place, NEW A, NEW B, A \subseteq B, NEW G, NEW H, G \subseteq H
    PROVE  /\ p \in Reach(p, B, H) /\ Reach(p, A, G) \subseteq Reach(p, B, H)
           /\ \A x \in Reach(p, A, G), q \in Place :
                 x \in H \cup {p} /\ <<x, q>> \in B => q \in Reach(p, B, H)
<1> DEFINE Closes(S, C, K) == \A arc \in C : arc[1] \in S \cap (K \cup {p}) => arc[2] \in S
<1>1. p \in Reach(p, B, H)
  BY DEF Reach
<1>2. Reach(p, A, G) \subseteq Reach(p, B, H)
  <2>1. ASSUME NEW S \in SUBSET Place, Closes(S, B, H)
        PROVE  Closes(S, A, G)
    BY <2>1
  <2> QED
    BY <2>1 DEF Reach
<1>3. ASSUME NEW x \in Reach(p, A, G), NEW q \in Place, x \in H \cup {p}, <<x, q>> \in B
      PROVE  q \in Reach(p, B, H)
  <2>1. ASSUME NEW S \in SUBSET Place, p \in S, Closes(S, B, H)
        PROVE  q \in S
    <3>1. x \in S
      BY <1>2, <2>1 DEF Reach
    <3>2. <<x, q>>[1] = x /\ <<x, q>>[2] = q
      OBVIOUS
    <3> QED
      BY <1>3, <2>1, <3>1, <3>2
  <2> QED
    BY <2>1 DEF Reach
<1> QED
  BY <1>1, <1>2, <1>3

(* The edges learned, of any history. *)
Travelled(learned, A, G) == \A e \in learned : e[2] \in Reach(e[1], A, G)

(* So LearnedIsTravelled, now and next.                                    *)
LEMMA TravelledDefinition ==
    /\ LearnedIsTravelled <=> Travelled(Edges, arcs, gaps)
    /\ LearnedIsTravelled' <=> Travelled(Edges', arcs', gaps')
BY DEF LearnedIsTravelled, Travelled, Onward, Closed, Reach

(* History is not lost. *)
Remembered == arcs \subseteq arcs' /\ gaps \subseteq gaps'

(* What was so of trains that nothing was heard of stays so,               *)
LEMMA OthersUnderWay ==
    ASSUME TypeOK, UnderWay, Remembered, NEW t \in Train, last'[t] # None,
           at'[t] = at[t], fromTrain'[t] = fromTrain[t], last'[t] = last[t]
    PROVE  /\ at'[t] \in Reach(last'[t], arcs', gaps')
           /\ fromTrain'[t] = <<>> => at'[t] \in gaps' \cup {last'[t]}
<1>1. last[t] \in Place /\ last[t] # None
  BY DEF TypeOK
<1>2. at[t] \in Reach(last[t], arcs, gaps) /\ (fromTrain[t] = <<>> => at[t] \in gaps \cup {last[t]})
  BY <1>1 DEF UnderWay
<1>3. Reach(last[t], arcs, gaps) \subseteq Reach(last[t], arcs', gaps')
  BY <1>1, GettingOn DEF Remembered
<1> QED
  BY <1>2, <1>3 DEF Remembered

(* and what was learned was travelled.                                     *)
LEMMA OldEdgesTravelled ==
    ASSUME TypeOK, LearnedIsTravelled, Remembered
    PROVE  Travelled(Edges, arcs', gaps')
<1> SUFFICES ASSUME NEW e \in Edges
             PROVE  e[2] \in Reach(e[1], arcs', gaps')
  BY DEF Travelled
<1>1. e[1] \in Place
  BY DEF TypeOK
<1>2. Reach(e[1], arcs, gaps) \subseteq Reach(e[1], arcs', gaps')
  BY <1>1, GettingOn DEF Remembered
<1>3. e[2] \in Reach(e[1], arcs, gaps)
  BY TravelledDefinition DEF Travelled
<1> QED
  BY <1>2, <1>3

(* The trains read no tag, and the server learns nothing.                  *)
LEMMA NothingLearned ==
    ASSUME LearnInv, UNCHANGED <<at, fromTrain, last, count, arcs, gaps>>
    PROVE  UnderWay' /\ LearnedIsTravelled'
<1>1. UnderWay'
  BY DEF LearnInv, UnderWay
<1>2. Travelled(Edges', arcs', gaps')
  BY TravelledDefinition DEF LearnInv, Edges
<1> QED
  BY <1>1, <1>2, TravelledDefinition

(* A train arrives at a place.                                             *)
LEMMA ArrivalLearns ==
    ASSUME LearnInv, NEW t \in Train, NEW q \in Place, Arrive(t, q)
    PROVE  UnderWay' /\ LearnedIsTravelled'
<1>1. /\ fromTrain[t] = <<>> /\ at' = [at EXCEPT ![t] = q]
      /\ fromTrain' = [fromTrain EXCEPT ![t] = <<q>>]
      /\ arcs' = IF at[t] = None THEN arcs ELSE arcs \cup {<<at[t], q>>}
      /\ UNCHANGED <<last, gaps, count>>
  <2>1. fromTrain[t] = <<>> => Append(fromTrain[t], q) = <<q>>
    OBVIOUS
  <2> QED
    BY <2>1 DEF Arrive, layoutVars
<1>2. Remembered
  BY <1>1 DEF Remembered
<1>3. at \in [Train -> Place \cup {None}] /\ fromTrain \in [Train -> Seq(Place)]
  BY DEF LearnInv, TypeOK
<1>4. last[t] # None => q \in Reach(last[t], arcs', gaps')
  <2> SUFFICES ASSUME last[t] # None
               PROVE  q \in Reach(last[t], arcs', gaps')
    OBVIOUS
  <2>1. last[t] \in Place
    BY DEF LearnInv, TypeOK
  <2>2. at[t] \in Reach(last[t], arcs, gaps) /\ at[t] \in gaps \cup {last[t]}
    BY <1>1 DEF LearnInv, UnderWay
  <2>3. at[t] \in Place /\ at[t] # None
    BY <2>2, TableAssumption DEF Reach
  <2>4. <<at[t], q>> \in arcs' /\ arcs \subseteq arcs' /\ gaps \subseteq gaps' /\ gaps' = gaps
    BY <1>1, <2>3
  <2> QED
    BY <2>1, <2>2, <2>4, GettingOn
<1>5. ASSUME NEW u \in Train, last'[u] # None
      PROVE  /\ at'[u] \in Reach(last'[u], arcs', gaps')
             /\ fromTrain'[u] = <<>> => at'[u] \in gaps' \cup {last'[u]}
  <2>1. CASE u = t
    <3>1. at'[t] = q /\ fromTrain'[t] = <<q>> /\ <<q>> # <<>> /\ last' = last
      BY <1>1, <1>3
    <3> QED
      BY <1>4, <1>5, <2>1, <3>1
  <2>2. CASE u # t
    <3>1. at'[u] = at[u] /\ fromTrain'[u] = fromTrain[u] /\ last'[u] = last[u]
      BY <1>1, <1>3, <2>2
    <3> QED
      BY <1>2, <1>5, <3>1, OthersUnderWay DEF LearnInv
  <2> QED
    BY <2>1, <2>2
<1>6. UnderWay'
  BY <1>5 DEF UnderWay
<1>7. Travelled(Edges', arcs', gaps')
  BY <1>1, <1>2, OldEdgesTravelled DEF LearnInv, Edges
<1> QED
  BY <1>6, <1>7, TravelledDefinition

(* An edge is recorded: it is counted, and confirmed when it is due.       *)
LEMMA TraversalCounts ==
    ASSUME TypeOK, NEW p \in Place, NEW q \in Place, RecordTraversal(p, q)
    PROVE  /\ Edges' \subseteq Edges \cup {<<p, q>>}
           /\ \A e \in Edges' : e \in Place \X Place /\ count'[e] \in 1..Confirm
           /\ inferred' = {e \in Edges' : count'[e] < Confirm}
           /\ drawn = Graph => drawn' = <<markers, Edges', inferred'>>
<1> DEFINE f == <<p, q>>
           n == IF f \in Edges THEN Min({Confirm, count[f] + 1}) ELSE 1
<1>1. /\ \A e \in Edges : e \in Place \X Place /\ count[e] \in 1..Confirm
      /\ inferred = {e \in Edges : count[e] < Confirm}
      /\ Confirm \in Nat /\ Confirm > 0
  BY TableAssumption DEF TypeOK
<1>2. ASSUME f \in Edges
      PROVE  n \in 1..Confirm
  <2> DEFINE S == {Confirm, count[f] + 1}
  <2>1. \E x \in S : \A y \in S : x =< y
    <3>1. Confirm \in Int /\ count[f] + 1 \in Int
      BY <1>1, <1>2
    <3> QED
      BY <3>1
  <2>2. Min(S) \in S /\ \A y \in S : Min(S) =< y
    BY <2>1 DEF Min
  <2> QED
    BY <1>1, <1>2, <2>2
<1>3. n \in 1..Confirm
  BY <1>1, <1>2
<1>4. f \notin Edges => n = 1
  OBVIOUS
<1>5. CASE {p, q} \subseteq markers
  <2>1. /\ count' = [x \in Edges \cup {f} |-> IF x = f THEN n ELSE count[x]]
        /\ inferred' = IF OftenEnough(n) THEN inferred \ {f}
                       ELSE IF f \in Edges THEN inferred ELSE inferred \cup {f}
        /\ drawn' = IF f \notin Edges \/ (f \in inferred /\ OftenEnough(n))
                    THEN <<markers, Edges', inferred'>> ELSE drawn
    BY <1>5 DEF RecordTraversal
  <2> HIDE DEF n
  <2>2. Edges' = Edges \cup {f} /\ count'[f] = n /\ \A e \in Edges : e # f => count'[e] = count[e]
    BY <2>1 DEF Edges
  <2>3. f \in Place \X Place
    OBVIOUS
  <2> HIDE DEF f
  <2>4. drawn = Graph => drawn' = <<markers, Edges', inferred'>>
    <3>1. CASE f \notin Edges \/ (f \in inferred /\ OftenEnough(n))
      BY <2>1, <3>1
    <3>2. CASE ~(f \notin Edges \/ (f \in inferred /\ OftenEnough(n)))
      <4>1. Edges' = Edges /\ inferred' = inferred /\ drawn' = drawn
        BY <2>1, <2>2, <3>2
      <4> QED
        BY <4>1 DEF Graph
    <3> QED
      BY <3>1, <3>2
  <2>5. \A e \in Edges' : e \in Place \X Place /\ count'[e] \in 1..Confirm
    BY <1>1, <1>3, <2>2, <2>3
  <2>6. CASE n >= Confirm
    <3>1. inferred' = inferred \ {f} /\ ~(n < Confirm)
      BY <1>1, <1>3, <2>1, <2>6 DEF OftenEnough
    <3> QED
      BY <1>1, <2>2, <2>4, <2>5, <3>1 DEF f
  <2>7. CASE ~(n >= Confirm)
    <3>1. n < Confirm /\ inferred' = IF f \in Edges THEN inferred ELSE inferred \cup {f}
      BY <1>1, <1>3, <2>1, <2>7 DEF OftenEnough
    <3>2. f \in Edges => count[f] < Confirm
      <4> SUFFICES ASSUME f \in Edges, ~(count[f] < Confirm)
                   PROVE  FALSE
        BY <1>1
      <4> DEFINE S == {Confirm, count[f] + 1}
      <4>1. \E x \in S : \A y \in S : x =< y
        <5>1. Confirm \in Int /\ count[f] + 1 \in Int
          BY <1>1
        <5> QED
          BY <5>1
      <4>2. Min(S) \in S
        BY <4>1 DEF Min
      <4>3. n = Min(S)
        BY DEF n
      <4> QED
        BY <1>1, <3>1, <4>2, <4>3
    <3>3. \A e \in Edges' : e \in inferred' <=> count'[e] < Confirm
      BY <1>1, <2>2, <3>1, <3>2
    <3>4. inferred' \subseteq Edges'
      BY <1>1, <2>2, <3>1
    <3>5. inferred' = {e \in Edges' : count'[e] < Confirm}
      BY <3>3, <3>4
    <3> QED
      BY <2>2, <2>4, <2>5, <3>5 DEF f
  <2> QED
    BY <2>2, <2>4, <2>5, <2>6, <2>7 DEF f
<1>6. CASE ~({p, q} \subseteq markers)
  <2>1. UNCHANGED <<count, inferred, drawn>>
    BY <1>6 DEF RecordTraversal
  <2> QED
    BY <1>1, <2>1 DEF Edges, Graph
<1> QED
  BY <1>5, <1>6

(* A tag is read: what is learned of it some train did.                    *)
LEMMA ObservationLearns ==
    ASSUME LearnInv, NEW t \in Train, fromTrain[t] # <<>>,
           fromTrain' = [fromTrain EXCEPT ![t] = Tail(@)],
           TagObserved(t, Head(fromTrain[t])), UNCHANGED <<at, arcs>>
    PROVE  /\ UnderWay' /\ LearnedIsTravelled' /\ gaps' \subseteq Place
           /\ last' \in [Train -> Place \cup {None}]
           /\ \A e \in Edges' : e \in Place \X Place /\ count'[e] \in 1..Confirm
           /\ inferred' = {e \in Edges' : count'[e] < Confirm}
           /\ \A u \in Train : last[u] # None => last'[u] # None
           /\ drawn' = <<markers, Edges', inferred'>>
<1> DEFINE q == at[t]
<1>1. fromTrain[t] = <<q>> /\ q \in Place
  <2>1. fromTrain[t] = <<q>> /\ fromTrain[t] \in Seq(Place)
    BY DEF LearnInv, TypeOK
  <2> QED
    BY <2>1
<1>2. Head(fromTrain[t]) = q /\ fromTrain' = [fromTrain EXCEPT ![t] = <<>>]
  <2>1. Head(<<q>>) = q /\ Tail(<<q>>) = <<>>
    OBVIOUS
  <2> QED
    BY <1>1, <2>1
<1>3. /\ last \in [Train -> Place \cup {None}] /\ fromTrain \in [Train -> Seq(Place)]
      /\ gaps \subseteq Place /\ None \notin Place
      /\ \A e \in Edges : e \in Place \X Place /\ count[e] \in 1..Confirm
      /\ inferred = {e \in Edges : count[e] < Confirm} /\ drawn = Graph
  BY TableAssumption DEF LearnInv, TypeOK, RetainedIsKnown
<1>4. last[t] # None => q \in Reach(last[t], arcs, gaps)
  BY DEF LearnInv, UnderWay
<1> HIDE DEF q
<1>5. CASE q \in bound /\ t \in Range(order)
  <2>1. /\ last' = [last EXCEPT ![t] = q] /\ gaps' = gaps
        /\ IF last[t] \in {None, q} THEN UNCHANGED <<count, inferred, drawn>>
           ELSE RecordTraversal(last[t], q)
    BY <1>2, <1>5 DEF TagObserved, PreviousMarker
  <2>2. Remembered
    BY <2>1 DEF Remembered
  <2>3. /\ \A e \in Edges' : e \in Edges \/ (last[t] \in Place /\ e = <<last[t], q>>)
        /\ \A e \in Edges' : e \in Place \X Place /\ count'[e] \in 1..Confirm
        /\ inferred' = {e \in Edges' : count'[e] < Confirm}
        /\ drawn' = <<markers, Edges', inferred'>>
    <3>1. CASE last[t] \in {None, q}
      BY <1>3, <2>1, <3>1 DEF Edges, Graph
    <3>2. CASE last[t] \notin {None, q}
      <4>1. last[t] \in Place /\ RecordTraversal(last[t], q) /\ TypeOK
        BY <1>3, <2>1, <3>2 DEF LearnInv
      <4> QED
        BY <1>1, <1>3, <4>1, TraversalCounts
    <3> QED
      BY <3>1, <3>2
  <2>4. Travelled(Edges', arcs', gaps')
    <3> SUFFICES ASSUME NEW e \in Edges'
                 PROVE  e[2] \in Reach(e[1], arcs', gaps')
      BY DEF Travelled
    <3>1. CASE e \in Edges
      BY <2>2, <3>1, OldEdgesTravelled DEF LearnInv, Travelled
    <3>2. CASE last[t] \in Place /\ e = <<last[t], q>>
      <4>1. last[t] # None /\ e[1] = last[t] /\ e[2] = q
        BY <1>3, <3>2
      <4> QED
        BY <1>4, <2>1, <4>1
    <3> QED
      BY <2>3, <3>1, <3>2
  <2>5. ASSUME NEW u \in Train, last'[u] # None
        PROVE  /\ at'[u] \in Reach(last'[u], arcs', gaps')
               /\ fromTrain'[u] = <<>> => at'[u] \in gaps' \cup {last'[u]}
    <3>1. CASE u = t
      <4>1. last'[t] = q /\ at'[t] = q
        BY <1>3, <2>1 DEF q
      <4>2. q \in Reach(q, arcs', gaps')
        BY <1>1, GettingOn
      <4> QED
        BY <3>1, <4>1, <4>2
    <3>2. CASE u # t
      <4>1. at'[u] = at[u] /\ fromTrain'[u] = fromTrain[u] /\ last'[u] = last[u]
        BY <1>2, <1>3, <2>1, <3>2
      <4> QED
        BY <2>2, <2>5, <4>1, OthersUnderWay DEF LearnInv
    <3> QED
      BY <3>1, <3>2
  <2>6. UnderWay'
    BY <2>5 DEF UnderWay
  <2>7. last' \in [Train -> Place \cup {None}] /\ \A u \in Train : last[u] # None => last'[u] # None
    BY <1>1, <1>3, <2>1
  <2> QED
    BY <1>3, <2>1, <2>3, <2>4, <2>6, <2>7, TravelledDefinition
<1>6. CASE ~(q \in bound /\ t \in Range(order))
  <2>1. /\ gaps' = IF last[t] = None THEN gaps ELSE gaps \cup {q}
        /\ UNCHANGED <<last, count, inferred, drawn>>
    BY <1>2, <1>6 DEF TagObserved
  <2>2. Remembered
    BY <2>1 DEF Remembered
  <2>3. Edges' = Edges
    BY <2>1 DEF Edges
  <2>4. Travelled(Edges', arcs', gaps')
    BY <2>2, <2>3, OldEdgesTravelled DEF LearnInv
  <2>5. ASSUME NEW u \in Train, last'[u] # None
        PROVE  /\ at'[u] \in Reach(last'[u], arcs', gaps')
               /\ fromTrain'[u] = <<>> => at'[u] \in gaps' \cup {last'[u]}
    <3>1. CASE u = t
      <4>1. last[t] # None /\ last'[t] = last[t] /\ at'[t] = q /\ q \in gaps' /\ last[t] \in Place
        BY <1>3, <2>1, <2>5, <3>1 DEF q
      <4>2. Reach(last[t], arcs, gaps) \subseteq Reach(last[t], arcs', gaps')
        BY <2>2, <4>1, GettingOn DEF Remembered
      <4> QED
        BY <1>4, <3>1, <4>1, <4>2
    <3>2. CASE u # t
      <4>1. at'[u] = at[u] /\ fromTrain'[u] = fromTrain[u] /\ last'[u] = last[u]
        BY <1>2, <1>3, <2>1, <3>2
      <4> QED
        BY <2>2, <2>5, <4>1, OthersUnderWay DEF LearnInv
    <3> QED
      BY <3>1, <3>2
  <2>6. UnderWay'
    BY <2>5 DEF UnderWay
  <2>7. gaps' \subseteq Place /\ drawn' = <<markers, Edges', inferred'>>
    BY <1>1, <1>3, <2>1, <2>3 DEF Graph
  <2> QED
    BY <1>3, <2>1, <2>3, <2>4, <2>6, <2>7, TravelledDefinition
<1> QED
  BY <1>5, <1>6

-----------------------------------------------------------------------------
(* What is watched.                                                        *)

(* A session whose train is known: it drives, has paused, or is complete. *)
AtWork(s) == s \in Session /\ s.train \in Train /\ s.status # "waiting_for_train"

(* reviewProgress sets out to explore, or goes on, or revokes: the session *)
(* says which.                                                             *)
LEMMA ReviewedSaysSo ==
    ASSUME NEW s, AtWork(s), NEW m \in Place, NEW known, NEW map
    PROVE  LET r == Reviewed(s, m, known, map)
           IN  /\ AtWork(r.session) /\ r.session.train = s.train
               /\ \/ r.told = <<"revoke_clearance">> /\ ~r.session.exploring
                  \/ r.told = <<"begin_exploration">> /\ r.session.exploring
                  \/ r.told = <<>> /\ r.session.exploring /\ s.exploring
<1> DEFINE seen == Seen(s, m)
<1>1. s \in Session /\ s.train \in Train /\ s.status # "waiting_for_train"
  BY DEF AtWork
<1>2. /\ seen \in Session /\ seen.train = s.train /\ seen.status = s.status
      /\ seen.exploring = s.exploring
  <2> DEFINE visited == s.visited \cup {m}
             start == IF s.start = None THEN m ELSE s.start
             edges == IF s.last \in {None, m} THEN s.edges ELSE s.edges \cup {<<s.last, m>>}
  <2>1. visited \in SUBSET Place /\ start \in Place \cup {None} /\ edges \in SUBSET (Place \X Place)
    BY <1>1 DEF Session
  <2>2. seen = [s EXCEPT !.visited = visited, !.start = start, !.edges = edges, !.last = m]
    BY DEF Seen
  <2> HIDE DEF visited, start, edges, seen
  <2> QED
    BY <1>1, <2>1, <2>2 DEF Session
<1> HIDE DEF seen
<1>3. ASSUME NEW status \in {"paused_terminus", "complete"}
      PROVE  LET ended == [seen EXCEPT !.exploring = FALSE, !.status = status]
             IN  AtWork(ended) /\ ended.train = s.train /\ ~ended.exploring
  BY <1>1, <1>2 DEF AtWork, Session, Statuses
<1>4. LET goes == [seen EXCEPT !.exploring = TRUE]
      IN  AtWork(goes) /\ goes.train = s.train /\ goes.exploring
  BY <1>1, <1>2 DEF AtWork, Session
<1>5. CASE m \in map \cap Terminus
  BY <1>3, <1>5 DEF Reviewed, seen
<1>6. CASE m \notin map \cap Terminus /\ ReachableGraphFullyTraversed(seen, m, known)
  BY <1>3, <1>6 DEF Reviewed, seen
<1>7. CASE m \notin map \cap Terminus /\ ~ReachableGraphFullyTraversed(seen, m, known)
  <2>1. seen.exploring \in BOOLEAN
    BY <1>2 DEF Session
  <2> QED
    BY <1>2, <1>4, <1>7, <2>1 DEF Reviewed, seen
<1> QED
  BY <1>5, <1>6, <1>7

(* Only the train of s explores, or will, and s knows of it. *)
WatchedBy(s) ==
    \A u \in Train \ orphans :
        Will(toTrain[u], exploring[u]) => s # None /\ s.train = u /\ s.exploring

(* That is what NobodyExploresUnwatched says of the session, now and next. *)
LEMMA WatchedDefinition ==
    /\ NobodyExploresUnwatched <=> WatchedBy(session)
    /\ NobodyExploresUnwatched' <=>
          \A u \in Train \ orphans' : Will(toTrain'[u], exploring'[u]) =>
              session' # None /\ session'.train = u /\ session'.exploring
BY DEF NobodyExploresUnwatched, WatchedBy, WillExplore, Will

(* The variables of LearnMode keep their types, and nobody is unwatched. *)
StillWatched ==
    /\ session' \in Session \cup {None} /\ shown' \in Statuses \cup {"idle"}
    /\ toTrain' \in [Train -> Seq(Commands)] /\ \A t \in Train : Len(toTrain'[t]) <= Room
    /\ SessionShown' /\ NobodyExploresUnwatched'

(* Its train is reviewed, and told what that comes to.                     *)
LEMMA ReviewWatches ==
    ASSUME TypeOK, NEW s, AtWork(s), WatchedBy(s), \A u \in Train : Len(toTrain[u]) < Room,
           NEW lm \in [Train -> Place \cup {None}], NEW known, NEW map,
           ReviewProgress(s, lm, known, map), lm[s.train] = None => shown # "idle",
           UNCHANGED <<exploring, orphans>>
    PROVE  StillWatched
<1>1. /\ s \in Session /\ s.train \in Train /\ s.status # "waiting_for_train" /\ s # None
      /\ toTrain \in [Train -> Seq(Commands)] /\ Room \in Nat /\ None \notin Session
      /\ shown \in Statuses \cup {"idle"} /\ "idle" \notin Statuses
      /\ \A u \in Train : Len(toTrain[u]) \in Nat /\ Len(toTrain[u]) + 1 <= Room
  <2>1. toTrain \in [Train -> Seq(Commands)]
    BY DEF TypeOK, Commands
  <2>2. \A u \in Train : Len(toTrain[u]) \in Nat /\ Len(toTrain[u]) + 1 <= Room
    BY <2>1, TableAssumption
  <2> QED
    BY <2>1, <2>2, TableAssumption DEF AtWork, TypeOK, Statuses
<1>2. CASE lm[s.train] = None
  <2>1. session' = s /\ UNCHANGED <<toTrain, shown>>
    BY <1>2 DEF ReviewProgress
  <2>2. NobodyExploresUnwatched'
    BY <2>1, WatchedDefinition DEF WatchedBy
  <2>3. SessionShown'
    BY <1>1, <1>2, <2>1 DEF SessionShown
  <2> QED
    BY <1>1, <2>1, <2>2, <2>3 DEF StillWatched
<1>3. CASE lm[s.train] # None
  <2> DEFINE r == Reviewed(s, lm[s.train], known, map)
             t == s.train
  <2>1. lm[s.train] \in Place
    BY <1>1, <1>3
  <2>2. /\ session' = r.session /\ shown' = r.session.status
        /\ toTrain' = [toTrain EXCEPT ![t] = toTrain[t] \o r.told]
    BY <1>3 DEF ReviewProgress
  <2>3. /\ AtWork(r.session) /\ r.session.train = t
        /\ \/ r.told = <<"revoke_clearance">> /\ ~r.session.exploring
           \/ r.told = <<"begin_exploration">> /\ r.session.exploring
           \/ r.told = <<>> /\ r.session.exploring /\ s.exploring
    BY <2>1, ReviewedSaysSo
  <2> HIDE DEF r
  <2>4. r.session \in Session /\ r.session # None /\ r.session.status \in Statuses
    BY <1>1, <2>3 DEF AtWork, Session
  <2>5. /\ toTrain[t] \o r.told \in Seq(Commands) /\ Len(toTrain[t] \o r.told) <= Room
        /\ Will(toTrain[t] \o r.told, exploring[t]) => r.session.exploring
    <3>1. \A c \in Commands :
             /\ toTrain[t] \o <<c>> \in Seq(Commands) /\ Len(toTrain[t] \o <<c>>) = Len(toTrain[t]) + 1
             /\ Will(toTrain[t] \o <<c>>, exploring[t]) <=> c = "begin_exploration"
      BY <1>1, Sent
    <3>2. "revoke_clearance" \in Commands /\ "begin_exploration" \in Commands
      BY DEF Commands
    <3>3. toTrain[t] \in Seq(Commands) /\ toTrain[t] \o <<>> = toTrain[t]
      BY <1>1
    <3>4. Len(toTrain[t]) + 1 <= Room /\ Len(toTrain[t]) <= Room
      BY <1>1
    <3>5. ASSUME NEW c \in Commands, r.told = <<c>>, c = "begin_exploration" => r.session.exploring
          PROVE  /\ toTrain[t] \o r.told \in Seq(Commands) /\ Len(toTrain[t] \o r.told) <= Room
                 /\ Will(toTrain[t] \o r.told, exploring[t]) => r.session.exploring
      BY <3>1, <3>4, <3>5
    <3>6. CASE r.told = <<>> /\ r.session.exploring
      BY <3>3, <3>4, <3>6
    <3> QED
      BY <2>3, <3>2, <3>5, <3>6
  <2>6. toTrain' \in [Train -> Seq(Commands)] /\ \A u \in Train : Len(toTrain'[u]) <= Room
    <3>1. \A u \in Train : Len(toTrain[u]) <= Room
      BY <1>1
    <3> QED
      BY <1>1, <2>2, <2>5, <3>1
  <2>7. NobodyExploresUnwatched'
    <3>1. \A u \in Train : u # t => toTrain'[u] = toTrain[u]
      BY <1>1, <2>2
    <3>2. toTrain'[t] = toTrain[t] \o r.told
      BY <1>1, <2>2
    <3> QED
      BY <2>2, <2>3, <2>4, <2>5, <3>1, <3>2, WatchedDefinition DEF WatchedBy
  <2>8. SessionShown'
    BY <1>1, <2>2, <2>3, <2>4 DEF SessionShown, AtWork
  <2> QED
    BY <2>2, <2>4, <2>6, <2>7, <2>8 DEF StillWatched
<1> QED
  BY <1>2, <1>3

(* LearnMode hears of a tag.                                               *)
LEMMA EventWatches ==
    ASSUME LearnInv, NEW t \in Train, \A u \in Train : Len(toTrain[u]) < Room,
           NEW lm \in [Train -> Place \cup {None}], NEW known, NEW map,
           OnEvent(t, lm, known, map), UNCHANGED <<exploring, orphans>>
    PROVE  StillWatched
<1>1. /\ session \in Session \cup {None} /\ None \notin Session
      /\ shown \in Statuses \cup {"idle"} /\ "idle" \notin Statuses
      /\ toTrain \in [Train -> Seq(Commands)] /\ \A u \in Train : Len(toTrain[u]) <= Room
      /\ order \in Seq(Train)
  BY TableAssumption DEF LearnInv, TypeOK, Commands, Statuses
<1>2. WatchedBy(session) /\ SessionShown
  BY WatchedDefinition DEF LearnInv
<1>3. CASE session = None
  <2>1. UNCHANGED <<session, shown, toTrain>>
    BY <1>3 DEF OnEvent
  <2>2. NobodyExploresUnwatched' /\ SessionShown'
    BY <1>2, <2>1, WatchedDefinition DEF WatchedBy, SessionShown
  <2> QED
    BY <1>1, <2>1, <2>2 DEF StillWatched
<1>4. CASE session # None
  <2> DEFINE waiting == session.status = "waiting_for_train" /\ order # <<>>
             latched == [session EXCEPT !.train = IF t \in Range(order) THEN t ELSE order[1],
                                        !.status = "driving"]
             s == IF waiting THEN latched ELSE session
  <2>1. IF t = s.train /\ (waiting \/ session.status # "waiting_for_train")
        THEN ReviewProgress(s, lm, known, map)
        ELSE session' = s /\ UNCHANGED <<shown, toTrain>>
    BY <1>4 DEF OnEvent
  <2>2. session \in Session /\ shown # "idle"
    BY <1>1, <1>2, <1>4 DEF SessionShown
  <2>3. waiting => AtWork(s) /\ ~s.exploring /\ ~session.exploring
    <3> SUFFICES ASSUME waiting
                 PROVE  AtWork(s) /\ ~s.exploring /\ ~session.exploring
      OBVIOUS
    <3>1. order[1] \in Train
      BY <1>1
    <3>2. (IF t \in Range(order) THEN t ELSE order[1]) \in Train
      BY <3>1
    <3>3. ~session.exploring
      BY <1>2, <1>4 DEF SessionShown
    <3> QED
      BY <2>2, <3>2, <3>3 DEF AtWork, Session, Statuses
  <2>4. ~waiting => s = session
    OBVIOUS
  <2>5. ~waiting /\ session.status # "waiting_for_train" => AtWork(s)
    BY <1>2, <1>4, <2>2 DEF AtWork, SessionShown
  <2>6. WatchedBy(s)
    BY <1>2, <2>3, <2>4 DEF WatchedBy
  <2>7. s \in Session /\ s # None
    BY <1>1, <2>2, <2>3, <2>4 DEF AtWork
  <2>8. s.status = "waiting_for_train" => ~s.exploring
    BY <1>2, <1>4, <2>3, <2>4 DEF SessionShown
  <2>9. s.status # "waiting_for_train" => s.train \in Train
    BY <1>2, <1>4, <2>3, <2>4, <2>5 DEF AtWork
  <2> HIDE DEF s
  <2>10. CASE t = s.train /\ (waiting \/ session.status # "waiting_for_train")
    <3>1. AtWork(s) /\ ReviewProgress(s, lm, known, map)
      BY <2>1, <2>3, <2>5, <2>10
    <3> QED
      BY <2>2, <2>6, <3>1, ReviewWatches DEF LearnInv
  <2>11. CASE ~(t = s.train /\ (waiting \/ session.status # "waiting_for_train"))
    <3>1. session' = s /\ UNCHANGED <<shown, toTrain>>
      BY <2>1, <2>11
    <3>2. NobodyExploresUnwatched'
      BY <2>6, <3>1, WatchedDefinition DEF WatchedBy
    <3>3. SessionShown'
      BY <2>2, <2>7, <2>8, <2>9, <3>1 DEF SessionShown
    <3> QED
      BY <1>1, <2>7, <3>1, <3>2, <3>3 DEF StillWatched
  <2> QED
    BY <2>10, <2>11
<1> QED
  BY <1>3, <1>4

(* LearnMode and the trains are left alone.                                *)
LEMMA NothingWatchedChanges ==
    ASSUME LearnInv, UNCHANGED <<session, shown, toTrain, exploring, orphans>>
    PROVE  StillWatched
<1>1. NobodyExploresUnwatched'
  BY WatchedDefinition DEF LearnInv, WatchedBy
<1> QED
  BY <1>1 DEF StillWatched, LearnInv, TypeOK, SessionShown, Commands

-----------------------------------------------------------------------------
(* What is retained.                                                       *)

Topics == ({"devices"} \X Train) \cup ({"tags"} \X Place)

(* The variables of the broker keep their types, and tell what is known. *)
StillKnown ==
    /\ live' \subseteq retained' /\ retained' = ledger' \cup echo' /\ ledger' \cap echo' = {}
    /\ retained' \subseteq Topics
    /\ RetainedIsKnown'

(* What is known when it all begins again, or goes on, of the broker.      *)
LEMMA KnownDefinition ==
    ASSUME LearnInv
    PROVE  /\ live \subseteq retained /\ retained = ledger \cup echo /\ ledger \cap echo = {}
           /\ retained \subseteq Topics
           /\ live = ({"devices"} \X Range(order)) \cup ({"tags"} \X bound) \cup ghosts
           /\ drawn = Graph /\ Range(order) \subseteq Train /\ bound \subseteq Place
<1>1. order \in Seq(Train)
  BY DEF LearnInv, TypeOK
<1>2. Range(order) \subseteq Train
  BY <1>1 DEF Range
<1> QED
  BY <1>2 DEF LearnInv, TypeOK, RetainedIsKnown, Topics

(* Nothing is published but the layout, and that as it is.                 *)
LEMMA OnlyDrawn ==
    ASSUME LearnInv, UNCHANGED <<retained, live, ledger, echo, ghosts, order, bound>>,
           drawn' = <<markers', Edges', inferred'>>
    PROVE  StillKnown
BY KnownDefinition DEF StillKnown, RetainedIsKnown, Graph

(* Nothing is published, and nothing new.                                  *)
LEMMA NothingPublished ==
    ASSUME LearnInv, UNCHANGED <<retained, live, drawn, ledger, echo, ghosts, order, bound>>,
           UNCHANGED <<markers, count, inferred>>
    PROVE  StillKnown
BY KnownDefinition DEF StillKnown, RetainedIsKnown, Graph, Edges

(* So the layout drawn has its type.                                       *)
LEMMA DrawnType ==
    ASSUME StillKnown, markers' \subseteq bound', bound' \subseteq Place,
           \A e \in Edges' : e \in Place \X Place,
           inferred' = {e \in Edges' : count'[e] < Confirm}
    PROVE  drawn' \in (SUBSET Place) \X (SUBSET (Place \X Place)) \X (SUBSET (Place \X Place))
<1>1. drawn' = <<markers', Edges', inferred'>>
  BY DEF StillKnown, RetainedIsKnown, Graph
<1>2. markers' \subseteq Place /\ Edges' \subseteq Place \X Place /\ inferred' \subseteq Place \X Place
  OBVIOUS
<1> QED
  BY <1>1, <1>2

-----------------------------------------------------------------------------
(* The actions.                                                            *)

(* The one button of the panel: who was watched is told to stop, and only  *)
(* the train of a new session is told to go.                               *)
LEMMA ClickKeeps ==
    ASSUME LearnInv, Click
    PROVE  LearnInv'
<1>1. /\ \A u \in Train : Len(toTrain[u]) < Room
      /\ IF shown = "idle" THEN Start ELSE Stop
      /\ UNCHANGED <<tableVars, layoutVars, topicVars, mishaps, historyVars>>
  BY DEF Click
<1>2. /\ session \in Session \cup {None} /\ None \notin Session /\ None \notin Train
      /\ shown \in Statuses \cup {"idle"} /\ "idle" \notin Statuses
      /\ toTrain \in [Train -> Seq(Commands)] /\ \A u \in Train : Len(toTrain[u]) <= Room
      /\ order \in Seq(Train) /\ last \in [Train -> Place \cup {None}]
  BY TableAssumption DEF LearnInv, TypeOK, Commands, Statuses
<1>3. WatchedBy(session) /\ SessionShown
  BY WatchedDefinition DEF LearnInv
<1>4. \A u \in Train : Len(toTrain[u]) \in Nat /\ Len(toTrain[u]) + 1 <= Room
  BY <1>1, <1>2, TableAssumption
<1>5. exploring' = exploring /\ orphans' = orphans
  BY <1>1 DEF tableVars, historyVars
<1>6. \A x \in Train \cup {None}, status \in Statuses :
         /\ NewSession(x, status) \in Session /\ ~NewSession(x, status).exploring
         /\ NewSession(x, status).train = x /\ NewSession(x, status).status = status
  BY DEF NewSession, Session
<1>7. ASSUME shown = "idle"
      PROVE  StillWatched
  <2>1. session = None /\ Start
    BY <1>1, <1>3, <1>7 DEF SessionShown
  <2>2. \A u \in Train \ orphans : ~Will(toTrain[u], exploring[u])
    BY <1>3, <2>1 DEF WatchedBy
  <2>3. "driving" \in Statuses /\ "waiting_for_train" \in Statuses /\ "driving" # "waiting_for_train"
    BY DEF Statuses
  <2>4. order # <<>> => order[1] \in Train
    BY <1>2
  <2>5. CASE order # <<>> /\ last[order[1]] # None
    <3> DEFINE s == NewSession(order[1], "driving")
    <3>1. ReviewProgress(s, last, Edges, markers)
      BY <2>1, <2>5 DEF Start
    <3>2. AtWork(s) /\ s.train = order[1]
      BY <1>6, <2>3, <2>4, <2>5 DEF AtWork
    <3>3. WatchedBy(s)
      BY <2>2 DEF WatchedBy
    <3> HIDE DEF s
    <3> QED
      BY <1>1, <1>2, <1>5, <2>5, <3>1, <3>2, <3>3, ReviewWatches DEF LearnInv
  <2>6. CASE ~(order # <<>> /\ last[order[1]] # None)
    <3> DEFINE t == IF order = <<>> THEN None ELSE order[1]
               s == NewSession(t, "waiting_for_train")
    <3>1. session' = s /\ shown' = "waiting_for_train" /\ toTrain' = toTrain
      BY <2>1, <2>6 DEF Start
    <3>2. t \in Train \cup {None}
      BY <2>4
    <3> HIDE DEF t
    <3>3. s \in Session /\ ~s.exploring /\ s.status = "waiting_for_train"
      BY <1>6, <2>3, <3>2
    <3> HIDE DEF s
    <3>4. NobodyExploresUnwatched'
      BY <1>5, <2>2, <3>1, WatchedDefinition
    <3>5. SessionShown'
      BY <1>2, <3>1, <3>3 DEF SessionShown
    <3> QED
      BY <1>2, <2>3, <3>1, <3>3, <3>4, <3>5 DEF StillWatched
  <2> QED
    BY <2>5, <2>6
<1>8. ASSUME shown # "idle"
      PROVE  StillWatched
  <2>1. /\ session # None /\ session' = None /\ shown' = "idle"
        /\ IF session.exploring
           THEN toTrain' = [toTrain EXCEPT ![session.train] = Append(@, "revoke_clearance")]
           ELSE UNCHANGED toTrain
    BY <1>1, <1>3, <1>8 DEF SessionShown, Stop
  <2>2. SessionShown'
    BY <2>1 DEF SessionShown
  <2>3. CASE session.exploring
    <3> DEFINE t == session.train
    <3>1. t \in Train
      BY <1>3, <2>1, <2>3 DEF SessionShown
    <3>2. "revoke_clearance" \in Commands /\ "revoke_clearance" # "begin_exploration"
      BY DEF Commands
    <3> DEFINE q == Append(toTrain[t], "revoke_clearance")
    <3>3. q \in Seq(Commands) /\ Len(q) = Len(toTrain[t]) + 1 /\ ~Will(q, exploring[t])
      <4> DEFINE waiting == toTrain[t]
                 longer == waiting \o <<"revoke_clearance">>
      <4>1. waiting \in Seq(Commands)
        BY <1>2, <3>1
      <4> HIDE DEF waiting
      <4>2. /\ longer \in Seq(Commands) /\ Len(longer) = Len(waiting) + 1
            /\ Append(waiting, "revoke_clearance") = longer
            /\ \A b : Will(longer, b) <=> "revoke_clearance" = "begin_exploration"
        BY <3>2, <4>1, Sent
      <4> HIDE DEF longer
      <4>3. q = longer
        BY <4>2 DEF waiting
      <4> HIDE DEF q
      <4> QED
        BY <4>2, <4>3 DEF waiting
    <3> HIDE DEF q
    <3>4. toTrain' = [toTrain EXCEPT ![t] = q]
      BY <2>1, <2>3 DEF q
    <3>5. toTrain' \in [Train -> Seq(Commands)] /\ \A u \in Train : Len(toTrain'[u]) <= Room
      BY <1>2, <1>4, <3>3, <3>4
    <3>6. NobodyExploresUnwatched'
      <4>1. \A u \in Train \ orphans : ~Will(toTrain'[u], exploring[u])
        BY <1>2, <1>3, <3>1, <3>3, <3>4 DEF WatchedBy
      <4> QED
        BY <1>5, <4>1, WatchedDefinition
    <3> QED
      BY <2>1, <2>2, <3>5, <3>6 DEF StillWatched
  <2>4. CASE ~session.exploring
    <3>1. NobodyExploresUnwatched'
      BY <1>3, <1>5, <2>1, <2>4, WatchedDefinition DEF WatchedBy
    <3> QED
      BY <1>2, <2>1, <2>2, <2>4, <3>1 DEF StillWatched
  <2> QED
    BY <2>3, <2>4
<1>9. StillWatched
  BY <1>7, <1>8
<1>10. UnderWay' /\ LearnedIsTravelled'
  BY <1>1, NothingLearned DEF tableVars, layoutVars, historyVars
<1>11. TypeOK'
  BY <1>1, <1>9 DEF LearnInv, TypeOK, StillWatched, Commands, Edges, tableVars, layoutVars,
                  topicVars, historyVars
<1>12. StillKnown
  BY <1>1, NothingPublished DEF layoutVars, topicVars
<1> QED
  BY <1>9, <1>10, <1>11, <1>12 DEF LearnInv, StillWatched, StillKnown

(* Receive: the server hears of a tag.                                     *)
LEMMA ReceiveKeeps ==
    ASSUME LearnInv, NEW t \in Train, Receive(t)
    PROVE  LearnInv'
<1>1. /\ fromTrain[t] # <<>> /\ \A u \in Train : Len(toTrain[u]) < Room
      /\ fromTrain' = [fromTrain EXCEPT ![t] = Tail(@)]
      /\ TagObserved(t, Head(fromTrain[t]))
      /\ OnEvent(t, last', DOMAIN count', markers)
      /\ UNCHANGED <<at, exploring, order, assigner, bound, markers, retained, live, ledger, echo,
                     mishaps, arcs, orphans, ghosts>>
  BY DEF Receive
<1>2. /\ UnderWay' /\ LearnedIsTravelled' /\ gaps' \subseteq Place
      /\ last' \in [Train -> Place \cup {None}]
      /\ \A e \in Edges' : e \in Place \X Place /\ count'[e] \in 1..Confirm
      /\ inferred' = {e \in Edges' : count'[e] < Confirm}
      /\ drawn' = <<markers, Edges', inferred'>>
  BY <1>1, ObservationLearns
<1>3. StillWatched
  BY <1>1, <1>2, EventWatches
<1>4. /\ fromTrain' \in [Train -> Seq(Place)]
      /\ \A u \in Train : fromTrain'[u] \in {<<>>, <<at[u]>>}
  <2>1. fromTrain \in [Train -> Seq(Place)] /\ \A u \in Train : fromTrain[u] \in {<<>>, <<at[u]>>}
    BY DEF LearnInv, TypeOK
  <2>2. Tail(<<at[t]>>) = <<>> /\ fromTrain[t] = <<at[t]>>
    BY <1>1, <2>1
  <2>3. <<>> \in Seq(Place)
    OBVIOUS
  <2>4. fromTrain' = [fromTrain EXCEPT ![t] = <<>>]
    BY <1>1, <2>2
  <2> QED
    BY <2>1, <2>3, <2>4
<1>5. StillKnown
  BY <1>1, <1>2, OnlyDrawn
<1>6. markers' \subseteq bound' /\ bound' \subseteq Place
  BY <1>1 DEF LearnInv, TypeOK
<1>7. drawn' \in (SUBSET Place) \X (SUBSET (Place \X Place)) \X (SUBSET (Place \X Place))
  BY <1>2, <1>5, <1>6, DrawnType
<1>8. TypeOK'
  BY <1>1, <1>2, <1>3, <1>4, <1>7 DEF LearnInv, TypeOK, StillWatched, Commands
<1> QED
  BY <1>2, <1>3, <1>5, <1>8 DEF LearnInv, StillWatched, StillKnown

(* A mishap is counted. *)
LEMMA MishapCounts ==
    ASSUME TypeOK, Mishap \/ mishaps' = mishaps
    PROVE  mishaps' \in 0..(MaxMishaps + 1)
BY TableAssumption DEF TypeOK, Mishap

(* Bind binds a tag, Record lets the ledger hear of it, PruneOrphanMarkers *)
(* takes markers away: no train and no edge is concerned.                  *)
LEMMA BookkeepingKeeps ==
    ASSUME LearnInv, Record \/ (\E p \in Place : Bind(p)) \/ PruneOrphanMarkers
    PROVE  LearnInv'
<1>1. UNCHANGED <<tableVars, toTrain, order, last, count, inferred, learnVars, historyVars>>
  BY DEF Record, Bind, PruneOrphanMarkers, layoutVars
<1>2. StillWatched
  BY <1>1, NothingWatchedChanges DEF tableVars, learnVars, historyVars
<1>3. UnderWay' /\ LearnedIsTravelled'
  BY <1>1, NothingLearned DEF tableVars, historyVars
<1>4. mishaps' \in 0..(MaxMishaps + 1)
  <2>1. Mishap \/ mishaps' = mishaps
    BY DEF Record, Bind, PruneOrphanMarkers
  <2> QED
    BY <2>1, MishapCounts DEF LearnInv
<1>5. /\ markers' \subseteq bound' /\ bound' \subseteq Place /\ assigner' \in BOOLEAN
      /\ StillKnown
  <2>1. markers \subseteq bound /\ bound \subseteq Place /\ assigner \in BOOLEAN
    BY DEF LearnInv, TypeOK
  <2>2. CASE Record
    <3>1. /\ ledger' = ledger \cup echo /\ echo' = {}
          /\ UNCHANGED <<order, assigner, bound, markers, count, inferred, retained, live, drawn, ghosts>>
      BY <2>2 DEF Record, layoutVars
    <3>2. StillKnown
      BY <3>1, KnownDefinition DEF StillKnown, RetainedIsKnown, Graph, Edges
    <3> QED
      BY <2>1, <3>1, <3>2
  <2>3. ASSUME NEW p \in Place, Bind(p)
        PROVE  markers' \subseteq bound' /\ bound' \subseteq Place /\ assigner' \in BOOLEAN /\ StillKnown
    <3> DEFINE topic == <<"tags", p>>
    <3>1. /\ bound' = bound \cup {p} /\ markers' = markers \cup {p}
          /\ retained' = retained \cup {topic} /\ echo' = echo \cup ({topic} \ ledger)
          /\ ghosts' = ghosts \ {topic} /\ live' = live \cup {topic}
          /\ drawn' = <<markers', Edges, inferred>>
          /\ UNCHANGED <<ledger, order, assigner, count, inferred>>
      BY <2>3 DEF Bind, Publish, Retain
    <3>2. topic \in Topics /\ {"tags"} \X bound' = ({"tags"} \X bound) \cup {topic}
      BY <3>1 DEF Topics
    <3> HIDE DEF topic
    <3>3. /\ live' \subseteq retained' /\ retained' = ledger' \cup echo' /\ ledger' \cap echo' = {}
          /\ retained' \subseteq Topics
      BY <3>1, <3>2, KnownDefinition
    <3>4. live' = ({"devices"} \X Range(order')) \cup ({"tags"} \X bound') \cup ghosts'
      BY <3>1, <3>2, KnownDefinition
    <3>5. StillKnown
      BY <3>1, <3>3, <3>4 DEF StillKnown, RetainedIsKnown, Graph, Edges
    <3> QED
      BY <2>1, <3>1, <3>5
  <2>4. CASE PruneOrphanMarkers
    <3>1. /\ markers' \subseteq markers /\ drawn' = <<markers', Edges, inferred>>
          /\ UNCHANGED <<retained, live, ledger, echo, ghosts, order, assigner, bound, count, inferred>>
      BY <2>4 DEF PruneOrphanMarkers
    <3>2. StillKnown
      BY <3>1, OnlyDrawn DEF Edges
    <3> QED
      BY <2>1, <3>1, <3>2
  <2> QED
    BY <2>2, <2>3, <2>4
<1>6. drawn' \in (SUBSET Place) \X (SUBSET (Place \X Place)) \X (SUBSET (Place \X Place))
  <2>1. (\A e \in Edges' : e \in Place \X Place) /\ inferred' = {e \in Edges' : count'[e] < Confirm}
    BY <1>1 DEF LearnInv, TypeOK, Edges
  <2> QED
    BY <1>5, <2>1, DrawnType
<1>7. TypeOK'
  BY <1>1, <1>2, <1>4, <1>5, <1>6 DEF LearnInv, TypeOK, StillWatched, StillKnown, Topics, Commands,
                                      Edges, tableVars, historyVars
<1> QED
  BY <1>2, <1>3, <1>5, <1>7 DEF LearnInv, StillWatched, StillKnown

(* DeleteTrain: the server forgets where it saw the train.                 *)
LEMMA DeleteTrainKeeps ==
    ASSUME LearnInv, NEW t \in Train, DeleteTrain(t)
    PROVE  LearnInv'
<1>1. /\ Mishap /\ t \in Range(order)
      /\ order' = RemoveAt(order, CHOOSE i \in DOMAIN order : order[i] = t)
      /\ last' = [last EXCEPT ![t] = None]
      /\ Retain({<<"devices", t>>}) /\ live' = live \ {<<"devices", t>>}
      /\ UNCHANGED <<tableVars, toTrain, assigner, bound, markers, count, inferred, drawn, learnVars,
                     historyVars>>
  BY DEF DeleteTrain
<1>2. order' \in Seq(Train) /\ IsInjective(order') /\ Range(order') = Range(order) \ {t}
  <2>1. order \in Seq(Train) /\ IsInjective(order)
    BY DEF LearnInv, TypeOK
  <2> QED
    BY <1>1, <2>1, LeavesOrder
<1>3. StillWatched
  BY <1>1, NothingWatchedChanges DEF tableVars, learnVars, historyVars
<1>4. last \in [Train -> Place \cup {None}]
  BY DEF LearnInv, TypeOK
<1>5. UnderWay'
  BY <1>1, <1>4 DEF LearnInv, UnderWay, tableVars, historyVars
<1>6. LearnedIsTravelled'
  <2>1. Travelled(Edges', arcs', gaps')
    BY <1>1, TravelledDefinition DEF LearnInv, Edges, historyVars
  <2> QED
    BY <2>1, TravelledDefinition
<1>7. last' \in [Train -> Place \cup {None}]
  BY <1>1, <1>4
<1>8. mishaps' \in 0..(MaxMishaps + 1)
  BY <1>1, MishapCounts DEF LearnInv
<1>9. StillKnown
  <2> DEFINE topic == <<"devices", t>>
  <2>1. /\ retained' = retained \cup {topic} /\ echo' = echo \cup ({topic} \ ledger)
        /\ ghosts' = ghosts \ {topic} /\ live' = live \ {topic} /\ ledger' = ledger
    BY <1>1 DEF Retain
  <2>2. /\ topic \in Topics /\ topic \notin {"tags"} \X bound
        /\ {"devices"} \X Range(order') = ({"devices"} \X Range(order)) \ {topic}
    BY <1>2 DEF Topics
  <2> HIDE DEF topic
  <2>3. /\ live' \subseteq retained' /\ retained' = ledger' \cup echo' /\ ledger' \cap echo' = {}
        /\ retained' \subseteq Topics
    BY <2>1, <2>2, KnownDefinition
  <2>4. live' = ({"devices"} \X Range(order')) \cup ({"tags"} \X bound') \cup ghosts'
    BY <1>1, <2>1, <2>2, KnownDefinition
  <2> QED
    BY <1>1, <2>3, <2>4, KnownDefinition DEF StillKnown, RetainedIsKnown, Graph, Edges
<1>10. TypeOK'
  BY <1>1, <1>2, <1>3, <1>7, <1>8, <1>9 DEF LearnInv, TypeOK, StillWatched, StillKnown, Topics,
                                           Commands, Edges, tableVars, historyVars
<1> QED
  BY <1>3, <1>5, <1>6, <1>9, <1>10 DEF LearnInv, StillWatched, StillKnown

(* What Blank leaves has its type, and claims nothing of any train.        *)
LEMMA BlankLearns ==
    ASSUME LearnInv, Blank
    PROVE  /\ UnderWay' /\ LearnedIsTravelled'
           /\ order' \in Seq(Train) /\ IsInjective(order')
           /\ last' \in [Train -> Place \cup {None}]
           /\ markers' \subseteq bound' /\ bound' \subseteq Place
           /\ \A e \in Edges' : e \in Place \X Place /\ count'[e] \in 1..Confirm
           /\ inferred' = {e \in Edges' : count'[e] < Confirm}
           /\ arcs' \subseteq Place \X Place /\ gaps' \subseteq Place
           /\ Range(order') = {} /\ bound' = {} /\ drawn' = Graph'
           /\ drawn' \in (SUBSET Place) \X (SUBSET (Place \X Place)) \X (SUBSET (Place \X Place))
<1>1. /\ order' = <<>> /\ last' = [t \in Train |-> None]
      /\ bound' = {} /\ markers' = {} /\ count' = <<>> /\ inferred' = {}
      /\ drawn' = <<{}, {}, {}>> /\ arcs' = {} /\ gaps' = {}
  BY DEF Blank
<1>2. Edges' = {}
  BY <1>1 DEF Edges
<1>3. Travelled(Edges', arcs', gaps')
  BY <1>2 DEF Travelled
<1>4. UnderWay'
  BY <1>1 DEF UnderWay
<1>5. order' \in Seq(Train) /\ IsInjective(order')
  BY <1>1 DEF IsInjective
<1>6. Range(order') = {} /\ drawn' = Graph'
  BY <1>1, <1>2 DEF Range, Graph
<1> QED
  BY <1>1, <1>2, <1>3, <1>4, <1>5, <1>6, TravelledDefinition

(* Reset: the server forgets; LearnMode goes on with its session.          *)
LEMMA ResetKeeps ==
    ASSUME LearnInv, Reset
    PROVE  LearnInv'
<1>1. /\ mishaps <= MaxMishaps /\ mishaps' = mishaps + 1 /\ Blank /\ assigner' = FALSE
      /\ live' = {topic \in live : ~(topic \in ledger /\ EmptyPayloadForStateTopic(topic))}
      /\ ghosts' = live \cap echo
      /\ UNCHANGED <<tableVars, toTrain, learnVars, retained, ledger, echo, orphans>>
  BY DEF Reset
<1>2. StillWatched
  BY <1>1, NothingWatchedChanges DEF tableVars, learnVars
<1>3. mishaps' \in 0..(MaxMishaps + 1)
  BY <1>1, TableAssumption DEF LearnInv, TypeOK
<1>4. /\ order' \in Seq(Train) /\ IsInjective(order') /\ Range(order') = {}
      /\ last' \in [Train -> Place \cup {None}]
      /\ markers' \subseteq bound' /\ bound' = {}
      /\ \A e \in Edges' : e \in Place \X Place /\ count'[e] \in 1..Confirm
      /\ inferred' = {e \in Edges' : count'[e] < Confirm}
      /\ arcs' \subseteq Place \X Place /\ gaps' \subseteq Place
      /\ drawn' = Graph'
      /\ drawn' \in (SUBSET Place) \X (SUBSET (Place \X Place)) \X (SUBSET (Place \X Place))
  BY <1>1, BlankLearns
<1>5. StillKnown
  <2>1. ASSUME NEW topic \in live
        PROVE  EmptyPayloadForStateTopic(topic) /\ topic \in ledger \cup echo
    <3>1. topic \in Topics /\ topic \in ledger \cup echo
      BY KnownDefinition
    <3>2. topic[1] \in {"devices", "tags"}
      BY <3>1 DEF Topics
    <3> QED
      BY <3>1, <3>2 DEF EmptyPayloadForStateTopic
  <2>2. live' = live \ ledger
    BY <1>1, <2>1
  <2>3. live' = ghosts' /\ live' \subseteq retained'
    BY <1>1, <2>1, <2>2, KnownDefinition
  <2>4. live' = ({"devices"} \X Range(order')) \cup ({"tags"} \X bound') \cup ghosts'
    BY <1>4, <2>3
  <2> QED
    BY <1>1, <1>4, <2>3, <2>4, KnownDefinition DEF StillKnown, RetainedIsKnown
<1>6. UnderWay' /\ LearnedIsTravelled'
  BY <1>1, BlankLearns
<1>7. TypeOK'
  BY <1>1, <1>2, <1>3, <1>4, <1>5 DEF LearnInv, TypeOK, StillWatched, StillKnown, Topics, Commands,
                                      tableVars
<1> QED
  BY <1>2, <1>5, <1>6, <1>7 DEF LearnInv, StillWatched, StillKnown

(* Crash: who explores now, or will, is out of the server's hands.         *)
LEMMA CrashKeeps ==
    ASSUME LearnInv, Crash
    PROVE  LearnInv'
<1>1. /\ Mishap /\ Blank /\ assigner' = TRUE /\ session' = None /\ shown' = "idle"
      /\ ledger' = {} /\ echo' = retained /\ ghosts' = live
      /\ fromTrain' = [t \in Train |-> <<>>]
      /\ orphans' = orphans \cup
             {t \in Train : exploring[t] \/ "begin_exploration" \in Range(toTrain[t])}
      /\ UNCHANGED <<at, exploring, toTrain, retained, live>>
  BY DEF Crash
<1>2. NobodyExploresUnwatched'
  <2>1. ASSUME NEW u \in Train \ orphans'
        PROVE  ~Will(toTrain'[u], exploring'[u])
    <3>1. ~exploring[u] /\ "begin_exploration" \notin Range(toTrain[u])
      BY <1>1, <2>1
    <3>2. toTrain[u] \in Seq(Commands)
      BY DEF LearnInv, TypeOK, Commands
    <3>3. toTrain[u] # <<>> => Last(toTrain[u]) \in Range(toTrain[u])
      BY <3>2, Heard
    <3> QED
      BY <1>1, <3>1, <3>3 DEF Will
  <2> QED
    BY <2>1, WatchedDefinition
<1>3. SessionShown'
  BY <1>1 DEF SessionShown
<1>4. mishaps' \in 0..(MaxMishaps + 1)
  BY <1>1, MishapCounts DEF LearnInv
<1>5. UnderWay' /\ LearnedIsTravelled'
  BY <1>1, BlankLearns
<1>6. /\ order' \in Seq(Train) /\ IsInjective(order') /\ Range(order') = {}
      /\ last' \in [Train -> Place \cup {None}]
      /\ markers' \subseteq bound' /\ bound' = {}
      /\ \A e \in Edges' : e \in Place \X Place /\ count'[e] \in 1..Confirm
      /\ inferred' = {e \in Edges' : count'[e] < Confirm}
      /\ arcs' \subseteq Place \X Place /\ gaps' \subseteq Place
      /\ drawn' = Graph'
      /\ drawn' \in (SUBSET Place) \X (SUBSET (Place \X Place)) \X (SUBSET (Place \X Place))
  BY <1>1, BlankLearns
<1>7. StillKnown
  <2>1. live' = ({"devices"} \X Range(order')) \cup ({"tags"} \X bound') \cup ghosts'
    BY <1>1, <1>6
  <2> QED
    BY <1>1, <1>6, <2>1, KnownDefinition DEF StillKnown, RetainedIsKnown
<1>8. TypeOK'
  <2>1. fromTrain' \in [Train -> Seq(Place)] /\ \A t \in Train : fromTrain'[t] \in {<<>>, <<at'[t]>>}
    BY <1>1
  <2>2. orphans' \subseteq Train
    BY <1>1 DEF LearnInv, TypeOK
  <2> QED
    BY <1>1, <1>4, <1>6, <1>7, <2>1, <2>2 DEF LearnInv, TypeOK, StillKnown, Topics
<1> QED
  BY <1>2, <1>3, <1>5, <1>7, <1>8 DEF LearnInv, StillKnown

(* SwitchOn: a device that starts explores nothing and has nothing to obey. *)
LEMMA SwitchOnKeeps ==
    ASSUME LearnInv, NEW t \in Train, SwitchOn(t)
    PROVE  LearnInv'
<1>1. /\ \/ t \notin Range(order) /\ order' = Append(order, t)
         \/ t \in Range(order) /\ order' = order
      /\ exploring' = [exploring EXCEPT ![t] = FALSE]
      /\ toTrain' = [toTrain EXCEPT ![t] = <<>>]
      /\ orphans' = orphans \ {t}
      /\ retained' = retained \cup {<<"devices", t>>}
      /\ live' = live \cup {<<"devices", t>>} /\ ghosts' = ghosts \ {<<"devices", t>>}
      /\ ledger' = ledger /\ echo' = echo \cup ({<<"devices", t>>} \ ledger)
      /\ UNCHANGED <<at, fromTrain, assigner, last, bound, markers, count, inferred, drawn, learnVars,
                     arcs, gaps>>
      /\ Mishap \/ mishaps' = mishaps
  BY DEF SwitchOn, Publish, Retain
<1>2. /\ exploring \in [Train -> BOOLEAN] /\ toTrain \in [Train -> Seq(Commands)]
      /\ order \in Seq(Train) /\ IsInjective(order)
  BY DEF LearnInv, TypeOK, Commands
<1>3. order' \in Seq(Train) /\ IsInjective(order') /\ Range(order') = Range(order) \cup {t}
  <2> SUFFICES ASSUME t \notin Range(order), order' = Append(order, t)
               PROVE  order' \in Seq(Train) /\ IsInjective(order') /\ Range(order') = Range(order) \cup {t}
    BY <1>1, <1>2
  <2>1. /\ order' \in Seq(Train) /\ Len(order') = Len(order) + 1 /\ order'[Len(order) + 1] = t
        /\ \A i \in 1..Len(order) : order'[i] = order[i]
    BY <1>1, <1>2, AppendProperties
  <2>2. /\ DOMAIN order = 1..Len(order) /\ DOMAIN order' = 1..(Len(order) + 1) /\ Len(order) \in Nat
        /\ DOMAIN order' = DOMAIN order \cup {Len(order) + 1}
    BY <1>2, <2>1
  <2>3. \A i \in DOMAIN order : order[i] # t
    BY DEF Range
  <2>4. ASSUME NEW k \in DOMAIN order', NEW l \in DOMAIN order', order'[k] = order'[l]
        PROVE  k = l
    BY <1>2, <2>1, <2>2, <2>3, <2>4 DEF IsInjective
  <2>5. Range(order') = Range(order) \cup {t}
    BY <2>1, <2>2 DEF Range
  <2> QED
    BY <2>1, <2>4, <2>5 DEF IsInjective
<1>4. NobodyExploresUnwatched'
  <2>1. ASSUME NEW u \in Train \ orphans', Will(toTrain'[u], exploring'[u])
        PROVE  session' # None /\ session'.train = u /\ session'.exploring
    <3>1. CASE u = t
      BY <1>1, <1>2, <2>1, <3>1 DEF Will
    <3>2. CASE u # t
      <4>1. u \in Train \ orphans /\ Will(toTrain[u], exploring[u])
        BY <1>1, <1>2, <2>1, <3>2
      <4>2. WatchedBy(session)
        BY WatchedDefinition DEF LearnInv
      <4> QED
        BY <1>1, <4>1, <4>2 DEF WatchedBy, learnVars
    <3> QED
      BY <3>1, <3>2
  <2> QED
    BY <2>1, WatchedDefinition
<1>5. SessionShown'
  BY <1>1 DEF LearnInv, SessionShown, learnVars
<1>6. UnderWay' /\ LearnedIsTravelled'
  BY <1>1, NothingLearned
<1>7. mishaps' \in 0..(MaxMishaps + 1)
  BY <1>1, MishapCounts DEF LearnInv
<1>8. StillKnown
  <2> DEFINE topic == <<"devices", t>>
  <2>1. /\ retained' = retained \cup {topic} /\ echo' = echo \cup ({topic} \ ledger)
        /\ ghosts' = ghosts \ {topic} /\ live' = live \cup {topic} /\ ledger' = ledger
    BY <1>1
  <2>2. topic \in Topics /\ {"devices"} \X Range(order') = ({"devices"} \X Range(order)) \cup {topic}
    BY <1>3 DEF Topics
  <2> HIDE DEF topic
  <2>3. /\ live' \subseteq retained' /\ retained' = ledger' \cup echo' /\ ledger' \cap echo' = {}
        /\ retained' \subseteq Topics
    BY <2>1, <2>2, KnownDefinition
  <2>4. live' = ({"devices"} \X Range(order')) \cup ({"tags"} \X bound') \cup ghosts'
    BY <1>1, <2>1, <2>2, KnownDefinition
  <2> QED
    BY <1>1, <2>3, <2>4, KnownDefinition DEF StillKnown, RetainedIsKnown, Graph, Edges
<1>9. toTrain' \in [Train -> Seq(Commands)] /\ \A u \in Train : Len(toTrain'[u]) <= Room
  <2>1. Len(<<>>) <= Room /\ <<>> \in Seq(Commands)
    BY TableAssumption
  <2>2. \A u \in Train : Len(toTrain[u]) <= Room
    BY DEF LearnInv, TypeOK
  <2> QED
    BY <1>1, <1>2, <2>1, <2>2
<1>10. TypeOK'
  BY <1>1, <1>2, <1>3, <1>7, <1>8, <1>9 DEF LearnInv, TypeOK, StillKnown, Topics, Commands, Edges,
                                           learnVars
<1> QED
  BY <1>4, <1>5, <1>6, <1>8, <1>10 DEF LearnInv, StillKnown

(* Obey: the train does what it was told first.                            *)
LEMMA ObeyKeeps ==
    ASSUME LearnInv, NEW t \in Train, Obey(t)
    PROVE  LearnInv'
<1>1. /\ toTrain[t] # <<>>
      /\ toTrain' = [toTrain EXCEPT ![t] = Tail(toTrain[t])]
      /\ exploring' = [exploring EXCEPT ![t] = Head(toTrain[t]) = "begin_exploration"]
      /\ orphans' = IF toTrain[t] = <<"revoke_clearance">> THEN orphans \ {t} ELSE orphans
      /\ UNCHANGED <<at, fromTrain, layoutVars, learnVars, topicVars, mishaps, arcs, gaps>>
  BY DEF Obey
<1>2. /\ exploring \in [Train -> BOOLEAN] /\ toTrain \in [Train -> Seq(Commands)]
      /\ \A u \in Train : Len(toTrain[u]) <= Room
  BY DEF LearnInv, TypeOK, Commands
<1> DEFINE goes == Head(toTrain[t]) = "begin_exploration"
           rest == Tail(toTrain[t])
<1>3. rest \in Seq(Commands) /\ Len(rest) <= Room /\ (Will(rest, goes) <=> Will(toTrain[t], exploring[t]))
  <2>1. /\ rest \in Seq(Commands) /\ Len(rest) = Len(toTrain[t]) - 1
        /\ Will(rest, goes) <=> Will(toTrain[t], exploring[t])
    BY <1>1, <1>2, Heard
  <2>2. Len(toTrain[t]) \in Nat /\ Len(toTrain[t]) <= Room /\ Room \in Nat
    BY <1>2, TableAssumption
  <2> HIDE DEF rest, goes
  <2> QED
    BY <2>1, <2>2
<1>4. goes \in BOOLEAN
  OBVIOUS
<1>5. toTrain[t] = <<"revoke_clearance">> => ~Will(toTrain[t], exploring[t])
  BY DEF Will, Last
<1> HIDE DEF goes, rest
<1>6. /\ toTrain' = [toTrain EXCEPT ![t] = rest] /\ exploring' = [exploring EXCEPT ![t] = goes]
  BY <1>1 DEF goes, rest
<1>7. NobodyExploresUnwatched'
  <2>1. ASSUME NEW u \in Train \ orphans', Will(toTrain'[u], exploring'[u])
        PROVE  session' # None /\ session'.train = u /\ session'.exploring
    <3>1. Will(toTrain[u], exploring[u])
      <4>1. CASE u = t
        BY <1>2, <1>3, <1>6, <2>1, <4>1
      <4>2. CASE u # t
        BY <1>2, <1>6, <2>1, <4>2
      <4> QED
        BY <4>1, <4>2
    <3>2. u \in Train \ orphans
      BY <1>1, <1>5, <2>1, <3>1
    <3>3. WatchedBy(session)
      BY WatchedDefinition DEF LearnInv
    <3> QED
      BY <1>1, <3>1, <3>2, <3>3 DEF WatchedBy, learnVars
  <2> QED
    BY <2>1, WatchedDefinition
<1>8. SessionShown'
  BY <1>1 DEF LearnInv, SessionShown, learnVars
<1>9. UnderWay' /\ LearnedIsTravelled'
  BY <1>1, NothingLearned DEF layoutVars
<1>10. TypeOK'
  <2>1. toTrain' \in [Train -> Seq(Commands)] /\ \A u \in Train : Len(toTrain'[u]) <= Room
    BY <1>2, <1>3, <1>6
  <2>2. exploring' \in [Train -> BOOLEAN]
    BY <1>2, <1>4, <1>6
  <2>3. orphans' \subseteq Train
    BY <1>1 DEF LearnInv, TypeOK
  <2> QED
    BY <1>1, <2>1, <2>2, <2>3 DEF LearnInv, TypeOK, Commands, Edges, layoutVars, learnVars, topicVars
<1>11. StillKnown
  BY <1>1, NothingPublished DEF layoutVars, topicVars
<1> QED
  BY <1>7, <1>8, <1>9, <1>10, <1>11 DEF LearnInv, StillKnown

(* Run, Carry: a train gets to a place.                                    *)
LEMMA ArrivalKeeps ==
    ASSUME LearnInv, NEW t \in Train, NEW q \in Place, Arrive(t, q), Mishap \/ mishaps' = mishaps
    PROVE  LearnInv'
<1>1. /\ fromTrain[t] = <<>> /\ at' = [at EXCEPT ![t] = q]
      /\ fromTrain' = [fromTrain EXCEPT ![t] = <<q>>]
      /\ arcs' = IF at[t] = None THEN arcs ELSE arcs \cup {<<at[t], q>>}
      /\ UNCHANGED <<exploring, toTrain, layoutVars, learnVars, topicVars, gaps, orphans>>
  <2>1. fromTrain[t] = <<>> => Append(fromTrain[t], q) = <<q>>
    OBVIOUS
  <2> QED
    BY <2>1 DEF Arrive
<1>2. StillWatched
  BY <1>1, NothingWatchedChanges DEF learnVars
<1>3. UnderWay' /\ LearnedIsTravelled'
  BY ArrivalLearns
<1>4. mishaps' \in 0..(MaxMishaps + 1)
  BY MishapCounts DEF LearnInv
<1>5. /\ at' \in [Train -> Place \cup {None}] /\ fromTrain' \in [Train -> Seq(Place)]
      /\ \A u \in Train : fromTrain'[u] \in {<<>>, <<at'[u]>>}
      /\ arcs' \subseteq Place \X Place
  <2>1. /\ at \in [Train -> Place \cup {None}] /\ fromTrain \in [Train -> Seq(Place)]
        /\ \A u \in Train : fromTrain[u] \in {<<>>, <<at[u]>>}
        /\ arcs \subseteq Place \X Place
    BY DEF LearnInv, TypeOK
  <2>2. <<q>> \in Seq(Place)
    OBVIOUS
  <2>3. at[t] # None => at[t] \in Place
    BY <2>1
  <2> QED
    BY <1>1, <2>1, <2>2, <2>3
<1>6. TypeOK'
  BY <1>1, <1>2, <1>4, <1>5 DEF LearnInv, TypeOK, StillWatched, Commands, Edges, layoutVars, topicVars
<1>7. StillKnown
  BY <1>1, NothingPublished DEF layoutVars, topicVars
<1> QED
  BY <1>2, <1>3, <1>6, <1>7 DEF LearnInv, StillWatched, StillKnown

(* At the start there is nothing.                                          *)
LEMMA InitKeeps ==
    ASSUME Init
    PROVE  LearnInv
<1>1. Edges = {}
  BY DEF Init, Edges
<1>2. TypeOK
  <2>1. Len(<<>>) <= Room /\ <<>> \in Seq(Commands) /\ <<>> \in Seq(Place) /\ <<>> \in Seq(Train)
    BY TableAssumption
  <2>2. IsInjective(order)
    BY DEF Init, IsInjective
  <2>3. drawn = <<{}, {}, {}>>
    BY <1>1 DEF Init, Graph
  <2> QED
    BY <1>1, <2>1, <2>2, <2>3, TableAssumption DEF Init, TypeOK, Commands, Statuses
<1>3. SessionShown /\ UnderWay
  BY DEF Init, SessionShown, UnderWay
<1>4. NobodyExploresUnwatched
  BY DEF Init, NobodyExploresUnwatched, WillExplore
<1>5. LearnedIsTravelled
  BY <1>1 DEF LearnedIsTravelled
<1>6. RetainedIsKnown
  <2>1. Range(order) = {}
    BY DEF Init, Range
  <2> QED
    BY <2>1 DEF Init, RetainedIsKnown
<1> QED
  BY <1>2, <1>3, <1>4, <1>5, <1>6 DEF LearnInv

(* Every step keeps the invariant.                                         *)
LEMMA NextKeeps ==
    ASSUME LearnInv, [Next]_vars
    PROVE  LearnInv'
<1>1. CASE Click
  BY <1>1, ClickKeeps
<1>2. CASE Record \/ (\E p \in Place : Bind(p)) \/ PruneOrphanMarkers
  BY <1>2, BookkeepingKeeps
<1>3. CASE Reset
  BY <1>3, ResetKeeps
<1>4. CASE Crash
  BY <1>4, CrashKeeps
<1>5. ASSUME NEW t \in Train, Receive(t) \/ DeleteTrain(t) \/ SwitchOn(t) \/ Obey(t)
      PROVE  LearnInv'
  BY <1>5, ReceiveKeeps, DeleteTrainKeeps, SwitchOnKeeps, ObeyKeeps
<1>6. ASSUME NEW t \in Train, Run(t)
      PROVE  LearnInv'
  <2>1. PICK q \in Way[at[t]] : Arrive(t, q)
    BY <1>6 DEF Run
  <2>2. at[t] \in Place
    BY <1>6 DEF Run, LearnInv, TypeOK
  <2>3. q \in Place /\ mishaps' = mishaps
    BY <1>6, <2>2, TableAssumption DEF Run
  <2> QED
    BY <2>1, <2>3, ArrivalKeeps
<1>7. ASSUME NEW t \in Train, Carry(t)
      PROVE  LearnInv'
  <2>1. \E q \in Place : Arrive(t, q) /\ (Mishap \/ mishaps' = mishaps)
    BY <1>7, TableAssumption DEF Carry
  <2> QED
    BY <2>1, ArrivalKeeps
<1>8. CASE UNCHANGED vars
  <2>1. StillWatched
    BY <1>8, NothingWatchedChanges DEF vars, tableVars, learnVars, historyVars
  <2>2. UnderWay' /\ LearnedIsTravelled'
    BY <1>8, NothingLearned DEF vars, tableVars, layoutVars, historyVars
  <2>3. TypeOK'
    BY <1>8, <2>1 DEF LearnInv, TypeOK, StillWatched, Commands, Edges, vars, tableVars, layoutVars,
                      learnVars, topicVars, historyVars
  <2>4. StillKnown
    BY <1>8, NothingPublished DEF vars, layoutVars, topicVars
  <2> QED
    BY <2>1, <2>2, <2>3, <2>4 DEF LearnInv, StillWatched, StillKnown
<1> QED
  BY <1>1, <1>2, <1>3, <1>4, <1>5, <1>6, <1>7, <1>8 DEF Next

-----------------------------------------------------------------------------
(* The theorems.                                                           *)

(* The invariant holds, for every table, any number of trains and mishaps. *)
THEOREM LearningIsSafe == Spec => []LearnInv
<1>1. Init => LearnInv
  BY InitKeeps
<1>2. LearnInv /\ [Next]_vars => LearnInv'
  BY NextKeeps
<1> QED
  BY <1>1, <1>2, PTL DEF Spec

(* Every variable keeps its type.                                          *)
THEOREM TypeCorrect == Spec => []TypeOK
<1>1. LearnInv => TypeOK
  BY DEF LearnInv
<1> QED
  BY <1>1, LearningIsSafe, PTL

(* An edge the server has learned (recordTraversal) is a way that some     *)
(* train went, with no bound marker in between.                            *)
THEOREM LearnedWaysExist == Spec => []LearnedIsTravelled
<1>1. LearnInv => LearnedIsTravelled
  BY DEF LearnInv
<1> QED
  BY <1>1, LearningIsSafe, PTL

(* However sessions are started and stopped, once it has obeyed what it    *)
(* was sent no train but that of the session explores (learn-mode.ts,      *)
(* stop), save those that a crash of the server has left running.          *)
THEOREM NoTrainWandersOn == Spec => []NobodyExploresUnwatched
<1>1. LearnInv => NobodyExploresUnwatched
  BY DEF LearnInv
<1> QED
  BY <1>1, LearningIsSafe, PTL

(* The broker retains of trains, tags and the layout what the server knows *)
(* of them, through edits, resets and crashes: a reset (Server.reset) lays *)
(* every ghost that a crash left and the server has been told of.          *)
THEOREM NothingElseIsRetained == Spec => []RetainedIsKnown
<1>1. LearnInv => RetainedIsKnown
  BY DEF LearnInv
<1> QED
  BY <1>1, LearningIsSafe, PTL
=============================================================================
