------------------------------ MODULE YardProofs ------------------------------
(***************************************************************************)
(* Shunting is safe in every yard: whatever its roads, its capacity, its   *)
(* trains and their lengths, the device moves one train at a time, behind  *)
(* the throat, into an empty road, and knows where the spares stand, until *)
(* its camera over the lead is asked for the train pulled clear while      *)
(* another one stands there.                                               *)
(***************************************************************************)
EXTENDS Yard, SequenceTheorems, WellFoundedInduction, TLAPS

-----------------------------------------------------------------------------
(* What is on its way to the scheduler.                                    *)

Message ==
    {TagObserved(t) : t \in Train} \cup {Released(t) : t \in Train}
        \cup {ZoneState(n) : n \in 0..Capacity}

(* What queue q says of train t. *)
Silent(q, t) == \A i \in DOMAIN q : q[i].train # t

OnlyTag(q, t) ==
    \E i \in DOMAIN q : q[i] = TagObserved(t) /\ \A j \in DOMAIN q \ {i} : q[j].train # t

OnlyReleased(q, t) ==
    \E i \in DOMAIN q : q[i] = Released(t) /\ \A j \in DOMAIN q \ {i} : q[j].train # t

TagThenReleased(q, t) ==
    \E i, k \in DOMAIN q :
        /\ i < k /\ q[i] = TagObserved(t) /\ q[k] = Released(t)
        /\ \A j \in DOMAIN q \ {i, k} : q[j].train # t

-----------------------------------------------------------------------------
(* The invariant.                                                          *)

(* A visit of train t as the scheduler has it, with status st, as the train *)
(* makes it, and as the messages q that are under way will tell it.        *)
VisitAs(t, st, q) ==
    \/ /\ place[t] = "line"
       /\ \/ st \in {"away", "waiting", "cleared"} /\ Silent(q, t)
          \/ st = "leaving" /\ OnlyTag(q, t)
    \/ /\ place[t] # "line"
       /\ \/ st = "cleared" /\ OnlyTag(q, t)
          \/ st = "inside" /\ Silent(q, t)
    \/ /\ place[t] = "lead" /\ t \notin Range(residents)
       /\ \/ st = "cleared" /\ TagThenReleased(q, t)
          \/ st = "inside" /\ OnlyReleased(q, t)
          \/ st \in {"released", "leaving"} /\ Silent(q, t)

Visit(t) == VisitAs(t, status[t], toCore)

Visits == toCore \in Seq(Message) /\ \A t \in Train : Visit(t)

(* Whoever is not being served stands outside the roads, *)
OthersStand ==
    \A t \in Train : service = None \/ t # Head(residents) =>
        motor[t] = "stopped" /\ place[t] \in {"line", "throat", "lead"}

(* a resident that waits to be served at the throat, one at a time.        *)
ResidentsWait ==
    /\ \A i \in DOMAIN residents : service = None \/ i > 1 => place[residents[i]] = "throat"
    /\ \A t, u \in Train : place[t] = "throat" /\ place[u] = "throat" => t = u

(* How far train t is, which is served by s. *)
Progress(s, t) ==
    \/ s.phase = "rest" /\ place[t] \in {"throat", s.entry} /\ motor[t] = "forward" /\ east = "thru"
    \/ s.phase = "decouple" /\ place[t] = s.entry /\ motor[t] = "stopped"
    \/ s.phase = "pull-clear" /\ place[t] \in {s.entry, "lead"} /\ motor[t] \in {"stopped", "forward"}
    \/ /\ s.phase = "to-spares" /\ place[t] \in {"lead", sparesSlot}
       /\ motor[t] = "stopped" \/ (motor[t] = "reverse" /\ east = sparesSlot)
    \/ /\ s.phase \in {"settle", "exit"} /\ place[t] \in {"lead", sparesSlot}
       /\ motor[t] \in {"stopped", "forward"} /\ east = sparesSlot

(* From when it has been seen on the lead, it has the lead to itself.      *)
LeadIsOurs(s, t) ==
    s.phase \in {"to-spares", "settle", "exit"} => \A u \in Train : place[u] = "lead" => u = t

Serving ==
    service # None =>
        /\ residents # <<>>
        /\ service.entry # sparesSlot /\ west = service.entry
        /\ Progress(service, Head(residents))
        /\ LeadIsOurs(service, Head(residents))

(* Exactly the roads of S have something standing loose in them. *)
Loose(S) == \A r \in Slot : stock[r] > 0 <=> r \in S

(* Train t has shed its cut and not yet coupled the spares. *)
Shed(t) ==
    /\ service # None /\ t = Head(residents)
    /\ \/ service.phase = "pull-clear"
       \/ service.phase = "to-spares" /\ place[t] = "lead"

(* While none is, what stands loose is what the device remembers. *)
SparesKnown ==
    service = None =>
        /\ \A r, s \in Slot : stock[r] > 0 /\ stock[s] > 0 => r = s
        /\ sparesSlot # None => stock[sparesSlot] > 0

(* Where carriages stand while a train is served. *)
LooseInTurn ==
    service # None =>
        Loose(IF service.phase \in {"rest", "decouple"} THEN {sparesSlot}
              ELSE IF Shed(Head(residents)) THEN {service.entry, sparesSlot}
              ELSE {service.entry})

(* A train that has not shed its cut has carriages, and more than it keeps. *)
Coupled ==
    /\ \A t \in Train : ~Shed(t) => rake[t] > 0
    /\ Phase("rest") => service.cut = None
    /\ (Phase("decouple") /\ service.cut # None) => service.cut < rake[Head(residents)]

Carriages == SparesKnown /\ LooseInTurn /\ Coupled

YardInv == TypeOK /\ Visits /\ OthersStand /\ ResidentsWait /\ Serving /\ Carriages

-----------------------------------------------------------------------------
(* Roads and points.                                                       *)

(* Roads have names of their own. *)
LEMMA RoadNames ==
    /\ Road \in Seq(STRING) /\ Len(Road) \in Nat /\ Len(Road) > 1 /\ DOMAIN Road = 1..Len(Road)
    /\ \A i, j \in DOMAIN Road : Road[i] = Road[j] => i = j
    /\ \A i \in DOMAIN Road : Road[i] \in Slot
    /\ Slot \subseteq STRING /\ None \notin Slot
    /\ {"thru", "throat", "lead", "line"} \cap Slot = {}
<1>1. Road \in Seq(STRING \ {"thru", "throat", "lead", "line"}) /\ Len(Road) > 1
  BY YardAssumption
<1>2. /\ Len(Road) \in Nat /\ DOMAIN Road = 1..Len(Road)
      /\ \A i \in DOMAIN Road : Road[i] \in STRING \ {"thru", "throat", "lead", "line"}
  BY <1>1
<1>3. Slot \subseteq STRING \ {"thru", "throat", "lead", "line"}
  BY <1>2 DEF Slot, Range
<1>4. \A i \in DOMAIN Road : Road[i] \in Slot
  BY DEF Slot, Range
<1>5. Road \in Seq(STRING)
  BY <1>1, <1>2
<1> QED
  BY <1>1, <1>2, <1>3, <1>4, <1>5, YardAssumption DEF IsInjective

(* A set of numbers that is not empty has a least one.                     *)
LEMMA LeastNumber ==
    ASSUME NEW S \in SUBSET Nat, S # {}
    PROVE  Min(S) \in S
<1>1. PICK n \in S : \A k \in S : <<k, n>> \notin OpToRel(<, Nat)
  BY NatLessThanWellFounded, WFMin, Zenon
<1>2. \A k \in S : k < n => <<k, n>> \in OpToRel(<, Nat)
  BY Zenon DEF OpToRel
<1>3. \A k \in S : ~(k < n)
  BY <1>1, <1>2, Zenon
<1>4. \A k \in S : n <= k
  BY <1>3
<1> QED
  BY <1>4 DEF Min

(* Counting on from the last of n begins again.                            *)
LEMMA Remainders ==
    \A n \in Nat \ {0} : n % n = 0 /\ \A a \in 0..n - 1 : a % n = a
  BY SMT

(* The controller looks for an empty road past the one of the spares, and  *)
(* there is one (pickFreeSlot); its cursor stays among the roads.          *)
LEMMA FreeSlotFound ==
    ASSUME entryHint \in DOMAIN Road, NEW s
    PROVE  /\ PickFreeSlot(s) \in DOMAIN Road /\ Road[PickFreeSlot(s)] # s
           /\ Cursor(PickFreeSlot(s)) \in DOMAIN Road
<1> DEFINE n == Len(Road)
           index(i) == 1 + ((entryHint - 1 + i) % n)
           free == {i \in 0..n - 1 : Road[index(i)] # s}
<1>1. n \in Nat /\ n > 1 /\ DOMAIN Road = 1..n /\ entryHint \in 1..n
  BY RoadNames
<1> HIDE DEF n
<1>2. \A i \in Nat : index(i) \in 1..n
  BY <1>1
<1>3. index(0) = entryHint
  BY <1>1, Remainders
<1>4. index(1) # entryHint
  <2>1. CASE entryHint = n
    BY <1>1, <2>1, Remainders
  <2>2. CASE entryHint < n
    BY <1>1, <2>2, Remainders
  <2> QED
    BY <1>1, <2>1, <2>2
<1>5. Road[index(0)] # Road[index(1)]
  BY <1>1, <1>2, <1>3, <1>4, RoadNames
<1>6. free # {}
  BY <1>1, <1>5
<1>7. Min(free) \in free /\ Min(free) \in Nat
  <2>1. free \subseteq Nat
    BY <1>1
  <2> HIDE DEF free
  <2> QED
    BY <1>6, <2>1, LeastNumber
<1>8. PickFreeSlot(s) = index(Min(free))
  BY DEF PickFreeSlot, n
<1>9. PickFreeSlot(s) \in 1..n /\ Road[PickFreeSlot(s)] # s
  <2>1. Road[index(Min(free))] # s
    BY <1>7
  <2> HIDE DEF free, index
  <2> QED
    BY <1>2, <1>7, <1>8, <2>1
<1>10. Cursor(PickFreeSlot(s)) \in 1..n
  <2> HIDE DEF free, index
  <2>1. Cursor(PickFreeSlot(s)) = 1 + (PickFreeSlot(s) % n)
    BY DEF Cursor, n
  <2> QED
    BY <1>1, <1>9, <2>1
<1> QED
  BY <1>1, <1>9, <1>10

(* What the search for stock finds is a road with something in it.         *)
LEMMA StockFound ==
    SearchForStock = None \/ (SearchForStock \in Slot /\ Occupied(SearchForStock))
<1> DEFINE found == {i \in DOMAIN Road : Occupied(Road[i])}
<1>1. CASE found = {}
  BY <1>1 DEF SearchForStock
<1>2. CASE found # {}
  <2>1. found \subseteq Nat
    BY RoadNames
  <2>2. Min(found) \in found
    BY <1>2, <2>1, LeastNumber
  <2>3. SearchForStock = Road[Min(found)]
    BY <1>2 DEF SearchForStock
  <2> QED
    BY <2>2, <2>3, RoadNames
<1> QED
  BY <1>1, <1>2

(* A cut leaves something to be shed (scanForCut).                         *)
LEMMA CutSheds ==
    ASSUME NEW n \in Nat \ {0}
    PROVE  Max({0, n - ShedCars}) \in Nat /\ Max({0, n - ShedCars}) < n
<1>1. PICK m \in {0, n - 2} : m >= 0 /\ m >= n - 2
  <2>1. CASE n <= 2
    BY <2>1
  <2>2. CASE n > 2
    BY <2>2
  <2> QED
    BY <2>1, <2>2
<1>2. Max({0, n - 2}) \in {0, n - 2} /\ \A y \in {0, n - 2} : Max({0, n - 2}) >= y
  BY <1>1 DEF Max
<1> QED
  BY <1>2 DEF ShedCars

-----------------------------------------------------------------------------
(* Messages.                                                               *)

(* Messages are told apart, and speak of one train or of none. *)
LEMMA Messages ==
    /\ \A t \in Train : TagObserved(t) \in Message /\ Released(t) \in Message
    /\ \A n \in 0..Capacity : ZoneState(n) \in Message /\ ZoneState(n).occupancy = n
    /\ \A t : TagObserved(t).train = t /\ Released(t).train = t /\ TagObserved(t) # Released(t)
    /\ \A n, t : ZoneState(n).train = None /\ ZoneState(n) # TagObserved(t) /\ ZoneState(n) # Released(t)
    /\ None \notin Train
  BY YardAssumption DEF Message, TagObserved, Released, ZoneState

(* What a queue says of a train, once message m is added to it: nothing    *)
(* else, if m is about another; else what m says too.                      *)
LEMMA MessageAdded ==
    ASSUME NEW q \in Seq(Message), NEW m \in Message, NEW t \in Train
    PROVE  /\ Append(q, m) \in Seq(Message)
           /\ m.train # t =>
                /\ Silent(q, t) => Silent(Append(q, m), t)
                /\ OnlyTag(q, t) => OnlyTag(Append(q, m), t)
                /\ OnlyReleased(q, t) => OnlyReleased(Append(q, m), t)
                /\ TagThenReleased(q, t) => TagThenReleased(Append(q, m), t)
           /\ Silent(q, t) /\ m = TagObserved(t) => OnlyTag(Append(q, m), t)
           /\ Silent(q, t) /\ m = Released(t) => OnlyReleased(Append(q, m), t)
           /\ OnlyTag(q, t) /\ m = Released(t) => TagThenReleased(Append(q, m), t)
<1> DEFINE r == Append(q, m)
           n == Len(q)
<1>1. /\ n \in Nat /\ DOMAIN q = 1..n /\ DOMAIN r = 1..n + 1
      /\ r[n + 1] = m /\ \A i \in 1..n : r[i] = q[i]
  BY AppendProperties
<1>2. r \in Seq(Message)
  BY AppendProperties
<1> HIDE DEF r, n
<1>3. ASSUME m.train # t, Silent(q, t)
      PROVE  Silent(r, t)
  BY <1>1, <1>3 DEF Silent
<1>4. ASSUME m.train # t, OnlyTag(q, t)
      PROVE  OnlyTag(r, t)
  BY <1>1, <1>4 DEF OnlyTag
<1>5. ASSUME m.train # t, OnlyReleased(q, t)
      PROVE  OnlyReleased(r, t)
  BY <1>1, <1>5 DEF OnlyReleased
<1>6. ASSUME m.train # t, TagThenReleased(q, t)
      PROVE  TagThenReleased(r, t)
  BY <1>1, <1>6 DEF TagThenReleased
<1>7. ASSUME Silent(q, t), m = TagObserved(t)
      PROVE  OnlyTag(r, t)
  <2>1. n + 1 \in DOMAIN r /\ r[n + 1] = TagObserved(t)
    BY <1>1, <1>7
  <2>2. \A j \in DOMAIN r \ {n + 1} : r[j].train # t
    BY <1>1, <1>7 DEF Silent
  <2> QED
    BY <2>1, <2>2 DEF OnlyTag
<1>8. ASSUME Silent(q, t), m = Released(t)
      PROVE  OnlyReleased(r, t)
  <2>1. n + 1 \in DOMAIN r /\ r[n + 1] = Released(t)
    BY <1>1, <1>8
  <2>2. \A j \in DOMAIN r \ {n + 1} : r[j].train # t
    BY <1>1, <1>8 DEF Silent
  <2> QED
    BY <2>1, <2>2 DEF OnlyReleased
<1>9. ASSUME OnlyTag(q, t), m = Released(t)
      PROVE  TagThenReleased(r, t)
  <2>1. PICK i \in DOMAIN q : q[i] = TagObserved(t) /\ \A j \in DOMAIN q \ {i} : q[j].train # t
    BY <1>9 DEF OnlyTag
  <2>2. i \in DOMAIN r /\ n + 1 \in DOMAIN r /\ i < n + 1 /\ r[i] = TagObserved(t) /\ r[n + 1] = Released(t)
    BY <1>1, <1>9, <2>1
  <2>3. \A j \in DOMAIN r \ {i, n + 1} : r[j].train # t
    BY <1>1, <2>1
  <2> QED
    BY <2>2, <2>3 DEF TagThenReleased
<1> QED
  BY <1>2, <1>3, <1>4, <1>5, <1>6, <1>7, <1>8, <1>9 DEF r

(* What a queue says of a train, once its first message has been received. *)
LEMMA MessageReceived ==
    ASSUME NEW q \in Seq(Message), q # <<>>, NEW t \in Train
    PROVE  /\ Tail(q) \in Seq(Message) /\ Head(q) \in Message
           /\ Head(q).train # t =>
                /\ Silent(q, t) => Silent(Tail(q), t)
                /\ OnlyTag(q, t) => OnlyTag(Tail(q), t)
                /\ OnlyReleased(q, t) => OnlyReleased(Tail(q), t)
                /\ TagThenReleased(q, t) => TagThenReleased(Tail(q), t)
           /\ Head(q).train = t =>
                /\ ~Silent(q, t)
                /\ OnlyTag(q, t) => Head(q) = TagObserved(t) /\ Silent(Tail(q), t)
                /\ OnlyReleased(q, t) => Head(q) = Released(t) /\ Silent(Tail(q), t)
                /\ TagThenReleased(q, t) => Head(q) = TagObserved(t) /\ OnlyReleased(Tail(q), t)
<1> DEFINE r == Tail(q)
           n == Len(q)
           h == Head(q)
<1>1. /\ n \in Nat /\ n > 0 /\ DOMAIN q = 1..n /\ DOMAIN r = 1..n - 1 /\ h = q[1]
      /\ \A i \in 1..n - 1 : i + 1 \in 1..n /\ r[i] = q[i + 1]
      /\ \A i \in 2..n : i - 1 \in 1..n - 1 /\ r[i - 1] = q[i]
  BY HeadTailProperties
<1>2. r \in Seq(Message) /\ h \in Message
  BY HeadTailProperties
<1> HIDE DEF r, n, h
<1>3. ASSUME h.train # t, Silent(q, t)
      PROVE  Silent(r, t)
  <2> SUFFICES ASSUME NEW j \in DOMAIN r
               PROVE  r[j].train # t
    BY DEF Silent
  <2>1. j + 1 \in DOMAIN q /\ r[j] = q[j + 1]
    BY <1>1
  <2> QED
    BY <1>3, <2>1 DEF Silent
<1>4. ASSUME OnlyTag(q, t)
      PROVE  IF h.train = t THEN h = TagObserved(t) /\ Silent(r, t) ELSE OnlyTag(r, t)
  <2>1. PICK i \in DOMAIN q : q[i] = TagObserved(t) /\ \A j \in DOMAIN q \ {i} : q[j].train # t
    BY <1>4 DEF OnlyTag
  <2>2. CASE i = 1
    BY <1>1, <2>1, <2>2, Messages DEF Silent
  <2>3. CASE i # 1
    <3>1. i - 1 \in DOMAIN r /\ r[i - 1] = TagObserved(t) /\ h.train # t
      <4>1. i \in 2..n /\ 1 \in DOMAIN q \ {i}
        BY <1>1, <2>1, <2>3
      <4>2. h.train # t
        BY <1>1, <2>1, <4>1
      <4>3. i - 1 \in DOMAIN r /\ r[i - 1] = q[i]
        BY <1>1, <4>1
      <4> QED
        BY <2>1, <4>2, <4>3
    <3>2. \A j \in DOMAIN r \ {i - 1} : r[j].train # t
      <4> TAKE j \in DOMAIN r \ {i - 1}
      <4>1. j + 1 \in DOMAIN q /\ r[j] = q[j + 1]
        BY <1>1
      <4>2. j \in 1..n - 1 /\ i \in 1..n /\ j # i - 1
        BY <1>1
      <4>3. j + 1 # i
        BY <1>1, <4>2
      <4> QED
        BY <2>1, <4>1, <4>3
    <3> QED
      BY <3>1, <3>2 DEF OnlyTag
  <2> QED
    BY <2>2, <2>3
<1>5. ASSUME OnlyReleased(q, t)
      PROVE  IF h.train = t THEN h = Released(t) /\ Silent(r, t) ELSE OnlyReleased(r, t)
  <2>1. PICK i \in DOMAIN q : q[i] = Released(t) /\ \A j \in DOMAIN q \ {i} : q[j].train # t
    BY <1>5 DEF OnlyReleased
  <2>2. CASE i = 1
    BY <1>1, <2>1, <2>2, Messages DEF Silent
  <2>3. CASE i # 1
    <3>1. i - 1 \in DOMAIN r /\ r[i - 1] = Released(t) /\ h.train # t
      <4>1. i \in 2..n /\ 1 \in DOMAIN q \ {i}
        BY <1>1, <2>1, <2>3
      <4>2. h.train # t
        BY <1>1, <2>1, <4>1
      <4>3. i - 1 \in DOMAIN r /\ r[i - 1] = q[i]
        BY <1>1, <4>1
      <4> QED
        BY <2>1, <4>2, <4>3
    <3>2. \A j \in DOMAIN r \ {i - 1} : r[j].train # t
      <4> TAKE j \in DOMAIN r \ {i - 1}
      <4>1. j + 1 \in DOMAIN q /\ r[j] = q[j + 1]
        BY <1>1
      <4>2. j \in 1..n - 1 /\ i \in 1..n /\ j # i - 1
        BY <1>1
      <4>3. j + 1 # i
        BY <1>1, <4>2
      <4> QED
        BY <2>1, <4>1, <4>3
    <3> QED
      BY <3>1, <3>2 DEF OnlyReleased
  <2> QED
    BY <2>2, <2>3
<1>6. ASSUME TagThenReleased(q, t)
      PROVE  IF h.train = t THEN h = TagObserved(t) /\ OnlyReleased(r, t)
             ELSE TagThenReleased(r, t)
  <2>1. PICK i \in DOMAIN q, k \in DOMAIN q :
            /\ i < k /\ q[i] = TagObserved(t) /\ q[k] = Released(t)
            /\ \A j \in DOMAIN q \ {i, k} : q[j].train # t
    BY <1>6 DEF TagThenReleased
  <2>2. k - 1 \in DOMAIN r /\ r[k - 1] = Released(t)
    BY <1>1, <2>1
  <2>3. CASE i = 1
    <3>1. \A j \in DOMAIN r \ {k - 1} : r[j].train # t
      <4> TAKE j \in DOMAIN r \ {k - 1}
      <4>1. j + 1 \in DOMAIN q /\ r[j] = q[j + 1] /\ j + 1 # i /\ j + 1 # k
        BY <1>1, <2>1, <2>3
      <4> QED
        BY <2>1, <4>1
    <3> QED
      BY <1>1, <2>1, <2>2, <2>3, <3>1, Messages DEF OnlyReleased
  <2>4. CASE i # 1
    <3>1. i - 1 \in DOMAIN r /\ r[i - 1] = TagObserved(t) /\ h.train # t /\ i - 1 < k - 1
      <4>1. i \in 2..n /\ k \in 1..n /\ i < k
        BY <1>1, <2>1, <2>4
      <4>2. 1 \in DOMAIN q \ {i, k}
        BY <1>1, <4>1
      <4>3. h.train # t
        BY <1>1, <2>1, <4>2
      <4>4. i - 1 \in DOMAIN r /\ r[i - 1] = TagObserved(t)
        BY <1>1, <2>1, <4>1
      <4> QED
        BY <4>1, <4>3, <4>4
    <3>2. \A j \in DOMAIN r \ {i - 1, k - 1} : r[j].train # t
      <4> TAKE j \in DOMAIN r \ {i - 1, k - 1}
      <4>1. j + 1 \in DOMAIN q /\ r[j] = q[j + 1] /\ j + 1 # i /\ j + 1 # k
        BY <1>1, <2>1, <2>4
      <4> QED
        BY <2>1, <4>1
    <3> QED
      BY <2>2, <3>1, <3>2 DEF TagThenReleased
  <2> QED
    BY <2>3, <2>4
<1>7. h.train = t => ~Silent(q, t)
  BY <1>1 DEF Silent
<1> QED
  BY <1>2, <1>3, <1>4, <1>5, <1>6, <1>7 DEF r, h

-----------------------------------------------------------------------------
(* Steps of the scheduler.                                                 *)

Statuses == {"away", "waiting", "cleared", "inside", "released", "leaving"}

(* A pass clears trains that wait, and leaves the others as they were.     *)
LEMMA PassClears ==
    ASSUME NEW st \in [Train -> Statuses], NEW n, NEW new \in Retried(st, n)
    PROVE  /\ new \in [Train -> Statuses]
           /\ \A t \in Train :
                \/ new[t] = st[t]
                \/ st[t] = "waiting" /\ new[t] = "cleared"
                \/ st[t] = "released" /\ new[t] = "leaving"
<1>1. CASE new = st
  BY <1>1
<1>2. CASE new # st
  <2>1. PICK t \in MayEnter(st, n) \cup MayLeave(st) : new = Cleared(st, t)
    BY <1>2 DEF Retried
  <2> QED
    BY <2>1 DEF MayEnter, MayLeave, Cleared, Statuses
<1> QED
  BY <1>1, <1>2

(* Who is admitted stands at the throat, and is not admitted yet.          *)
LEMMA SensedAtThroat ==
    ASSUME TypeOK
    PROVE  \/ Sensed = residents
           \/ \E t \in Train \ Range(residents) :
                /\ place[t] = "throat" /\ motor[t] = "stopped"
                /\ Len(residents) < Capacity
                /\ Sensed = Append(residents, t)
<1> DEFINE fresh == IF Len(residents) < Capacity THEN Sighted \ Range(residents) ELSE {}
<1>1. CASE fresh = {}
  BY <1>1 DEF Sensed
<1>2. CASE fresh # {}
  <2> DEFINE t == CHOOSE u \in fresh : TRUE
  <2>1. t \in fresh
    BY <1>2
  <2>2. Sensed = Append(residents, t)
    BY <1>2 DEF Sensed
  <2>3. Len(residents) < Capacity /\ t \in Sighted \ Range(residents)
    BY <2>1
  <2> HIDE DEF t, fresh
  <2> QED
    BY <2>2, <2>3 DEF Sighted
<1> QED
  BY <1>1, <1>2

-----------------------------------------------------------------------------
(* Steps of the scheduler keep the invariant.                              *)

(* They leave the yard as it is.                                           *)
LEMMA YardUntouched ==
    ASSUME YardInv, Visits', UNCHANGED <<deviceVars, west, east, trackVars, motor>>,
           status' \in [Train -> Statuses], asserted' \in 0..Capacity, misled' \in BOOLEAN
    PROVE  YardInv'
<1> USE DEF YardInv, deviceVars, trackVars
<1>1. TypeOK'
  BY DEF TypeOK, Statuses
<1>2. OthersStand' /\ ResidentsWait'
  BY DEF OthersStand, ResidentsWait
<1>3. Serving'
  BY DEF Serving, Progress, LeadIsOurs
<1>4. Carriages'
  BY DEF Carriages, SparesKnown, LooseInTurn, Coupled, Loose, Shed, Phase
<1> QED
  BY <1>1, <1>2, <1>3, <1>4

(* A pass at the end of a handler.                                         *)
LEMMA PassKeepsVisits ==
    ASSUME NEW st \in [Train -> Statuses], NEW n, status' \in Retried(st, n),
           UNCHANGED <<place, residents>>, toCore' \in Seq(Message),
           \A t \in Train : VisitAs(t, st[t], toCore')
    PROVE  Visits' /\ status' \in [Train -> Statuses]
<1>1. /\ status' \in [Train -> Statuses]
      /\ \A t \in Train :
           \/ status'[t] = st[t]
           \/ st[t] = "waiting" /\ status'[t] = "cleared"
           \/ st[t] = "released" /\ status'[t] = "leaving"
  BY PassClears
<1>2. ASSUME NEW t \in Train
      PROVE  Visit(t)'
  BY <1>1, <1>2 DEF Visit, VisitAs
<1> QED
  BY <1>1, <1>2 DEF Visits

(* The scheduler hears of a train at the throat or past it, of the         *)
(* occupancy, or that a train is its own again.                            *)
LEMMA ReceiveKeeps ==
    ASSUME YardInv, Receive
    PROVE  YardInv'
<1> DEFINE e == Head(toCore)
<1>1. /\ status \in [Train -> Statuses] /\ asserted \in 0..Capacity /\ toCore \in Seq(Message)
      /\ \A t \in Train : VisitAs(t, status[t], toCore)
      /\ toCore # <<>> /\ toCore' = Tail(toCore) /\ e \in Message
  BY MessageReceived DEF YardInv, TypeOK, Visits, Visit, Receive, Statuses
<1>2. UNCHANGED <<deviceVars, west, east, trackVars, motor>> /\ misled' \in BOOLEAN
  BY DEF YardInv, TypeOK, Receive
<1>3. toCore' \in Seq(Message)
  BY <1>1, MessageReceived
<1>4. \A t \in Train : e.train # t => VisitAs(t, status[t], toCore')
  <2> TAKE t \in Train
  <2> HAVE e.train # t
  <2> QED
    BY <1>1, MessageReceived DEF VisitAs
<1>5. CASE e.event = "tag_observed" /\ AtMarker(e.train) /\ UNCHANGED asserted
  <2>1. PICK t \in Train : e = TagObserved(t)
    BY <1>1, <1>5 DEF Message, TagObserved, ZoneState, Released
  <2> DEFINE st == [status EXCEPT ![t] = IF @ = "cleared" THEN "inside" ELSE "away"]
  <2>2. status' \in Retried(st, asserted) /\ e.train = t
    <3>1. e.train = t
      BY <2>1, Messages
    <3>2. AtMarker(t)
      BY <1>5, <3>1
    <3> QED
      BY <3>1, <3>2 DEF AtMarker
  <2>3. st \in [Train -> Statuses]
    BY <1>1 DEF Statuses
  <2>4. VisitAs(t, st[t], toCore')
    <3>1. \/ OnlyTag(toCore, t) /\ Silent(toCore', t)
          \/ TagThenReleased(toCore, t) /\ OnlyReleased(toCore', t)
      BY <1>1, <2>1, <2>2, MessageReceived, Messages DEF VisitAs
    <3> QED
      BY <1>1, <2>1, <2>2, <3>1, MessageReceived, Messages DEF VisitAs
  <2>5. \A u \in Train : VisitAs(u, st[u], toCore')
    BY <1>1, <1>4, <2>2, <2>4
  <2> HIDE DEF st
  <2>6. Visits' /\ status' \in [Train -> Statuses]
    BY <1>2, <1>3, <2>2, <2>3, <2>5, PassKeepsVisits DEF deviceVars, trackVars
  <2> QED
    BY <1>1, <1>2, <1>5, <2>6, YardUntouched
<1>6. CASE /\ e.event = "zone_state_changed" /\ asserted' = e.occupancy
           /\ status' \in Retried(status, e.occupancy)
  <2>1. PICK n \in 0..Capacity : e = ZoneState(n)
    BY <1>1, <1>6 DEF Message, TagObserved, ZoneState, Released
  <2>2. e.train \notin Train /\ asserted' \in 0..Capacity
    BY <1>6, <2>1, Messages
  <2>3. Visits' /\ status' \in [Train -> Statuses]
    BY <1>1, <1>2, <1>3, <1>4, <1>6, <2>2, PassKeepsVisits DEF deviceVars, trackVars
  <2> QED
    BY <1>2, <2>2, <2>3, YardUntouched
<1>7. CASE e.event = "zone_train_released" /\ ZoneTrainReleased(e.train) /\ UNCHANGED asserted
  <2>1. PICK t \in Train : e = Released(t)
    BY <1>1, <1>7 DEF Message, TagObserved, ZoneState, Released
  <2>2. e.train = t /\ OnlyReleased(toCore, t) /\ Silent(toCore', t)
        /\ place[t] = "lead" /\ t \notin Range(residents) /\ status[t] = "inside"
    BY <1>1, <2>1, MessageReceived, Messages DEF VisitAs
  <2> DEFINE st == [status EXCEPT ![t] = "released"]
  <2>3. status' \in Retried(st, asserted) /\ st \in [Train -> Statuses]
    BY <1>1, <1>7, <2>2 DEF ZoneTrainReleased, Statuses
  <2>4. \A u \in Train : VisitAs(u, st[u], toCore')
    BY <1>1, <1>4, <2>2 DEF VisitAs
  <2> HIDE DEF st
  <2>5. Visits' /\ status' \in [Train -> Statuses]
    BY <1>2, <1>3, <2>3, <2>4, PassKeepsVisits DEF deviceVars, trackVars
  <2> QED
    BY <1>1, <1>2, <1>7, <2>5, YardUntouched
<1> QED
  BY <1>5, <1>6, <1>7 DEF Receive

(* A train comes near; the line ahead of another is clear.                 *)
LEMMA ApproachKeeps ==
    ASSUME YardInv, NEW t \in Train, Approach(t) \/ Onward(t)
    PROVE  YardInv'
<1>1. /\ status \in [Train -> Statuses] /\ asserted \in 0..Capacity /\ toCore \in Seq(Message)
      /\ \A u \in Train : VisitAs(u, status[u], toCore)
  BY DEF YardInv, TypeOK, Visits, Visit, Statuses
<1>2. UNCHANGED <<deviceVars, west, east, trackVars, motor, asserted, toCore>> /\ misled' \in BOOLEAN
  BY DEF YardInv, TypeOK, Approach, Onward
<1>3. CASE Approach(t)
  <2> DEFINE st == [status EXCEPT ![t] = "waiting"]
  <2>1. status' \in Retried(st, asserted) /\ st \in [Train -> Statuses]
    BY <1>1, <1>3 DEF Approach, Statuses
  <2>2. \A u \in Train : VisitAs(u, st[u], toCore')
    BY <1>1, <1>2, <1>3 DEF Approach, VisitAs
  <2> HIDE DEF st
  <2>3. Visits' /\ status' \in [Train -> Statuses]
    BY <1>1, <1>2, <2>1, <2>2, PassKeepsVisits DEF deviceVars, trackVars
  <2> QED
    BY <1>1, <1>2, <2>3, YardUntouched
<1>4. CASE Onward(t)
  <2>1. status[t] = "released" /\ status' = [status EXCEPT ![t] = "leaving"]
    BY <1>1, <1>4 DEF Onward, MayLeave, Cleared
  <2>2. status' \in [Train -> Statuses]
    BY <1>1, <2>1 DEF Statuses
  <2>3. Visits'
    BY <1>1, <1>2, <2>1 DEF Visits, Visit, VisitAs, deviceVars, trackVars
  <2> QED
    BY <1>1, <1>2, <2>2, <2>3, YardUntouched
<1> QED
  BY <1>3, <1>4

-----------------------------------------------------------------------------
(* Steps of the trains keep the invariant.                                 *)

(* A train that comes to the throat, or draws off the lead.                *)
LEMMA LineKeeps ==
    ASSUME YardInv, NEW t \in Train, Arrive(t) \/ Depart(t)
    PROVE  YardInv'
<1>1. /\ place \in [Train -> Slot \cup {"line", "throat", "lead"}]
      /\ toCore \in Seq(Message) /\ \A u \in Train : Visit(u)
      /\ residents \in Seq(Train)
  BY DEF YardInv, TypeOK, Visits
<1>2. /\ toCore' = Append(toCore, TagObserved(t))
      /\ UNCHANGED <<coreVars, deviceVars, west, east, motor, rake, stock, misled>>
      /\ \E p \in {"throat", "line"} : place' = [place EXCEPT ![t] = p]
  BY DEF Arrive, Depart
<1>3. \/ place[t] = "line" /\ place'[t] = "throat" /\ \A u \in Train : place[u] # "throat"
      \/ place[t] = "lead" /\ place'[t] = "line" /\ t \notin Range(residents)
  <2>1. CASE Arrive(t)
    BY <1>1, <2>1 DEF Arrive
  <2>2. CASE Depart(t)
    BY <1>1, <2>2 DEF Depart, Visit, VisitAs
  <2> QED
    BY <2>1, <2>2
<1>4. t \notin Range(residents)
  <2>1. ASSUME NEW i \in DOMAIN residents, residents[i] = t, place[t] = "line"
        PROVE  FALSE
    <3>1. CASE service = None \/ i > 1
      BY <2>1, <3>1 DEF YardInv, ResidentsWait
    <3>2. CASE service # None /\ i = 1
      BY <1>1, <2>1, <3>2, RoadNames DEF YardInv, Serving, Progress, TypeOK, Service
    <3> QED
      BY <1>1, <2>1, <3>1, <3>2
  <2> QED
    BY <1>3, <2>1 DEF Range
<1>5. service # None => t # Head(residents)
  BY <1>1, <1>4 DEF YardInv, Serving, Range
<1>6. TypeOK'
  BY <1>1, <1>2 DEF YardInv, TypeOK, coreVars, deviceVars
<1>7. Visits'
  <2>1. toCore' \in Seq(Message)
    BY <1>1, <1>2, Messages, MessageAdded
  <2>2. ASSUME NEW u \in Train \ {t}
        PROVE  Visit(u)'
    <3>1. place'[u] = place[u] /\ status'[u] = status[u] /\ residents' = residents /\ Visit(u)
      BY <1>1, <1>2 DEF coreVars, deviceVars
    <3>2. TagObserved(t) \in Message /\ TagObserved(t).train # u
      BY Messages
    <3> QED
      BY <1>1, <1>2, <3>1, <3>2, MessageAdded DEF Visit, VisitAs
  <2>3. Visit(t)'
    <3>1. \/ status[t] = "cleared" /\ place[t] = "line" /\ place'[t] = "throat"
          \/ status[t] = "leaving" /\ place[t] = "lead" /\ place'[t] = "line"
      BY <1>1 DEF Arrive, Depart
    <3>2. Silent(toCore, t) /\ status'[t] = status[t]
      BY <1>1, <1>2, <3>1 DEF Visit, VisitAs, coreVars
    <3>3. OnlyTag(toCore', t)
      BY <1>1, <1>2, <3>2, Messages, MessageAdded
    <3> QED
      BY <3>1, <3>2, <3>3 DEF Visit, VisitAs
  <2> QED
    BY <2>1, <2>2, <2>3 DEF Visits
<1>8. OthersStand'
  BY <1>1, <1>2 DEF YardInv, OthersStand, deviceVars
<1>9. ResidentsWait'
  <2>1. \A i \in DOMAIN residents : place'[residents[i]] = place[residents[i]]
    BY <1>1, <1>2, <1>4 DEF Range
  <2> QED
    BY <1>1, <1>2, <1>3, <2>1 DEF YardInv, ResidentsWait, deviceVars
<1>10. Serving'
  <2>1. service # None => Head(residents) \in Train
    BY <1>1 DEF YardInv, Serving
  <2> QED
    BY <1>1, <1>2, <1>5, <2>1 DEF YardInv, Serving, Progress, LeadIsOurs, deviceVars
<1>11. Carriages'
  <2>1. \A u \in Train : Shed(u)' <=> Shed(u)
    BY <1>1, <1>2, <1>5 DEF Shed, deviceVars
  <2>2. service # None => Head(residents) \in Train
    BY <1>1 DEF YardInv, Serving
  <2>3. SparesKnown' /\ Coupled'
    BY <1>2, <2>1 DEF YardInv, Carriages, SparesKnown, Coupled, Phase, deviceVars
  <2>4. LooseInTurn'
    BY <1>2, <2>1, <2>2 DEF YardInv, Carriages, LooseInTurn, Loose, deviceVars
  <2> QED
    BY <2>3, <2>4 DEF Carriages
<1> QED
  BY <1>6, <1>7, <1>8, <1>9, <1>10, <1>11 DEF YardInv

(* The train that rolls is the one that is served: where it is, and where  *)
(* it gets to.                                                             *)
LEMMA RollsWhereItMay ==
    ASSUME YardInv, NEW t \in Train, Roll(t)
    PROVE  /\ service # None /\ t = Head(residents)
           /\ \/ /\ service.phase = "rest" /\ motor[t] = "forward"
                 /\ place[t] = "throat" /\ place'[t] = service.entry
              \/ /\ service.phase = "pull-clear" /\ motor[t] = "forward"
                 /\ place[t] = service.entry /\ place'[t] = "lead"
              \/ /\ service.phase = "to-spares" /\ motor[t] = "reverse"
                 /\ place[t] = "lead" /\ place'[t] = sparesSlot
              \/ /\ service.phase \in {"settle", "exit"} /\ motor[t] = "forward"
                 /\ place[t] = sparesSlot /\ place'[t] = "lead"
<1>1. service # None /\ t = Head(residents)
  BY DEF Roll, YardInv, OthersStand
<1>2. /\ service.entry \in Slot /\ sparesSlot \in Slot /\ service.entry # sparesSlot
      /\ west = service.entry /\ Progress(service, t)
      /\ place \in [Train -> Slot \cup {"line", "throat", "lead"}]
  BY <1>1 DEF YardInv, TypeOK, Serving, Service
<1>3. /\ motor[t] # "stopped" /\ ~(motor[t] = "forward" /\ place[t] = "lead")
      /\ place'[t] # place[t]
      /\ place'[t] = IF motor[t] = "forward" THEN Ahead(place[t]) ELSE Behind(place[t])
  BY <1>2 DEF Roll
<1>4. "thru" \notin Slot /\ "throat" \notin Slot /\ "lead" \notin Slot
  BY RoadNames
<1>5. CASE service.phase = "rest"
  BY <1>1, <1>2, <1>3, <1>4, <1>5 DEF Progress, Ahead
<1>6. CASE service.phase = "decouple"
  BY <1>1, <1>2, <1>3, <1>6 DEF Progress
<1>7. CASE service.phase = "pull-clear"
  BY <1>1, <1>2, <1>3, <1>4, <1>7 DEF Progress, Ahead
<1>8. CASE service.phase = "to-spares"
  BY <1>1, <1>2, <1>3, <1>4, <1>8 DEF Progress, Behind
<1>9. CASE service.phase \in {"settle", "exit"}
  BY <1>1, <1>2, <1>3, <1>4, <1>9 DEF Progress, Ahead
<1> QED
  BY <1>2, <1>5, <1>6, <1>7, <1>8, <1>9 DEF Progress

LEMMA RollKeeps ==
    ASSUME YardInv, NEW t \in Train, Roll(t)
    PROVE  YardInv'
<1> DEFINE h == Head(residents)
<1>1. /\ service # None /\ t = h
      /\ \/ /\ service.phase = "rest" /\ motor[t] = "forward"
            /\ place[t] = "throat" /\ place'[t] = service.entry
         \/ /\ service.phase = "pull-clear" /\ motor[t] = "forward"
            /\ place[t] = service.entry /\ place'[t] = "lead"
         \/ /\ service.phase = "to-spares" /\ motor[t] = "reverse"
            /\ place[t] = "lead" /\ place'[t] = sparesSlot
         \/ /\ service.phase \in {"settle", "exit"} /\ motor[t] = "forward"
            /\ place[t] = sparesSlot /\ place'[t] = "lead"
  BY RollsWhereItMay
<1>2. /\ place \in [Train -> Slot \cup {"line", "throat", "lead"}]
      /\ rake \in [Train -> Nat] /\ stock \in [Slot -> Nat]
      /\ service.entry \in Slot /\ sparesSlot \in Slot /\ service.entry # sparesSlot
      /\ residents \in Seq(Train) /\ residents # <<>>
  BY <1>1 DEF YardInv, TypeOK, Serving, Service
<1>3. /\ UNCHANGED <<coreVars, toCore, deviceVars, west, east, motor, rebuilds, misled>>
      /\ place' = [place EXCEPT ![t] = place'[t]]
  BY <1>2 DEF Roll
<1>4. place'[t] \in Slot \cup {"lead"} /\ place[t] \notin {"line"} /\ place'[t] # "throat"
      /\ place'[t] # "line"
  BY <1>1, <1>2, RoadNames
<1>5. t \in Range(residents) /\ residents[1] = t /\ \A i \in DOMAIN residents : i > 1 => residents[i] # t
  BY <1>1, <1>2 DEF YardInv, TypeOK, IsInjective, Range
<1>6. IF service.phase = "to-spares"
      THEN /\ stock[sparesSlot] > 0 /\ stock' = [stock EXCEPT ![sparesSlot] = 0]
           /\ rake' = [rake EXCEPT ![t] = @ + stock[sparesSlot]]
      ELSE UNCHANGED <<rake, stock>>
  <2>1. CASE service.phase = "to-spares"
    <3>1. Shed(t) /\ place'[t] = sparesSlot /\ motor[t] = "reverse"
      BY <1>1, <2>1 DEF Shed
    <3>2. stock[sparesSlot] > 0
      BY <1>1, <1>2, <2>1, <3>1 DEF YardInv, Carriages, LooseInTurn, Loose
    <3>3. Behind(place[t]) = sparesSlot
      BY <1>2, <3>1 DEF Roll
    <3> QED
      BY <1>2, <2>1, <3>1, <3>2, <3>3 DEF Roll
  <2>2. CASE service.phase # "to-spares"
    BY <1>1, <1>2, <2>2 DEF Roll
  <2> QED
    BY <2>1, <2>2
<1> HIDE DEF h
<1>7. TypeOK'
  <2>1. place' \in [Train -> Slot \cup {"line", "throat", "lead"}]
    BY <1>2, <1>3, <1>4
  <2>2. rake' \in [Train -> Nat] /\ stock' \in [Slot -> Nat]
    BY <1>2, <1>6
  <2> QED
    BY <1>3, <2>1, <2>2 DEF YardInv, TypeOK, coreVars, deviceVars
<1>8. Visits'
  <2>1. \A u \in Train \ {t} : Visit(u)'
    BY <1>2, <1>3 DEF YardInv, Visits, Visit, VisitAs, coreVars, deviceVars
  <2>2. Visit(t)'
    BY <1>3, <1>4, <1>5 DEF YardInv, Visits, Visit, VisitAs, coreVars, deviceVars
  <2> QED
    BY <1>3, <2>1, <2>2 DEF YardInv, Visits
<1>9. OthersStand'
  BY <1>1, <1>2, <1>3 DEF YardInv, OthersStand, deviceVars, h
<1>10. ResidentsWait'
  <2>1. \A i \in DOMAIN residents : i > 1 => residents[i] \in Train \ {t}
    BY <1>2, <1>5
  <2> QED
    BY <1>1, <1>2, <1>3, <1>4, <2>1 DEF YardInv, ResidentsWait, deviceVars
<1>11. Serving'
  <2>1. Progress(service, t)'
    BY <1>1, <1>2, <1>3, <1>4 DEF YardInv, Serving, Progress, deviceVars, h
  <2>2. LeadIsOurs(service, t)'
    BY <1>1, <1>2, <1>3 DEF YardInv, Serving, LeadIsOurs, deviceVars, h
  <2> QED
    BY <1>1, <1>2, <1>3, <2>1, <2>2 DEF YardInv, Serving, deviceVars, h
<1>12. Carriages'
  <2>1. \A u \in Train \ {t} : ~Shed(u) /\ ~Shed(u)' /\ rake'[u] = rake[u]
    BY <1>1, <1>2, <1>3, <1>6 DEF Shed, deviceVars, h
  <2>2. CASE service.phase = "to-spares"
    <3>1. Shed(t) /\ ~Shed(t)'
      BY <1>1, <1>2, <1>3, <1>4, <2>2, RoadNames DEF Shed, deviceVars, h
    <3>2. Loose({service.entry, sparesSlot})
      BY <1>1, <2>2, <3>1 DEF YardInv, Carriages, LooseInTurn, h
    <3>3. Loose({service.entry})'
      BY <1>2, <1>3, <1>6, <2>2, <3>2 DEF Loose, deviceVars
    <3>4. rake'[t] > 0
      BY <1>2, <1>6, <2>2
    <3> QED
      BY <1>1, <1>3, <2>1, <2>2, <3>1, <3>3, <3>4
      DEF YardInv, Carriages, SparesKnown, LooseInTurn, Coupled, Phase, deviceVars, h
  <2>3. CASE service.phase # "to-spares"
    <3>1. Shed(t)' <=> Shed(t)
      BY <1>1, <1>2, <1>3, <2>3 DEF Shed, deviceVars, h
    <3> QED
      BY <1>1, <1>3, <1>6, <2>1, <2>3, <3>1
      DEF YardInv, Carriages, SparesKnown, LooseInTurn, Coupled, Loose, Phase, deviceVars, h
  <2> QED
    BY <2>2, <2>3
<1> QED
  BY <1>7, <1>8, <1>9, <1>10, <1>11, <1>12 DEF YardInv

(* Carriages are stabled in a bare yard, while nobody is served.           *)
LEMMA StableKeeps ==
    ASSUME YardInv, NEW s \in Slot, Stable(s)
    PROVE  YardInv'
<1>1. /\ service = None /\ \A r \in Slot : stock[r] = 0
      /\ stock' = [stock EXCEPT ![s] = Spare] /\ stock \in [Slot -> Nat]
      /\ UNCHANGED <<coreVars, toCore, deviceVars, west, east, place, motor, rake, misled>>
  BY DEF YardInv, TypeOK, Stable
<1>2. TypeOK'
  BY <1>1, YardAssumption DEF YardInv, TypeOK, coreVars, deviceVars
<1>3. Visits' /\ OthersStand' /\ ResidentsWait' /\ Serving'
  BY <1>1 DEF YardInv, Visits, Visit, VisitAs, OthersStand, ResidentsWait, Serving, coreVars, deviceVars
<1>4. sparesSlot = None
  BY <1>1 DEF YardInv, TypeOK, Carriages, SparesKnown
<1>5. Carriages'
  BY <1>1, <1>4 DEF YardInv, Carriages, SparesKnown, LooseInTurn, Coupled, Shed, Phase, deviceVars
<1> QED
  BY <1>2, <1>3, <1>5 DEF YardInv

(* The device is made anew while nobody is served.                         *)
LEMMA RebuildKeeps ==
    ASSUME YardInv, Rebuild
    PROVE  YardInv'
<1>1. /\ service = None /\ service' = None /\ residents' = <<>> /\ sparesSlot' = None /\ entryHint' = 1
      /\ west' = "thru" /\ east' = "thru" /\ toCore' = Append(toCore, ZoneState(0))
      /\ UNCHANGED <<status, asserted, place, motor, rake, stock, misled>>
  BY DEF Rebuild, coreVars, trackVars
<1>2. TypeOK'
  <2>1. <<>> \in Seq(Train) /\ IsInjective(<<>>) /\ Len(<<>>) = 0 /\ 0 <= Capacity
    BY YardAssumption DEF IsInjective
  <2> QED
    BY <1>1, <2>1, RoadNames DEF YardInv, TypeOK
<1>3. Visits'
  <2>1. Range(residents') = {}
    BY <1>1 DEF Range
  <2>2. ZoneState(0) \in Message /\ \A t \in Train : ZoneState(0).train # t
    BY Messages, YardAssumption
  <2>3. toCore \in Seq(Message) /\ \A t \in Train : Visit(t)
    BY DEF YardInv, Visits
  <2>4. toCore' \in Seq(Message)
    BY <1>1, <2>2, <2>3
  <2>5. ASSUME NEW t \in Train
        PROVE  Visit(t)'
    BY <1>1, <2>1, <2>2, <2>3, MessageAdded DEF Visit, VisitAs
  <2> QED
    BY <2>4, <2>5 DEF Visits
<1>4. OthersStand' /\ ResidentsWait' /\ Serving'
  BY <1>1 DEF YardInv, OthersStand, ResidentsWait, Serving
<1>5. Carriages'
  BY <1>1 DEF YardInv, Carriages, SparesKnown, LooseInTurn, Coupled, Shed, Phase
<1> QED
  BY <1>2, <1>3, <1>4, <1>5 DEF YardInv

-----------------------------------------------------------------------------
(* Steps of the device keep the invariant.                                 *)

(* Who is admitted is put at the end of the queue, from the throat.        *)
Admission(now) ==
    /\ now \in Seq(Train) /\ IsInjective(now) /\ Len(now) <= Capacity
    /\ \A i \in DOMAIN now : service = None \/ i > 1 => place[now[i]] = "throat"
    /\ Range(residents) \subseteq Range(now)
    /\ \A t \in Range(now) \ Range(residents) : place[t] = "throat"
    /\ residents # <<>> => Head(now) = Head(residents)

(* A tick senses arrivals first.                                           *)
LEMMA SensedAdmits == YardInv => Admission(Sensed)
<1> SUFFICES ASSUME YardInv
             PROVE  Admission(Sensed)
  OBVIOUS
<1>1. /\ residents \in Seq(Train) /\ IsInjective(residents) /\ Len(residents) <= Capacity
      /\ \A i \in DOMAIN residents : service = None \/ i > 1 => place[residents[i]] = "throat"
      /\ (service # None => residents # <<>>) /\ Capacity \in Nat
  BY YardAssumption DEF YardInv, TypeOK, ResidentsWait, Serving
<1>2. CASE Sensed = residents
  BY <1>1, <1>2 DEF Admission
<1>3. CASE Sensed # residents
  <2>1. PICK t \in Train \ Range(residents) :
            /\ place[t] = "throat" /\ Len(residents) < Capacity /\ Sensed = Append(residents, t)
    BY <1>3, SensedAtThroat DEF YardInv
  <2> DEFINE now == Append(residents, t)
             n == Len(residents)
  <2>2. /\ now \in Seq(Train) /\ Len(now) = n + 1 /\ n \in Nat /\ DOMAIN now = 1..n + 1
        /\ DOMAIN residents = 1..n
        /\ now[n + 1] = t /\ \A i \in 1..n : now[i] = residents[i]
    BY <1>1, AppendProperties
  <2> HIDE DEF now, n
  <2>3. Range(now) = Range(residents) \cup {t}
    <3>1. \A i \in 1..n + 1 : now[i] \in Range(residents) \cup {t}
      BY <2>2 DEF Range
    <3>2. \A i \in 1..n : residents[i] \in Range(now)
      BY <2>2 DEF Range
    <3>3. t \in Range(now)
      BY <2>2 DEF Range
    <3> QED
      BY <2>2, <3>1, <3>2, <3>3 DEF Range
  <2>4. IsInjective(now)
    <3>1. \A i \in 1..n : now[i] # t
      BY <2>1, <2>2 DEF Range
    <3> QED
      BY <1>1, <2>2, <3>1 DEF IsInjective
  <2>5. \A i \in DOMAIN now : service = None \/ i > 1 => place[now[i]] = "throat"
    BY <1>1, <2>1, <2>2
  <2>6. residents # <<>> => Head(now) = Head(residents)
    BY <1>1, <2>2
  <2>7. Len(now) <= Capacity
    BY <1>1, <2>1, <2>2 DEF n
  <2> QED
    BY <2>1, <2>2, <2>3, <2>4, <2>5, <2>6, <2>7 DEF Admission, now
<1> QED
  BY <1>2, <1>3

(* What is announced says nothing of a train.                              *)
LEMMA AnnouncementsAreMute ==
    ASSUME NEW q \in Seq(Message), NEW now, Len(now) \in 0..Capacity, NEW t \in Train
    PROVE  /\ q \o Admitted(now) \in Seq(Message)
           /\ Silent(q, t) => Silent(q \o Admitted(now), t)
           /\ OnlyTag(q, t) => OnlyTag(q \o Admitted(now), t)
           /\ OnlyReleased(q, t) => OnlyReleased(q \o Admitted(now), t)
           /\ TagThenReleased(q, t) => TagThenReleased(q \o Admitted(now), t)
<1>1. CASE now = residents
  <2>1. q \o Admitted(now) = q
    BY <1>1 DEF Admitted
  <2> QED
    BY <2>1
<1>2. CASE now # residents
  <2>1. ZoneState(Len(now)) \in Message /\ ZoneState(Len(now)).train # t
    BY Messages
  <2>2. q \o Admitted(now) = Append(q, ZoneState(Len(now)))
    BY <1>2, <2>1 DEF Admitted
  <2> QED
    BY <2>1, <2>2, MessageAdded
<1> QED
  BY <1>1, <1>2

(* While the first resident is served, visits are as they were.            *)
LEMMA ServingKeepsVisits ==
    ASSUME YardInv, Admission(residents'), toCore' = toCore \o Admitted(residents'),
           UNCHANGED <<place, status>>
    PROVE  Visits'
<1>1. toCore \in Seq(Message) /\ \A t \in Train : Visit(t)
  BY DEF YardInv, Visits
<1>2. Len(residents') \in 0..Capacity
  BY YardAssumption DEF Admission
<1>3. toCore' \in Seq(Message)
  <2>1. CASE residents' = residents
    BY <1>1, <2>1 DEF Admitted
  <2>2. CASE residents' # residents
    BY <1>1, <1>2, <2>2, Messages DEF Admitted
  <2> QED
    BY <2>1, <2>2
<1>4. ASSUME NEW t \in Train
      PROVE  Visit(t)'
  <2>1. t \in Range(residents') /\ t \notin Range(residents) => place[t] = "throat"
    BY DEF Admission
  <2> QED
    BY <1>1, <1>2, <2>1, AnnouncementsAreMute DEF Visit, VisitAs
<1> QED
  BY <1>3, <1>4 DEF Visits

(* Serving one train moves no other.                                       *)
LEMMA ServingKeepsOthers ==
    ASSUME YardInv, Admission(residents'), residents' # <<>>, service' # None,
           UNCHANGED place, NEW m, motor' = [motor EXCEPT ![Head(residents')] = m]
    PROVE  OthersStand' /\ ResidentsWait' /\ SparesKnown'
<1>1. motor \in [Train -> {"stopped", "forward", "reverse"}]
  BY DEF YardInv, TypeOK
<1>2. service # None => Head(residents') = Head(residents)
  BY DEF YardInv, Serving, Admission
<1>3. OthersStand'
  BY <1>1, <1>2 DEF YardInv, OthersStand
<1>4. ResidentsWait'
  BY DEF YardInv, ResidentsWait, Admission
<1> QED
  BY <1>3, <1>4 DEF SparesKnown

(* A tick in which train t is served. *)
Tick(t) ==
    /\ Admission(residents') /\ residents' # <<>> /\ t = Head(residents')
    /\ toCore' = toCore \o Admitted(residents')
    /\ misled' \in BOOLEAN
    /\ UNCHANGED <<coreVars, place>>

(* It leaves the scheduler's part of the invariant as it is.               *)
LEMMA TickKeeps ==
    ASSUME YardInv, NEW t, Tick(t)
    PROVE  /\ t \in Train /\ Visits' /\ residents' \in Seq(Train) /\ residents' # <<>>
           /\ t = residents'[1] /\ 1 \in DOMAIN residents' /\ misled' \in BOOLEAN
           /\ status' \in [Train -> Statuses] /\ asserted' \in 0..Capacity
           /\ IsInjective(residents') /\ Len(residents') <= Capacity
           /\ service # None => t = Head(residents)
  BY ServingKeepsVisits DEF YardInv, TypeOK, Statuses, Tick, Admission, Serving, coreVars

(* The first resident is routed in, past the spares.                       *)
LEMMA RouteInKeeps ==
    ASSUME YardInv, NEW t, Tick(t), RouteIn(t)
    PROVE  YardInv'
<1> DEFINE pick == PickFreeSlot(Spares)
<1>1. /\ entryHint \in DOMAIN Road /\ sparesSlot \in Slot \cup {None}
      /\ place \in [Train -> Slot \cup {"line", "throat", "lead"}]
      /\ motor \in [Train -> {"stopped", "forward", "reverse"}]
      /\ rake \in [Train -> Nat] /\ stock \in [Slot -> Nat]
  BY DEF YardInv, TypeOK
<1>2. /\ service = None /\ Spares # None
      /\ service' = [phase |-> "rest", entry |-> Road[pick], cut |-> None]
      /\ entryHint' = Cursor(pick) /\ west' = Road[pick] /\ sparesSlot' = Spares /\ east' = "thru"
      /\ motor' = [motor EXCEPT ![t] = "forward"] /\ UNCHANGED <<place, stock, rake>>
  BY DEF RouteIn, Tick
<1>3. t \in Train /\ place[t] = "throat"
  BY <1>2, TickKeeps DEF Tick, Admission
<1>4. Road[pick] \in Slot /\ Road[pick] # Spares /\ Cursor(pick) \in DOMAIN Road
  BY <1>1, FreeSlotFound, RoadNames
<1> HIDE DEF pick
<1>5. service' \in Service /\ service' # None
  BY <1>2, <1>4, YardAssumption DEF Service, Phases
<1>6. Spares \in Slot /\ stock[Spares] > 0 /\ \A r \in Slot : stock[r] > 0 => r = Spares
  <2>1. \A u \in Train : place[u] \notin Slot
    BY <1>2, RoadNames DEF YardInv, OthersStand
  <2>2. sparesSlot = None => Spares \in Slot /\ Occupied(Spares)
    BY <1>2, StockFound DEF Spares
  <2>3. Spares \in Slot /\ stock[Spares] > 0
    BY <1>1, <1>2, <2>1, <2>2 DEF Spares, Occupied, YardInv, Carriages, SparesKnown
  <2> QED
    BY <1>2, <2>3 DEF YardInv, Carriages, SparesKnown
<1>7. TypeOK'
  BY <1>1, <1>2, <1>3, <1>4, <1>5, <1>6, TickKeeps DEF TypeOK, Statuses
<1>8. OthersStand' /\ ResidentsWait' /\ SparesKnown'
  BY <1>2, <1>5, ServingKeepsOthers DEF Tick
<1>9. Serving'
  <2>1. Progress(service, t)'
    BY <1>1, <1>2, <1>3 DEF Progress
  <2>2. LeadIsOurs(service, t)'
    BY <1>2 DEF LeadIsOurs
  <2> QED
    BY <1>2, <1>4, <2>1, <2>2 DEF Tick, Serving
<1>10. Carriages'
  <2>1. LooseInTurn'
    BY <1>1, <1>2, <1>6 DEF LooseInTurn, Loose
  <2>2. Coupled'
    BY <1>2 DEF YardInv, Carriages, Coupled, Shed, Phase
  <2> QED
    BY <1>8, <2>1, <2>2 DEF Carriages
<1> QED
  BY <1>7, <1>8, <1>9, <1>10, TickKeeps DEF YardInv

(* Nothing is there to swap with.                                          *)
LEMMA StallKeeps ==
    ASSUME YardInv, NEW t, Tick(t), Stall
    PROVE  YardInv'
<1>1. /\ service = None
      /\ UNCHANGED <<service, sparesSlot, entryHint, west, east, place, motor, stock, rake>>
  BY DEF Stall, Tick
<1>2. TypeOK'
  BY <1>1, TickKeeps DEF YardInv, TypeOK, Statuses
<1>3. OthersStand' /\ ResidentsWait' /\ Serving'
  BY <1>1 DEF YardInv, OthersStand, ResidentsWait, Serving, Tick, Admission
<1>4. Carriages'
  BY <1>1 DEF YardInv, Carriages, SparesKnown, LooseInTurn, Coupled, Shed, Phase
<1> QED
  BY <1>2, <1>3, <1>4, TickKeeps DEF YardInv

(* The service of train t, before a tick. *)
LEMMA InService ==
    ASSUME YardInv, NEW t, Tick(t), service # None
    PROVE  /\ service \in Service /\ sparesSlot \in Slot /\ service.entry # sparesSlot
           /\ service.entry \in Slot /\ service.phase \in Phases /\ west = service.entry
           /\ Progress(service, t) /\ LeadIsOurs(service, t)
           /\ Loose(IF service.phase \in {"rest", "decouple"} THEN {sparesSlot}
                    ELSE IF Shed(t) THEN {service.entry, sparesSlot}
                    ELSE {service.entry})
           /\ ~Shed(t) => rake[t] > 0
           /\ place \in [Train -> Slot \cup {"line", "throat", "lead"}]
           /\ motor \in [Train -> {"stopped", "forward", "reverse"}]
           /\ rake \in [Train -> Nat] /\ stock \in [Slot -> Nat]
           /\ \A u \in Train \ {t} : place[u] \notin Slot
<1>1. t = Head(residents) /\ t \in Train
  BY TickKeeps
<1>2. \A u \in Train \ {t} : place[u] \notin Slot
  BY <1>1, RoadNames DEF YardInv, OthersStand
<1> QED
  BY <1>1, <1>2 DEF YardInv, TypeOK, Service, Serving, Carriages, LooseInTurn, Coupled, Occupied

(* What a tick of the controller has to see to, in order that all be well. *)
LEMMA ServiceGoesOn ==
    ASSUME YardInv, NEW t, Tick(t), service # None,
           service' \in Service, service'.entry = service.entry,
           UNCHANGED <<sparesSlot, entryHint, west>>, east' \in Slot \cup {"thru"},
           NEW m \in {"stopped", "forward", "reverse"}, motor' = [motor EXCEPT ![t] = m],
           rake' \in [Train -> Nat], \A u \in Train \ {t} : rake'[u] = rake[u],
           stock' \in [Slot -> Nat],
           Progress(service, t)', LeadIsOurs(service, t)', LooseInTurn',
           service'.phase \in {"rest", "decouple", "settle", "exit"} => rake'[t] > 0,
           service'.phase = "to-spares" /\ place[t] # "lead" => rake'[t] > 0,
           service'.phase = "rest" => service'.cut = None,
           service'.phase = "decouple" /\ service'.cut # None => service'.cut < rake'[t]
    PROVE  YardInv'
<1>1. service' # None
  BY YardAssumption
<1>2. TypeOK'
  <2>1. place' = place
    BY DEF Tick
  <2> QED
    BY <2>1, InService, TickKeeps DEF YardInv, TypeOK, Statuses
<1>3. OthersStand' /\ ResidentsWait' /\ SparesKnown'
  BY <1>1, ServingKeepsOthers DEF Tick
<1>4. Serving'
  BY <1>1, InService DEF Tick, Serving
<1>5. Coupled'
  <2>1. t = Head(residents) /\ t = Head(residents') /\ t \in Train /\ place' = place
    BY TickKeeps DEF Tick
  <2>2. \A u \in Train \ {t} : rake'[u] > 0
    BY <2>1 DEF YardInv, Carriages, Coupled, Shed
  <2>3. service'.phase \in Phases
    BY DEF Service
  <2>4. ~Shed(t)' => rake'[t] > 0
    BY <1>1, <2>1, <2>3 DEF Shed, Phases
  <2> QED
    BY <1>1, <2>1, <2>2, <2>4 DEF Coupled, Phase
<1> QED
  BY <1>2, <1>3, <1>4, <1>5, TickKeeps DEF YardInv, Carriages

(* Until the train has come to the end of its road; *)
LEMMA RestKeeps ==
    ASSUME YardInv, NEW t, Tick(t), Rest(t)
    PROVE  YardInv'
<1>1. /\ service # None /\ service.phase = "rest" /\ service.cut = None /\ ~Shed(t)
      /\ UNCHANGED <<sparesSlot, entryHint, west, east, stock, rake, place>>
  BY DEF Rest, Phase, To, Shed, Tick, YardInv, Carriages, Coupled
<1>2. /\ service \in Service /\ sparesSlot \in Slot /\ service.entry # sparesSlot
      /\ service.entry \in Slot /\ Progress(service, t) /\ Loose({sparesSlot})
      /\ rake[t] > 0 /\ rake \in [Train -> Nat] /\ stock \in [Slot -> Nat]
      /\ motor \in [Train -> {"stopped", "forward", "reverse"}]
      /\ \A u \in Train \ {t} : place[u] \notin Slot
      /\ t \in Train
  BY <1>1, InService, TickKeeps
<1>3. place[t] \in {"throat", service.entry} /\ east = "thru" /\ east' \in Slot \cup {"thru"}
  BY <1>1, <1>2 DEF Progress
<1>4. PICK p \in {"rest", "decouple"}, m \in {"forward", "stopped"} :
        /\ service' = [service EXCEPT !.phase = p]
        /\ motor' = [motor EXCEPT ![t] = m]
        /\ \/ p = "rest" /\ m = "forward"
           \/ p = "decouple" /\ m = "stopped" /\ Occupied(service.entry)
  BY DEF Rest, To
<1>5. service' \in Service /\ service'.entry = service.entry /\ service'.phase = p
      /\ service'.cut = None
  BY <1>1, <1>2, <1>4 DEF Service, Phases
<1>6. p = "decouple" => place[t] = service.entry
  BY <1>2, <1>4 DEF Occupied, Loose
<1>7. Progress(service, t)' /\ LeadIsOurs(service, t)'
  BY <1>1, <1>2, <1>3, <1>4, <1>5, <1>6 DEF Progress, LeadIsOurs
<1>8. LooseInTurn'
  BY <1>1, <1>2, <1>4, <1>5 DEF LooseInTurn, Loose
<1> QED
  BY <1>1, <1>2, <1>3, <1>4, <1>5, <1>7, <1>8, ServiceGoesOn

(* while the cut is looked for; *)
LEMMA FindCutKeeps ==
    ASSUME YardInv, NEW t, Tick(t), FindCut(t)
    PROVE  YardInv'
<1>1. /\ service # None /\ service.phase = "decouple" /\ ~Shed(t)
      /\ UNCHANGED <<sparesSlot, entryHint, west, east, stock, rake, place, motor>>
      /\ service' = [service EXCEPT !.cut = Max({0, rake[t] - ShedCars})]
  BY DEF FindCut, Phase, Shed, Tick
<1>2. /\ service \in Service /\ Progress(service, t) /\ Loose({sparesSlot})
      /\ rake[t] > 0 /\ rake \in [Train -> Nat] /\ stock \in [Slot -> Nat]
      /\ motor \in [Train -> {"stopped", "forward", "reverse"}]
      /\ east \in Slot \cup {"thru"} /\ t \in Train
  BY <1>1, InService, TickKeeps DEF YardInv, TypeOK
<1>3. Max({0, rake[t] - ShedCars}) \in Nat /\ Max({0, rake[t] - ShedCars}) < rake[t]
  BY <1>2, CutSheds
<1>4. service' \in Service /\ service'.entry = service.entry /\ service'.phase = "decouple"
      /\ service'.cut < rake[t]
  BY <1>1, <1>2, <1>3 DEF Service
<1>5. Progress(service, t)' /\ LeadIsOurs(service, t)'
  BY <1>1, <1>2, <1>4 DEF Progress, LeadIsOurs
<1>6. LooseInTurn'
  BY <1>1, <1>2, <1>4 DEF LooseInTurn, Loose
<1>7. motor' = [motor EXCEPT ![t] = motor[t]] /\ motor[t] \in {"stopped", "forward", "reverse"}
  BY <1>1, <1>2
<1> QED
  BY <1>1, <1>2, <1>4, <1>5, <1>6, <1>7, ServiceGoesOn

(* when the wedge comes down; *)
LEMMA WedgeKeeps ==
    ASSUME YardInv, NEW t, Tick(t), Wedge(t)
    PROVE  YardInv'
<1>1. /\ service # None /\ service.phase = "decouple" /\ ~Shed(t) /\ service.cut # None
      /\ UNCHANGED <<sparesSlot, entryHint, west, east, place, motor>>
      /\ stock' = [stock EXCEPT ![service.entry] = @ + rake[t] - service.cut]
      /\ rake' = [rake EXCEPT ![t] = service.cut]
      /\ service' = [service EXCEPT !.phase = "pull-clear"]
  BY DEF Wedge, Phase, Shed, Tick
<1>2. /\ service \in Service /\ sparesSlot \in Slot /\ service.entry \in Slot
      /\ service.entry # sparesSlot /\ Progress(service, t) /\ Loose({sparesSlot})
      /\ rake \in [Train -> Nat] /\ stock \in [Slot -> Nat]
      /\ motor \in [Train -> {"stopped", "forward", "reverse"}]
      /\ east \in Slot \cup {"thru"} /\ t \in Train /\ t = Head(residents) /\ t = Head(residents')
  BY <1>1, InService, TickKeeps DEF YardInv, TypeOK, Tick
<1>3. service.cut \in Nat /\ service.cut < rake[t] /\ rake[t] \in Nat
  BY <1>1, <1>2 DEF Service, YardInv, Carriages, Coupled, Phase
<1>4. service' \in Service /\ service'.entry = service.entry /\ service'.phase = "pull-clear"
  BY <1>1, <1>2 DEF Service, Phases
<1>5. Progress(service, t)' /\ LeadIsOurs(service, t)'
  BY <1>1, <1>2, <1>4 DEF Progress, LeadIsOurs
<1>6. stock' \in [Slot -> Nat] /\ stock'[service.entry] > 0
      /\ \A r \in Slot \ {service.entry} : stock'[r] = stock[r]
  BY <1>1, <1>2, <1>3
<1>7. LooseInTurn'
  <2>1. Shed(t)'
    BY <1>2, <1>4, YardAssumption DEF Shed
  <2>2. Loose({service.entry, sparesSlot})'
    BY <1>1, <1>2, <1>4, <1>6 DEF Loose
  <2> QED
    BY <1>2, <1>4, <2>1, <2>2 DEF LooseInTurn
<1>8. rake' \in [Train -> Nat] /\ \A u \in Train \ {t} : rake'[u] = rake[u]
  BY <1>1, <1>2, <1>3
<1>9. motor' = [motor EXCEPT ![t] = motor[t]] /\ motor[t] \in {"stopped", "forward", "reverse"}
  BY <1>1, <1>2
<1>10. east' \in Slot \cup {"thru"}
  BY <1>1, <1>2
<1> QED
  BY <1>1, <1>4, <1>5, <1>6, <1>7, <1>8, <1>9, <1>10, ServiceGoesOn

(* out of the road, until it is seen on the lead, and no other train is;   *)
LEMMA PullClearKeeps ==
    ASSUME YardInv, NEW t, Tick(t), PullClear(t), ~Mistakable(t)
    PROVE  YardInv'
<1>1. /\ service # None /\ service.phase = "pull-clear"
      /\ UNCHANGED <<sparesSlot, entryHint, west, stock, rake, place>>
      /\ east' = service.entry
  BY DEF PullClear, Phase, To, Tick
<1>2. /\ service \in Service /\ sparesSlot \in Slot /\ service.entry \in Slot
      /\ Progress(service, t)
      /\ rake \in [Train -> Nat] /\ stock \in [Slot -> Nat]
      /\ motor \in [Train -> {"stopped", "forward", "reverse"}]
      /\ t \in Train /\ t = Head(residents) /\ t = Head(residents')
      /\ residents \in Seq(Train) /\ residents # <<>>
  BY <1>1, InService, TickKeeps DEF YardInv, TypeOK, Tick, Serving
<1>3. Loose({service.entry, sparesSlot})
  <2>1. Shed(t)
    BY <1>1, <1>2 DEF Shed
  <2> QED
    BY <1>1, <2>1, InService
<1>4. PICK p \in {"pull-clear", "to-spares"}, m \in {"forward", "stopped"} :
        /\ service' = [service EXCEPT !.phase = p]
        /\ motor' = [motor EXCEPT ![t] = m]
        /\ \/ p = "pull-clear" /\ m = "forward"
           \/ p = "to-spares" /\ m = "stopped" /\ motor[t] = "forward" /\ LeadSeen
  BY DEF PullClear, To
<1>5. service' \in Service /\ service'.entry = service.entry /\ service'.phase = p
  BY <1>1, <1>2, <1>4 DEF Service, Phases
<1>6. p = "to-spares" => \A u \in Train : place[u] = "lead" => u = t
  BY <1>1, <1>4 DEF Mistakable, Phase
<1>7. p = "to-spares" => place[t] = "lead"
  BY <1>4, <1>6 DEF LeadSeen
<1>8. Progress(service, t)' /\ LeadIsOurs(service, t)'
  BY <1>1, <1>2, <1>4, <1>5, <1>6, <1>7 DEF Progress, LeadIsOurs
<1>9. LooseInTurn'
  <2>1. Shed(t)'
    BY <1>1, <1>2, <1>4, <1>5, <1>7, YardAssumption DEF Shed
  <2> QED
    BY <1>1, <1>2, <1>3, <1>4, <1>5, <2>1 DEF LooseInTurn, Loose
<1> QED
  BY <1>1, <1>2, <1>4, <1>5, <1>7, <1>8, <1>9, ServiceGoesOn

(* back onto the spares; *)
LEMMA ToSparesKeeps ==
    ASSUME YardInv, NEW t, Tick(t), ToSpares(t)
    PROVE  YardInv'
<1>1. /\ service # None /\ service.phase = "to-spares"
      /\ UNCHANGED <<sparesSlot, entryHint, west, stock, rake, place>>
      /\ east' = sparesSlot
  BY DEF ToSpares, Phase, To, Tick
<1>2. /\ service \in Service /\ sparesSlot \in Slot /\ service.entry \in Slot
      /\ Progress(service, t) /\ LeadIsOurs(service, t)
      /\ rake \in [Train -> Nat] /\ stock \in [Slot -> Nat]
      /\ motor \in [Train -> {"stopped", "forward", "reverse"}]
      /\ t \in Train /\ t = Head(residents) /\ t = Head(residents')
      /\ sparesSlot # "lead"
  BY <1>1, InService, TickKeeps, RoadNames DEF Tick
<1>3. /\ Loose(IF place[t] = "lead" THEN {service.entry, sparesSlot} ELSE {service.entry})
      /\ place[t] # "lead" => rake[t] > 0
  BY <1>1, <1>2, InService DEF Shed
<1>4. PICK p \in {"to-spares", "settle"}, m \in {"reverse", "stopped"} :
        /\ service' = [service EXCEPT !.phase = p]
        /\ motor' = [motor EXCEPT ![t] = m]
        /\ \/ p = "to-spares" /\ m = "reverse"
           \/ p = "settle" /\ m = "stopped" /\ place[t] = sparesSlot
  BY DEF ToSpares, To
<1>5. service' \in Service /\ service'.entry = service.entry /\ service'.phase = p
  BY <1>1, <1>2, <1>4 DEF Service, Phases
<1>6. Progress(service, t)' /\ LeadIsOurs(service, t)'
  BY <1>1, <1>2, <1>4, <1>5 DEF Progress, LeadIsOurs
<1>7. LooseInTurn'
  <2>1. Shed(t)' <=> place[t] = "lead"
    BY <1>1, <1>2, <1>4, <1>5, YardAssumption DEF Shed
  <2> QED
    BY <1>1, <1>2, <1>3, <1>4, <1>5, <2>1 DEF LooseInTurn, Loose
<1> QED
  BY <1>1, <1>2, <1>3, <1>4, <1>5, <1>6, <1>7, ServiceGoesOn

(* and out again, with them.                                               *)
LEMMA ExitKeeps ==
    ASSUME YardInv, NEW t, Tick(t), Settle(t) \/ Exit(t)
    PROVE  YardInv'
<1>1. /\ service # None /\ service.phase \in {"settle", "exit"} /\ ~Shed(t)
      /\ UNCHANGED <<sparesSlot, entryHint, west, stock, rake, place>>
      /\ east' = east \/ east' = sparesSlot
  BY DEF Settle, Exit, Phase, To, Tick, Shed
<1>2. /\ service \in Service /\ sparesSlot \in Slot /\ service.entry \in Slot
      /\ Progress(service, t) /\ LeadIsOurs(service, t)
      /\ rake \in [Train -> Nat] /\ stock \in [Slot -> Nat] /\ rake[t] > 0
      /\ motor \in [Train -> {"stopped", "forward", "reverse"}]
      /\ t \in Train /\ t = Head(residents')
      /\ Loose({service.entry})
  BY <1>1, InService, TickKeeps DEF Tick
<1>3. PICK p \in {"settle", "exit"} :
        /\ service' = [service EXCEPT !.phase = p]
        /\ motor' = [motor EXCEPT ![t] = "forward"]
  BY DEF Settle, Exit, To
<1>4. service' \in Service /\ service'.entry = service.entry /\ service'.phase = p
  BY <1>1, <1>2, <1>3 DEF Service, Phases
<1>5. east' = sparesSlot
  BY <1>1, <1>2 DEF Progress
<1>6. Progress(service, t)' /\ LeadIsOurs(service, t)'
  BY <1>1, <1>2, <1>3, <1>4, <1>5 DEF Progress, LeadIsOurs
<1>7. LooseInTurn'
  <2>1. ~Shed(t)'
    BY <1>3, <1>4 DEF Shed
  <2> QED
    BY <1>1, <1>2, <1>3, <1>4, <2>1 DEF LooseInTurn, Loose
<1> QED
  BY <1>1, <1>2, <1>3, <1>4, <1>5, <1>6, <1>7, ServiceGoesOn

(* The first of a queue leaves it.                                         *)
LEMMA HeadLeaves ==
    ASSUME NEW now \in Seq(Train), now # <<>>, IsInjective(now)
    PROVE  LET left == RemoveAt(now, CHOOSE i \in DOMAIN now : now[i] = Head(now))
           IN  /\ left \in Seq(Train) /\ IsInjective(left) /\ Len(left) = Len(now) - 1
               /\ Range(left) = Range(now) \ {Head(now)}
               /\ \A i \in DOMAIN left : i + 1 \in DOMAIN now /\ left[i] = now[i + 1]
<1> DEFINE n == Len(now)
           left == RemoveAt(now, CHOOSE i \in DOMAIN now : now[i] = Head(now))
<1>1. n \in Nat /\ n > 0 /\ DOMAIN now = 1..n /\ Head(now) = now[1]
  BY EmptySeq
<1>2. (CHOOSE i \in DOMAIN now : now[i] = Head(now)) = 1
  BY <1>1 DEF IsInjective
<1>3. left = SubSeq(now, 1, 0) \o SubSeq(now, 2, n)
  <2>1. left = RemoveAt(now, 1)
    BY <1>2
  <2>2. 1 - 1 = 0 /\ 1 + 1 = 2
    OBVIOUS
  <2> HIDE DEF left
  <2> QED
    BY <2>1, <2>2 DEF RemoveAt
<1>4. SubSeq(now, 1, 0) = <<>>
  BY <1>1
<1>5. left = Tail(now)
  BY <1>1, <1>3, <1>4
<1> HIDE DEF left, n
<1>6. /\ left \in Seq(Train) /\ Len(left) = n - 1 /\ DOMAIN left = 1..n - 1
      /\ \A i \in 1..n - 1 : left[i] = now[i + 1]
  BY <1>1, <1>5, HeadTailProperties DEF n
<1>7. \A i \in DOMAIN left : i + 1 \in DOMAIN now /\ left[i] = now[i + 1]
  BY <1>1, <1>6
<1>8. IsInjective(left)
  <2> SUFFICES ASSUME NEW i \in DOMAIN left, NEW j \in DOMAIN left, left[i] = left[j]
               PROVE  i = j
    BY DEF IsInjective
  <2>1. now[i + 1] = now[j + 1] /\ i + 1 \in DOMAIN now /\ j + 1 \in DOMAIN now
    BY <1>7
  <2>2. i + 1 = j + 1
    BY <2>1 DEF IsInjective
  <2> QED
    BY <1>6, <2>2
<1>9. Range(left) = Range(now) \ {Head(now)}
  <2>1. \A i \in DOMAIN left : left[i] \in Range(now) /\ left[i] # Head(now)
    <3> TAKE i \in DOMAIN left
    <3>1. i + 1 \in DOMAIN now /\ left[i] = now[i + 1] /\ i + 1 # 1 /\ 1 \in DOMAIN now
      BY <1>1, <1>6
    <3>2. now[i + 1] # now[1]
      BY <3>1 DEF IsInjective
    <3> QED
      BY <1>1, <3>1, <3>2 DEF Range
  <2>2. \A i \in DOMAIN now : now[i] # Head(now) => i - 1 \in DOMAIN left /\ left[i - 1] = now[i]
    BY <1>1, <1>6
  <2> QED
    BY <2>1, <2>2 DEF Range
<1> QED
  BY <1>6, <1>7, <1>8, <1>9 DEF left, n

(* Two messages are sent one after the other.                              *)
LEMMA AppendTwo ==
    ASSUME NEW q \in Seq(Message), NEW a \in Message, NEW b \in Message
    PROVE  q \o <<a, b>> = Append(Append(q, a), b)
<1> DEFINE l == q \o <<a, b>>
           r == Append(Append(q, a), b)
<1>1. r \in Seq(Message) /\ Len(r) = Len(q) + 2 /\ Len(q) \in Nat
      /\ r[Len(q) + 1] = a /\ r[Len(q) + 2] = b /\ \A i \in 1..Len(q) : r[i] = q[i]
  BY AppendProperties
<1>2. <<a, b>> \in Seq(Message) /\ Len(<<a, b>>) = 2
  OBVIOUS
<1>3. l \in Seq(Message) /\ Len(l) = Len(q) + 2
      /\ l[Len(q) + 1] = a /\ l[Len(q) + 2] = b /\ \A i \in 1..Len(q) : l[i] = q[i]
  BY <1>2, ConcatProperties
<1> HIDE DEF l, r
<1>4. \A i \in 1..Len(q) + 2 : l[i] = r[i]
  BY <1>1, <1>3
<1>5. l = r
  BY <1>1, <1>3, <1>4, SeqEqual
<1> QED
  BY <1>5 DEF l, r

(* The train is the scheduler's again.                                     *)
LEMMA ReleaseKeeps ==
    ASSUME YardInv, NEW now, Admission(now), now # <<>>, NEW t, t = Head(now), Release(t),
           residents' = RemoveAt(now, CHOOSE i \in DOMAIN now : now[i] = t),
           toCore' = toCore \o Admitted(now) \o <<Released(t), ZoneState(Len(now) - 1)>>,
           misled' \in BOOLEAN, UNCHANGED <<coreVars, place, rebuilds>>
    PROVE  YardInv'
<1>1. /\ service # None /\ service.phase = "exit" /\ LeadSeen
      /\ motor' = [motor EXCEPT ![t] = "stopped"] /\ service' = None
      /\ sparesSlot' = service.entry /\ west' = "thru" /\ east' = "thru"
      /\ UNCHANGED <<entryHint, stock, rake, status, asserted, place>>
  BY DEF Release, Phase, Rotated, coreVars
<1>2. /\ now \in Seq(Train) /\ IsInjective(now) /\ Len(now) \in 0..Capacity /\ Len(now) > 0
      /\ \A i \in DOMAIN now : i > 1 => place[now[i]] = "throat"
      /\ Range(residents) \subseteq Range(now)
      /\ \A u \in Range(now) \ Range(residents) : place[u] = "throat"
      /\ t = Head(residents) /\ t \in Train /\ t \in Range(residents)
  <2>1. now \in Seq(Train) /\ IsInjective(now) /\ Len(now) \in 0..Capacity /\ Len(now) > 0
    BY YardAssumption, EmptySeq DEF Admission
  <2>2. residents \in Seq(Train) /\ residents # <<>> /\ t = Head(residents)
    BY <1>1 DEF Admission, YardInv, TypeOK, Serving
  <2>3. t = residents[1] /\ 1 \in DOMAIN residents /\ residents[1] \in Train
    BY <2>2
  <2>4. t \in Range(residents)
    BY <2>3 DEF Range
  <2> QED
    BY <1>1, <2>1, <2>2, <2>3, <2>4 DEF Admission
<1>3. /\ residents' \in Seq(Train) /\ IsInjective(residents') /\ Len(residents') = Len(now) - 1
      /\ Range(residents') = Range(now) \ {t}
      /\ \A i \in DOMAIN residents' : i + 1 \in DOMAIN now /\ residents'[i] = now[i + 1]
  BY <1>2, HeadLeaves
<1>4. /\ service.entry \in Slot /\ Progress(service, t) /\ LeadIsOurs(service, t)
      /\ place \in [Train -> Slot \cup {"line", "throat", "lead"}]
      /\ motor \in [Train -> {"stopped", "forward", "reverse"}]
      /\ rake \in [Train -> Nat] /\ stock \in [Slot -> Nat]
      /\ Loose({service.entry}) /\ \A u \in Train : rake[u] > 0
  <2>1. \A u \in Train : ~Shed(u)
    BY <1>1 DEF Shed
  <2> QED
    BY <1>1, <1>2, <2>1 DEF YardInv, TypeOK, Service, Serving, Carriages, LooseInTurn, Coupled
<1>5. place[t] = "lead"
  BY <1>1, <1>4 DEF LeadSeen, LeadIsOurs
<1>6. TypeOK'
  <2>1. Capacity \in Nat
    BY YardAssumption
  <2>2. Len(residents') <= Capacity
    <3>1. Len(now) \in Int /\ Len(now) <= Capacity
      BY <1>2, <2>1
    <3>2. Len(residents') = Len(now) - 1
      BY <1>3
    <3>3. Len(now) - 1 <= Capacity
      BY <2>1, <3>1
    <3> QED
      BY <3>2, <3>3, Zenon
  <2> QED
    BY <1>1, <1>2, <1>3, <1>4, <2>2 DEF YardInv, TypeOK
<1>7. Visits'
  <2> DEFINE q == toCore \o Admitted(now)
             r == Append(q, Released(t))
             z == ZoneState(Len(now) - 1)
  <2>1. toCore \in Seq(Message) /\ \A u \in Train : Visit(u)
    BY DEF YardInv, Visits
  <2>2. q \in Seq(Message)
    BY <1>2, <2>1, AnnouncementsAreMute
  <2>3. Released(t) \in Message /\ z \in Message /\ \A u \in Train : z.train # u
    <3>1. Capacity \in Nat
      BY YardAssumption
    <3>2. Len(now) - 1 \in 0..Capacity
      BY <1>2, <3>1
    <3>3. Released(t) \in Message
      BY <1>2, Messages
    <3>4. z \in Message /\ z.train = None
      BY <3>2, Messages
    <3> QED
      BY <3>3, <3>4, Messages
  <2>4. r \in Seq(Message)
    BY <2>2, <2>3
  <2>5. toCore' = Append(r, z)
    <3> HIDE DEF q, z
    <3>1. toCore' = q \o <<Released(t), z>>
      BY DEF q, z
    <3> QED
      BY <2>2, <2>3, <3>1, AppendTwo
  <2>6. ASSUME NEW u \in Train \ {t}
        PROVE  Visit(u)'
    <3>1. u \in Range(residents') => u \in Range(residents) \/ place[u] = "throat"
      BY <1>2, <1>3
    <3>2. Released(t).train # u
      BY <1>2, Messages
    <3> HIDE DEF q, r, z
    <3>3. \E st : status[u] = st /\ status'[u] = st /\ place'[u] = place[u] /\ VisitAs(u, st, toCore)
      BY <1>1, <2>1 DEF Visit
    <3>4. /\ Silent(toCore, u) => Silent(q, u)
          /\ OnlyTag(toCore, u) => OnlyTag(q, u)
          /\ OnlyReleased(toCore, u) => OnlyReleased(q, u)
          /\ TagThenReleased(toCore, u) => TagThenReleased(q, u)
      BY <1>2, <2>1, AnnouncementsAreMute DEF q
    <3>5. /\ Silent(q, u) => Silent(r, u)
          /\ OnlyTag(q, u) => OnlyTag(r, u)
          /\ OnlyReleased(q, u) => OnlyReleased(r, u)
          /\ TagThenReleased(q, u) => TagThenReleased(r, u)
      BY <2>2, <2>3, <3>2, MessageAdded DEF r
    <3>6. /\ Silent(r, u) => Silent(toCore', u)
          /\ OnlyTag(r, u) => OnlyTag(toCore', u)
          /\ OnlyReleased(r, u) => OnlyReleased(toCore', u)
          /\ TagThenReleased(r, u) => TagThenReleased(toCore', u)
      BY <2>3, <2>4, <2>5, MessageAdded
    <3> QED
      BY <3>1, <3>3, <3>4, <3>5, <3>6 DEF Visit, VisitAs
  <2>7. Visit(t)'
    <3>1. \/ status[t] = "cleared" /\ OnlyTag(toCore, t)
          \/ status[t] = "inside" /\ Silent(toCore, t)
      BY <1>2, <1>5, <2>1 DEF Visit, VisitAs
    <3> HIDE DEF q, r, z
    <3>2. \/ status[t] = "cleared" /\ OnlyTag(q, t)
          \/ status[t] = "inside" /\ Silent(q, t)
      BY <1>2, <2>1, <3>1, AnnouncementsAreMute DEF q
    <3>3. \/ status[t] = "cleared" /\ TagThenReleased(r, t)
          \/ status[t] = "inside" /\ OnlyReleased(r, t)
      BY <1>2, <2>2, <2>3, <3>2, MessageAdded DEF r
    <3>4. \/ status[t] = "cleared" /\ TagThenReleased(toCore', t)
          \/ status[t] = "inside" /\ OnlyReleased(toCore', t)
      BY <1>2, <2>3, <2>4, <2>5, <3>3, MessageAdded
    <3> QED
      BY <1>1, <1>3, <1>5, <3>4 DEF Visit, VisitAs
  <2>8. toCore' \in Seq(Message)
    BY <2>3, <2>4, <2>5
  <2> QED
    BY <2>6, <2>7, <2>8 DEF Visits
<1>8. OthersStand'
  BY <1>1, <1>2, <1>4, <1>5 DEF YardInv, OthersStand
<1>9. ResidentsWait'
  <2>1. \A i \in DOMAIN residents' : place[residents'[i]] = "throat"
    <3> TAKE i \in DOMAIN residents'
    <3>1. i + 1 \in DOMAIN now /\ residents'[i] = now[i + 1]
      BY <1>3
    <3>2. i + 1 > 1
      <4>1. residents' \in Seq(Train)
        BY <1>3
      <4> QED
        BY <4>1
    <3> QED
      BY <1>2, <3>1, <3>2
  <2> QED
    BY <1>1, <2>1 DEF YardInv, ResidentsWait
<1>10. Serving' /\ Carriages'
  BY <1>1, <1>4 DEF Serving, Carriages, SparesKnown, LooseInTurn, Coupled, Loose, Phase
<1> QED
  BY <1>6, <1>7, <1>8, <1>9, <1>10 DEF YardInv

-----------------------------------------------------------------------------
(* Theorems.                                                               *)

(* A tick keeps the invariant, unless the camera over the lead is misled.  *)
LEMMA StepKeeps ==
    ASSUME YardInv, Step, ~misled'
    PROVE  YardInv'
<1> DEFINE now == Sensed
           t == Head(now)
<1>1. Admission(now) /\ now # <<>>
  BY SensedAdmits DEF Step
<1>2. ~Mistakable(t) /\ misled' \in BOOLEAN
  BY DEF Step, Active
<1>3. CASE /\ Serve(t) /\ residents' = now
           /\ toCore' = toCore \o Admitted(now) /\ UNCHANGED <<coreVars, place>>
  <2>1. Tick(t)
    BY <1>1, <1>2, <1>3 DEF Tick
  <2> QED
    BY <1>2, <1>3, <2>1, RouteInKeeps, StallKeeps, RestKeeps, FindCutKeeps, WedgeKeeps, PullClearKeeps,
       ToSparesKeeps, ExitKeeps DEF Serve
<1>4. CASE /\ Release(t) /\ residents' = RemoveAt(now, CHOOSE i \in DOMAIN now : now[i] = t)
           /\ toCore' = toCore \o Admitted(now) \o <<Released(t), ZoneState(Len(now) - 1)>>
           /\ UNCHANGED <<coreVars, place, rebuilds>>
  BY <1>1, <1>2, <1>4, ReleaseKeeps
<1> QED
  BY <1>3, <1>4 DEF Step, Active

(* Every step does.                                                        *)
LEMMA YardInvKept == YardInv /\ [Next]_vars => YardInv' \/ misled'
<1> SUFFICES ASSUME YardInv, [Next]_vars, ~misled'
             PROVE  YardInv'
  OBVIOUS
<1>1. CASE UNCHANGED vars
  <2>1. UNCHANGED <<deviceVars, west, east, trackVars, motor, status, asserted, toCore, misled>>
    BY <1>1 DEF vars, coreVars
  <2>2. Visits'
    BY <2>1 DEF YardInv, Visits, Visit, VisitAs, deviceVars, trackVars
  <2> QED
    BY <2>1, <2>2, YardUntouched DEF YardInv, TypeOK, Statuses
<1>2. CASE Next
  BY <1>2, ReceiveKeeps, StepKeeps, RebuildKeeps, ApproachKeeps, RollKeeps, LineKeeps, StableKeeps
  DEF Next
<1> QED
  BY <1>1, <1>2

(* Once misled, the yard counts as misled for good.                        *)
LEMMA MisledForGood == misled /\ [Next]_vars => misled'
  BY DEF Next, vars, Receive, Step, Rebuild, Approach, Onward, Roll, Arrive, Depart, Stable

(* Of all steps, only the rolling of a train gets it into a road, *)
LEMMA OnlyRollingLeavesThroat ==
    ASSUME YardInv, Next, NEW t \in Train, place[t] = "throat", place'[t] \in Slot
    PROVE  Roll(t)
<1>1. place \in [Train -> Slot \cup {"line", "throat", "lead"}] /\ place'[t] # place[t]
      /\ place'[t] \notin {"line", "throat"}
  BY RoadNames DEF YardInv, TypeOK
<1>2. ~UNCHANGED place
  BY <1>1
<1>3. PICK u \in Train : Roll(u) \/ Arrive(u) \/ Depart(u)
  BY <1>2 DEF Next, Receive, Step, Rebuild, Approach, Onward, Stable, trackVars
<1> QED
  BY <1>1, <1>3 DEF Roll, Arrive, Depart

(* or out of the yard to the throat.                                       *)
LEMMA OnlyRollingComesBack ==
    ASSUME YardInv, Next, NEW t \in Train, place[t] \in Slot \cup {"lead"},
           place'[t] = "throat"
    PROVE  Roll(t)
<1>1. place \in [Train -> Slot \cup {"line", "throat", "lead"}] /\ place'[t] # place[t]
      /\ place[t] # "line"
  BY RoadNames DEF YardInv, TypeOK
<1>2. ~UNCHANGED place
  BY <1>1
<1>3. PICK u \in Train : Roll(u) \/ Arrive(u) \/ Depart(u)
  BY <1>2 DEF Next, Receive, Step, Rebuild, Approach, Onward, Stable, trackVars
<1> QED
  BY <1>1, <1>3 DEF Roll, Arrive, Depart

(* The yard starts out empty.                                              *)
LEMMA YardInvFirst == Init => YardInv
<1> SUFFICES ASSUME Init
             PROVE  YardInv
  OBVIOUS
<1> USE DEF Init
<1>1. TypeOK
  <2>1. <<>> \in Seq(Train) /\ IsInjective(<<>>) /\ Len(<<>>) = 0 /\ 0 <= Capacity /\ 0 \in 0..Capacity
    BY YardAssumption DEF IsInjective
  <2>2. Cars \in [Train -> Nat] /\ 1 \in DOMAIN Road
    BY YardAssumption
  <2> QED
    BY <2>1, <2>2, RoadNames DEF TypeOK
<1>2. Visits
  BY DEF Visits, Visit, VisitAs, Silent
<1>3. OthersStand /\ ResidentsWait /\ Serving
  BY DEF OthersStand, ResidentsWait, Serving
<1>4. Carriages
  BY YardAssumption DEF Carriages, SparesKnown, LooseInTurn, Coupled, Phase
<1> QED
  BY <1>1, <1>2, <1>3, <1>4 DEF YardInv

(* The invariant holds in every yard, until the camera over the lead is     *)
(* asked for the train pulled clear while another one stands there.        *)
THEOREM YardIsSafe == Spec => [](misled \/ YardInv)
<1>1. (misled \/ YardInv) /\ [Next]_vars => (misled \/ YardInv)'
  BY YardInvKept, MisledForGood
<1> QED
  BY <1>1, YardInvFirst, PTL DEF Spec

(* Every variable keeps its type: no more residents than there is room     *)
(* for, and the occupancy announced is never more than that.               *)
THEOREM TypeCorrect == Spec => [](misled \/ TypeOK)
<1>1. YardInv => TypeOK
  BY DEF YardInv
<1> QED
  BY <1>1, YardIsSafe, PTL

(* The device knows where the spares stand (YardZoneDevice.release,        *)
(* "ROTATE THE SPARES"): while nobody is served, carriages stand in one    *)
(* road at most, the one it remembers if it does.                          *)
THEOREM SparesAreWhereRemembered == Spec => []SparesStandWhereRemembered
<1>1. misled \/ YardInv => SparesStandWhereRemembered
  BY DEF YardInv, Carriages, SparesKnown, SparesStandWhereRemembered
<1> QED
  BY <1>1, YardIsSafe, PTL

(* Only the first resident moves, and the scheduler has it suspended, or   *)
(* will have when it reads what is under way (ADR-026, ADR-027).           *)
THEOREM OneTrainMoves == Spec => [](misled \/ OneMover)
<1>1. YardInv => OneMover
  <2> SUFFICES ASSUME YardInv, NEW t \in Train, motor[t] # "stopped"
               PROVE  /\ residents # <<>> /\ t = Head(residents)
                      /\ \/ status[t] = "inside"
                         \/ status[t] = "cleared" /\ TagObserved(t) \in Range(toCore)
    BY DEF OneMover
  <2>1. service # None /\ t = Head(residents) /\ residents # <<>> /\ residents \in Seq(Train)
    BY DEF YardInv, TypeOK, OthersStand, Serving
  <2>2. t \in Range(residents)
    BY <2>1 DEF Range
  <2>3. place[t] # "line"
    BY <2>1, RoadNames DEF YardInv, TypeOK, Service, Serving, Progress
  <2>4. \/ status[t] = "cleared" /\ OnlyTag(toCore, t)
        \/ status[t] = "inside"
    BY <2>2, <2>3 DEF YardInv, Visits, Visit, VisitAs
  <2> QED
    BY <2>1, <2>4 DEF OnlyTag, Range
<1> QED
  BY <1>1, YardIsSafe, PTL

(* A visitor is routed into an empty road (YardZoneDevice.pickFreeSlot).   *)
THEOREM RoadsEnteredAreEmpty == Spec => EntersEmptyRoad
<1>1. (misled \/ YardInv) /\ [Next]_vars =>
        [~misled => \A t \in Train :
            place[t] = "throat" /\ place'[t] \in Slot => ~Occupied(place'[t])]_vars
  <2> SUFFICES ASSUME YardInv, Next, NEW t \in Train, place[t] = "throat", place'[t] \in Slot
               PROVE  ~Occupied(place'[t])
    BY DEF vars
  <2>1. Roll(t)
    BY OnlyRollingLeavesThroat
  <2>2. /\ service # None /\ t = Head(residents) /\ service.phase = "rest"
        /\ place'[t] = service.entry /\ service.entry \in Slot /\ service.entry # sparesSlot
    BY <2>1, RollsWhereItMay, RoadNames DEF YardInv, TypeOK, Serving, Service
  <2>3. ~(stock[service.entry] > 0)
    BY <2>2 DEF YardInv, Carriages, LooseInTurn, Loose
  <2>4. \A u \in Train : place[u] # service.entry
    BY <2>2, RoadNames DEF YardInv, OthersStand
  <2> QED
    BY <2>2, <2>3, <2>4 DEF Occupied
<1> QED
  BY <1>1, YardIsSafe, PTL DEF Spec, EntersEmptyRoad

(* Shunting stays behind the throat (yard-zone-device.ts, "it never drives *)
(* a train across the throat") but for the one case in which it does not:  *)
(* another train on the lead was taken for the one pulled clear.           *)
THEOREM CrossingTakesAnotherOnLead == Spec => OnlyMisledCrossesThroat
<1>1. (misled \/ YardInv) /\ [Next]_vars =>
        [\A t \in Train : place[t] \in Slot \cup {"lead"} /\ place'[t] = "throat" => misled]_vars
  <2> SUFFICES ASSUME YardInv, Next, NEW t \in Train, place[t] \in Slot \cup {"lead"},
                      place'[t] = "throat"
               PROVE  FALSE
    BY DEF vars
  <2>1. Roll(t)
    BY OnlyRollingComesBack
  <2>2. service # None
    BY <2>1, RollsWhereItMay
  <2> QED
    BY <2>1, <2>2, RollsWhereItMay, RoadNames DEF YardInv, TypeOK, Service
<1> QED
  BY <1>1, YardIsSafe, PTL DEF Spec, OnlyMisledCrossesThroat
=============================================================================
