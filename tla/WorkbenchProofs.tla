--------------------------- MODULE WorkbenchProofs ---------------------------
(***************************************************************************)
(* However the table is edited, and however the messages of devices that   *)
(* are replaced follow upon those of their predecessors: the records that  *)
(* the table, its hardware and the server keep of points, gates and        *)
(* departed devices come to agree.                                         *)
(***************************************************************************)
EXTENDS Workbench, SequenceTheorems, FunctionTheorems, FiniteSetTheorems, TLAPS

-----------------------------------------------------------------------------
(* What a queue of events will have made of a record.                      *)

(* Of the events about device d with a type of T the last in queue q has   *)
(* one of X; or there is none, and old holds.                              *)
Ends(q, d, T, X, old) ==
    \/ \E i \in DOMAIN q :
          /\ q[i].device = d /\ q[i].type \in X
          /\ \A k \in DOMAIN q : k > i /\ q[k].device = d => q[k].type \notin T
    \/ old /\ \A k \in DOMAIN q : q[k].device = d => q[k].type \notin T

Presence == {"registered", "disconnected"}
Granting == Presence \cup {"granting"}
Standing == Granting \cup {"withholding"}

-----------------------------------------------------------------------------
(* The invariant.                                                          *)

(* Until the page is closed, the hook has reconciled what is on the table. *)
Reconciled ==
    edits < MaxEdits =>
        hw.lastLive = liveIds /\ hw.topology = pieces \cap Track /\ hw.lastPieces = pieces

(* The server has a device at work on record, or will have; *)
AtWorkRegistered ==
    \A d \in hw.devices : Ends(hw.events, d, Presence, {"registered"}, d \in registered)

(* it has forgotten, or will have, the trains and gates that are not live; *)
DepartedForgotten ==
    \A d \in (Train \cup Gate) \ liveIds :
        Ends(hw.events, d, Presence, {"disconnected"}, d \notin registered)

(* it knows, or will, whether a gate withholds; *)
GatesKnown ==
    /\ hw.holding \subseteq hw.devices
    /\ \A d \in Gated \cap hw.devices :
          IF d \in hw.holding
          THEN Ends(hw.events, d, Standing, {"withholding"}, d \in withheld)
          ELSE Ends(hw.events, d, Standing, Granting, d \notin withheld)

(* and where points lie that are not where ToyHardware wants them, if it   *)
(* has a record of them at all, unless they are about to be thrown.        *)
PointsKnown ==
    \A j \in Junction \cap hw.devices :
        \/ \E i \in DOMAIN hw.commands : hw.commands[i].device = j
        \/ hw.points[j] = hw.switchPositions[j]
        \/ Ends(hw.events, j, Position, {hw.points[j]}, confirmed[j] \in {None, hw.points[j]})

BenchInv ==
    /\ TypeOK /\ Reconciled /\ AtWorkRegistered /\ DepartedForgotten /\ GatesKnown
    /\ PointsAreSet /\ PointsKnown

-----------------------------------------------------------------------------
(* Queues.                                                                 *)

(* No message of queue q is about device d and of a type of T. *)
Mute(q, d, T) == \A k \in DOMAIN q : q[k].device = d => q[k].type \notin T

(* What an event about d makes of the record, that comes last.             *)
LEMMA EventAdded ==
    ASSUME NEW q \in Seq(Announcement), NEW e \in Announcement, NEW d, NEW T, NEW X, X \subseteq T,
           NEW old
    PROVE  /\ Append(q, e) \in Seq(Announcement)
           /\ e.device = d /\ e.type \in X => Ends(Append(q, e), d, T, X, old)
           /\ (e.device # d \/ e.type \notin T) /\ Ends(q, d, T, X, old)
                => Ends(Append(q, e), d, T, X, old)
<1> DEFINE r == Append(q, e)
           n == Len(q)
<1>1. /\ n \in Nat /\ DOMAIN q = 1..n /\ DOMAIN r = 1..n + 1 /\ r \in Seq(Announcement)
      /\ r[n + 1] = e /\ \A i \in 1..n : r[i] = q[i]
  BY AppendProperties
<1> HIDE DEF r, n
<1>2. ASSUME e.device = d, e.type \in X
      PROVE  Ends(r, d, T, X, old)
  <2>1. n + 1 \in DOMAIN r /\ \A k \in DOMAIN r : ~(k > n + 1)
    BY <1>1
  <2> QED
    BY <1>1, <1>2, <2>1 DEF Ends
<1>3. ASSUME e.device # d \/ e.type \notin T, Ends(q, d, T, X, old)
      PROVE  Ends(r, d, T, X, old)
  <2>1. CASE old /\ \A k \in DOMAIN q : q[k].device = d => q[k].type \notin T
    BY <1>1, <1>3, <2>1 DEF Ends
  <2>2. CASE \E i \in DOMAIN q :
                /\ q[i].device = d /\ q[i].type \in X
                /\ \A k \in DOMAIN q : k > i /\ q[k].device = d => q[k].type \notin T
    <3>1. PICK i \in DOMAIN q :
                /\ q[i].device = d /\ q[i].type \in X
                /\ \A k \in DOMAIN q : k > i /\ q[k].device = d => q[k].type \notin T
      BY <2>2
    <3>2. \A k \in DOMAIN r : k > i /\ r[k].device = d => r[k].type \notin T
      BY <1>1, <1>3, <3>1
    <3>3. i \in DOMAIN r /\ r[i].device = d /\ r[i].type \in X
      BY <1>1, <3>1
    <3> QED
      BY <3>2, <3>3 DEF Ends
  <2> QED
    BY <1>3, <2>1, <2>2 DEF Ends
<1> QED
  BY <1>1, <1>2, <1>3 DEF r

(* What remains, once the first event has been received.                   *)
LEMMA EventReceived ==
    ASSUME NEW q \in Seq(Announcement), q # <<>>, NEW d, NEW T, NEW X, X \subseteq T,
           NEW old, Ends(q, d, T, X, old)
    PROVE  /\ Tail(q) \in Seq(Announcement) /\ Head(q) \in Announcement
           /\ Head(q).device # d \/ Head(q).type \notin T => Ends(Tail(q), d, T, X, old)
           /\ Head(q).device = d /\ Head(q).type \in T => Ends(Tail(q), d, T, X, Head(q).type \in X)
<1> DEFINE r == Tail(q)
           n == Len(q)
           h == Head(q)
<1>1. /\ n \in Nat /\ n > 0 /\ DOMAIN q = 1..n /\ DOMAIN r = 1..n - 1 /\ h = q[1]
      /\ \A i \in 1..n - 1 : i + 1 \in 1..n /\ r[i] = q[i + 1]
      /\ \A i \in 2..n : i - 1 \in 1..n - 1 /\ r[i - 1] = q[i]
  BY HeadTailProperties
<1>2. r \in Seq(Announcement) /\ h \in Announcement
  BY HeadTailProperties
<1> HIDE DEF r, n, h
<1>3. CASE old /\ \A k \in DOMAIN q : q[k].device = d => q[k].type \notin T
  <2>1. \A k \in DOMAIN r : r[k].device = d => r[k].type \notin T
    <3> TAKE k \in DOMAIN r
    <3>1. k + 1 \in DOMAIN q /\ r[k] = q[k + 1]
      BY <1>1
    <3> QED
      BY <1>3, <3>1
  <2>2. ~(h.device = d /\ h.type \in T)
    BY <1>1, <1>3
  <2> QED
    BY <1>2, <1>3, <2>1, <2>2 DEF Ends, r, h
<1>4. CASE \E i \in DOMAIN q :
              /\ q[i].device = d /\ q[i].type \in X
              /\ \A k \in DOMAIN q : k > i /\ q[k].device = d => q[k].type \notin T
  <2>1. PICK i \in DOMAIN q :
              /\ q[i].device = d /\ q[i].type \in X
              /\ \A k \in DOMAIN q : k > i /\ q[k].device = d => q[k].type \notin T
    BY <1>4
  <2>2. \A k \in DOMAIN r : k + 1 > i /\ r[k].device = d => r[k].type \notin T
    <3> TAKE k \in DOMAIN r
    <3>1. k + 1 \in DOMAIN q /\ r[k] = q[k + 1]
      BY <1>1
    <3> QED
      BY <2>1, <3>1
  <2>3. CASE i = 1
    <3>1. \A k \in DOMAIN r : k + 1 > i
      BY <1>1, <2>3
    <3>2. \A k \in DOMAIN r : r[k].device = d => r[k].type \notin T
      BY <2>2, <3>1
    <3>3. h.device = d /\ h.type \in X /\ h.type \in T
      BY <1>1, <2>1, <2>3
    <3> QED
      BY <1>2, <3>2, <3>3 DEF Ends, r, h
  <2>4. CASE i # 1
    <3>1. i - 1 \in DOMAIN r /\ r[i - 1] = q[i]
      BY <1>1, <2>1, <2>4
    <3>2. \A k \in DOMAIN r : k > i - 1 => k + 1 > i
      BY <1>1, <2>1
    <3>3. \A b : Ends(r, d, T, X, b)
      BY <2>1, <2>2, <3>1, <3>2 DEF Ends
    <3> QED
      BY <1>2, <3>3 DEF r, h
  <2> QED
    BY <2>3, <2>4
<1> QED
  BY <1>3, <1>4 DEF Ends

(* Two queues, one after the other.                                        *)
LEMMA QueuesJoined ==
    ASSUME NEW q \in Seq(Announcement), NEW s \in Seq(Announcement),
           NEW d, NEW T, NEW X, X \subseteq T, NEW old
    PROVE  /\ q \o s \in Seq(Announcement)
           /\ (\A b : Ends(s, d, T, X, b)) => Ends(q \o s, d, T, X, old)
           /\ Mute(s, d, T) /\ Ends(q, d, T, X, old) => Ends(q \o s, d, T, X, old)
           /\ Mute(q, d, T) /\ Mute(s, d, T) => Mute(q \o s, d, T)
<1> DEFINE r == q \o s
           n == Len(q)
           m == Len(s)
<1>1. /\ n \in Nat /\ m \in Nat /\ DOMAIN q = 1..n /\ DOMAIN s = 1..m /\ DOMAIN r = 1..n + m
      /\ \A i \in 1..n : r[i] = q[i]
      /\ \A i \in 1..n + m : i > n => i - n \in 1..m /\ r[i] = s[i - n]
      /\ \A i \in 1..m : i + n \in 1..n + m /\ r[i + n] = s[i]
  BY ConcatProperties
<1>2. r \in Seq(Announcement)
  BY ConcatProperties
<1> HIDE DEF r, n, m
<1>3. ASSUME \A b : Ends(s, d, T, X, b)
      PROVE  Ends(r, d, T, X, old)
  <2>1. PICK i \in DOMAIN s :
              /\ s[i].device = d /\ s[i].type \in X
              /\ \A k \in DOMAIN s : k > i /\ s[k].device = d => s[k].type \notin T
    <3>1. Ends(s, d, T, X, FALSE)
      BY <1>3
    <3> QED
      BY <3>1 DEF Ends
  <2>2. ASSUME NEW k \in DOMAIN r, k > i + n, r[k].device = d
        PROVE  r[k].type \notin T
    <3>1. k - n \in DOMAIN s /\ r[k] = s[k - n] /\ k - n > i
      BY <1>1, <2>1, <2>2
    <3> QED
      BY <2>1, <2>2, <3>1
  <2>3. i + n \in DOMAIN r /\ r[i + n] = s[i]
    BY <1>1, <2>1
  <2> QED
    BY <2>1, <2>2, <2>3 DEF Ends
<1>4. ASSUME Mute(s, d, T), Ends(q, d, T, X, old)
      PROVE  Ends(r, d, T, X, old)
  <2>1. ASSUME NEW k \in DOMAIN r, k > n, r[k].device = d
        PROVE  r[k].type \notin T
    <3>1. k - n \in DOMAIN s /\ r[k] = s[k - n]
      BY <1>1, <2>1
    <3> QED
      BY <1>4, <2>1, <3>1 DEF Mute
  <2>2. \A k \in DOMAIN r : ~(k > n) => k \in DOMAIN q /\ r[k] = q[k]
    BY <1>1
  <2>3. CASE old /\ \A k \in DOMAIN q : q[k].device = d => q[k].type \notin T
    BY <2>1, <2>2, <2>3 DEF Ends
  <2>4. CASE \E i \in DOMAIN q :
                /\ q[i].device = d /\ q[i].type \in X
                /\ \A k \in DOMAIN q : k > i /\ q[k].device = d => q[k].type \notin T
    <3>1. PICK i \in DOMAIN q :
                /\ q[i].device = d /\ q[i].type \in X
                /\ \A k \in DOMAIN q : k > i /\ q[k].device = d => q[k].type \notin T
      BY <2>4
    <3>2. i \in DOMAIN r /\ r[i] = q[i]
      BY <1>1, <3>1
    <3>3. \A k \in DOMAIN r : k > i /\ r[k].device = d => r[k].type \notin T
      BY <2>1, <2>2, <3>1
    <3> QED
      BY <3>1, <3>2, <3>3 DEF Ends
  <2> QED
    BY <1>4, <2>3, <2>4 DEF Ends
<1>5. ASSUME Mute(q, d, T), Mute(s, d, T)
      PROVE  Mute(r, d, T)
  <2> SUFFICES ASSUME NEW k \in DOMAIN r, r[k].device = d
               PROVE  r[k].type \notin T
    BY DEF Mute
  <2>1. CASE k > n
    <3>1. k - n \in DOMAIN s /\ r[k] = s[k - n]
      BY <1>1, <2>1
    <3> QED
      BY <1>5, <3>1 DEF Mute
  <2>2. CASE ~(k > n)
    <3>1. k \in DOMAIN q /\ r[k] = q[k]
      BY <1>1, <2>2
    <3> QED
      BY <1>5, <3>1 DEF Mute
  <2> QED
    BY <2>1, <2>2
<1> QED
  BY <1>2, <1>3, <1>4, <1>5 DEF r

(* A finite set in some order.                                             *)
LEMMA InSomeOrder ==
    ASSUME NEW S, IsFiniteSet(S)
    PROVE  /\ SetToSeq(S) \in Seq(S)
           /\ \A i, k \in DOMAIN SetToSeq(S) : SetToSeq(S)[i] = SetToSeq(S)[k] => i = k
           /\ \A x \in S : \E i \in DOMAIN SetToSeq(S) : SetToSeq(S)[i] = x
<1> DEFINE n == Cardinality(S)
           s == SetToSeq(S)
<1>1. n \in Nat /\ ExistsBijection(1..n, S)
  BY FS_CardinalityType
<1>2. PICK f : f \in Bijection(1..n, S)
  BY <1>1 DEF ExistsBijection
<1>3. f \in [1..n -> S] /\ IsInjective(f)
  BY <1>2 DEF Bijection, Injection
<1>4. s \in [1..n -> S] /\ IsInjective(s)
  BY <1>3 DEF SetToSeq
<1> HIDE DEF s
<1>5. s \in Injection(1..n, S)
  BY <1>4 DEF Injection, IsInjective
<1>6. Cardinality(1..n) = n
  BY <1>1, FS_Interval
<1> HIDE DEF n
<1>7. s \in Surjection(1..n, S)
  BY <1>5, <1>6, FS_Injection DEF n
<1>8. \A x \in S : \E i \in 1..n : s[i] = x
  BY <1>7 DEF Surjection
<1>9. s \in Seq(S) /\ DOMAIN s = 1..n
  BY <1>1, <1>4
<1> QED
  BY <1>4, <1>8, <1>9 DEF s, IsInjective

(* Devices of D all announce the same, in some order. *)
All(D, type) == SetToSeq({Event(d, type) : d \in D})

(* What their announcements make of a record.                              *)
LEMMA AllAnnounce ==
    ASSUME NEW D \in SUBSET Device, NEW type, \A d \in D : Event(d, type) \in Announcement,
           NEW d, NEW T, NEW X, X \subseteq T
    PROVE  /\ All(D, type) \in Seq(Announcement)
           /\ d \notin D \/ type \notin T => Mute(All(D, type), d, T)
           /\ d \in D /\ type \in X => \A b : Ends(All(D, type), d, T, X, b)
<1> DEFINE S == {Event(x, type) : x \in D}
           s == SetToSeq(S)
<1>1. IsFiniteSet(D)
  BY WorkbenchAssumption, FS_Subset
<1>2. IsFiniteSet(S)
  <2> DEFINE f == [x \in D |-> Event(x, type)]
  <2>1. f \in [D -> S] /\ \A y \in S : \E x \in D : f[x] = y
    OBVIOUS
  <2>2. f \in Surjection(D, S)
    BY <2>1, Fun_IsSurj
  <2> QED
    BY <1>1, <2>2, FS_Surjection
<1>3. /\ s \in Seq(S)
      /\ \A i, k \in DOMAIN s : s[i] = s[k] => i = k
      /\ \A x \in S : \E i \in DOMAIN s : s[i] = x
  BY <1>2, InSomeOrder
<1>4. S \subseteq Announcement
  OBVIOUS
<1>5. \A i \in DOMAIN s : s[i] \in S
  <2> HIDE DEF S, s
  <2> QED
    BY <1>3
<1>6. s \in Seq(Announcement)
  BY <1>3, <1>4, <1>5
<1> HIDE DEF s
<1>7. \A i \in DOMAIN s : s[i].device \in D /\ s[i].type = type /\ s[i] = Event(s[i].device, type)
  BY <1>5 DEF Event
<1>8. ASSUME d \notin D \/ type \notin T
      PROVE  Mute(s, d, T)
  BY <1>7, <1>8 DEF Mute
<1>9. ASSUME d \in D, type \in X, NEW b
      PROVE  Ends(s, d, T, X, b)
  <2>1. PICK i \in DOMAIN s : s[i] = Event(d, type)
    BY <1>3, <1>9
  <2>2. s[i].device = d /\ s[i].type \in X
    BY <1>9, <2>1 DEF Event
  <2>3. ASSUME NEW k \in DOMAIN s, k > i, s[k].device = d
        PROVE  FALSE
    <3>1. s[k] = s[i]
      BY <1>7, <2>1, <2>3
    <3>2. k = i
      BY <1>3, <3>1
    <3> QED
      BY <1>6, <2>3, <3>2
  <2> QED
    BY <2>2, <2>3 DEF Ends
<1> QED
  BY <1>6, <1>8, <1>9 DEF s, All

-----------------------------------------------------------------------------
(* The steps of a reconciliation.                                          *)

(* A command for device d is under way. *)
Told(q, d) == \E i \in DOMAIN q : q[i].device = d

(* What is said to points is not lost by further commands.                 *)
LEMMA CommandsJoined ==
    ASSUME NEW q \in Seq(Commanded), NEW s \in Seq(Commanded), NEW d
    PROVE  /\ q \o s \in Seq(Commanded)
           /\ Told(q, d) \/ Told(s, d) => Told(q \o s, d)
<1>1. /\ Len(q) \in Nat /\ Len(s) \in Nat /\ DOMAIN q = 1..Len(q) /\ DOMAIN s = 1..Len(s)
      /\ q \o s \in Seq(Commanded) /\ DOMAIN (q \o s) = 1..Len(q) + Len(s)
      /\ \A i \in 1..Len(q) : i \in DOMAIN (q \o s) /\ (q \o s)[i] = q[i]
      /\ \A i \in 1..Len(s) : i + Len(q) \in DOMAIN (q \o s) /\ (q \o s)[i + Len(q)] = s[i]
  BY ConcatProperties
<1>2. ASSUME Told(q, d)
      PROVE  Told(q \o s, d)
  BY <1>1, <1>2 DEF Told
<1>3. ASSUME Told(s, d)
      PROVE  Told(q \o s, d)
  BY <1>1, <1>3 DEF Told
<1> QED
  BY <1>1, <1>2, <1>3

(* Points that do not rest are thrown.                                     *)
LEMMA PointsThrown ==
    ASSUME NEW h \in Hardware, NEW thrown \in SUBSET Junction
    PROVE  /\ SetToSeq(Throws(h, thrown)) \in Seq(Commanded)
           /\ \A j \in thrown : Told(SetToSeq(Throws(h, thrown)), j)
<1> DEFINE S == Throws(h, thrown)
<1>1. \A j \in Junction : Desired(h, j) \in Position
  BY WorkbenchAssumption DEF Hardware, Desired, Position, Rest
<1>2. IsFiniteSet(S)
  <2> DEFINE f == [j \in thrown |-> Command(j, Desired(h, j))]
  <2>1. f \in [thrown -> S] /\ \A y \in S : \E x \in thrown : f[x] = y
    BY DEF Throws
  <2>2. f \in Surjection(thrown, S)
    BY <2>1, Fun_IsSurj
  <2>3. IsFiniteSet(thrown)
    BY WorkbenchAssumption, FS_Subset DEF Device
  <2> QED
    BY <2>2, <2>3, FS_Surjection
<1>3. S \subseteq Commanded
  BY <1>1 DEF Throws, Command, Commanded
<1>4. SetToSeq(S) \in Seq(S) /\ \A x \in S : \E i \in DOMAIN SetToSeq(S) : SetToSeq(S)[i] = x
  BY <1>2, InSomeOrder
<1>5. \A j \in thrown : Command(j, Desired(h, j)) \in S
  BY DEF Throws
<1> HIDE DEF S
<1>6. SetToSeq(S) \in Seq(Commanded)
  BY <1>3, <1>4
<1>7. ASSUME NEW j \in thrown
      PROVE  Told(SetToSeq(S), j)
  <2>1. PICK i \in DOMAIN SetToSeq(S) : SetToSeq(S)[i] = Command(j, Desired(h, j))
    BY <1>4, <1>5
  <2>2. SetToSeq(S)[i].device = j
    BY <2>1 DEF Command
  <2> QED
    BY <2>2 DEF Told
<1> QED
  BY <1>6, <1>7 DEF S

(* The devices of world k are those of live that are shown, as they start. *)
Started(h, k, shown, live) ==
    /\ k \in Hardware
    /\ k.devices = live \cap shown \cap Device
    /\ {t \in Train : k.trains[t] # None} = k.devices \cap Train
    /\ \A j \in Junction \cap k.devices :
          Told(k.commands, j) \/ (k.points[j] = k.switchPositions[j] /\ k.points[j] # None)
    /\ k.holding \subseteq k.devices
    /\ k.events = h.events \o All(k.devices, "registered") \o All(k.holding, "withholding")
    /\ k.topology = h.topology /\ k.lastLive = h.lastLive /\ k.lastPieces = h.lastPieces

(* RebuildDevices starts them.                                             *)
LEMMA DevicesStart ==
    ASSUME NEW h \in Hardware, NEW shown \in SUBSET Piece, NEW at \in [Train -> Rail],
           NEW live \in SUBSET Device
    PROVE  Started(h, RebuildDevices(h, shown, at, live), shown, live)
<1> DEFINE spawned == live \cap shown \cap Device
           switches == spawned \cap Junction
           resting == AtRest(h, switches)
           again == spawned \cap h.savedWithholds
           points == [j \in Junction |-> IF j \in resting THEN Rest ELSE None]
           wanted == [j \in Junction |-> IF j \in switches THEN Desired(h, j) ELSE h.switchPositions[j]]
           saved == [j \in Junction |-> IF j \in switches THEN None ELSE h.savedPoints[j]]
           withholds == (h.gateWithholds \ spawned) \cup again
           left == h.savedWithholds \ spawned
           trains == [t \in Train |-> IF t \in spawned THEN Respawned(h, shown, at, t) ELSE None]
           parked == [t \in Train |-> IF t \in spawned THEN None ELSE h.savedTrains[t]]
           events == h.events \o All(spawned, "registered") \o All(again, "withholding")
           commands == h.commands \o SetToSeq(Throws(h, switches \ resting))
           k == RebuildDevices(h, shown, at, live)
<1>1. \A j \in Junction : Desired(h, j) \in Position
  BY WorkbenchAssumption DEF Hardware, Desired, Position, Rest
<1>2. /\ spawned \in SUBSET Device /\ switches \in SUBSET Junction /\ resting \in SUBSET switches
      /\ again \in SUBSET Gated /\ again \subseteq spawned
      /\ withholds \in SUBSET Gated /\ left \in SUBSET Gated
  BY DEF Hardware, AtRest
<1>3. points \in [Junction -> Position \cup {None}]
  BY DEF Position
<1>4. wanted \in [Junction -> Position \cup {None}] /\ saved \in [Junction -> Position \cup {None}]
  BY <1>1 DEF Hardware
<1>5. \A t \in Train : Respawned(h, shown, at, t) \in Bench
  <2> TAKE t \in Train
  <2> DEFINE rests == [pose |-> None, cleared |-> FALSE, moving |-> FALSE, powered |-> TRUE]
  <2>1. h.savedTrains[t] \in Bench \cup {None}
    BY DEF Hardware
  <2>2. rests \in Bench /\ [rests EXCEPT !.pose = at[t]] \in Bench
    BY DEF Bench
  <2>3. ASSUME h.savedTrains[t] # None
        PROVE  [h.savedTrains[t] EXCEPT !.powered = TRUE] \in Bench
    BY <2>1, <2>3 DEF Bench
  <2> QED
    BY <2>2, <2>3 DEF Respawned
<1>6. trains \in [Train -> Bench \cup {None}] /\ parked \in [Train -> Bench \cup {None}]
  BY <1>5 DEF Hardware
<1>7. {t \in Train : trains[t] # None} = spawned \cap Train
  BY <1>5, WorkbenchAssumption
<1>8. events \in Seq(Announcement)
  <2>1. \A d \in spawned : Event(d, "registered") \in Announcement
    BY DEF Event, Announcement
  <2>2. \A d \in again : Event(d, "withholding") \in Announcement
    BY <1>2 DEF Event, Announcement
  <2>3. All(spawned, "registered") \in Seq(Announcement) /\ All(again, "withholding") \in Seq(Announcement)
    <3> HIDE DEF spawned, again
    <3> again \in SUBSET Device
      BY <1>2
    <3> QED
      BY <1>2, <2>1, <2>2, AllAnnounce
  <2>4. h.events \in Seq(Announcement)
    BY DEF Hardware
  <2> HIDE DEF spawned, again
  <2> QED
    BY <2>3, <2>4, ConcatProperties
<1>9. commands \in Seq(Commanded) /\ \A j \in switches \ resting : Told(commands, j)
  <2>1. h.commands \in Seq(Commanded)
    BY DEF Hardware
  <2>2. switches \ resting \in SUBSET Junction
    BY <1>2
  <2> HIDE DEF switches, resting
  <2>3. /\ SetToSeq(Throws(h, switches \ resting)) \in Seq(Commanded)
        /\ \A j \in switches \ resting : Told(SetToSeq(Throws(h, switches \ resting)), j)
    BY <2>2, PointsThrown
  <2> QED
    BY <2>1, <2>3, CommandsJoined
<1>10. \A j \in resting : points[j] = Rest /\ wanted[j] = Rest
  BY <1>2 DEF AtRest
<1>11. k = [h EXCEPT !.devices = spawned, !.points = points, !.switchPositions = wanted,
                     !.savedPoints = saved, !.holding = again, !.gateWithholds = withholds,
                     !.savedWithholds = left, !.trains = trains, !.savedTrains = parked,
                     !.events = events, !.commands = commands]
  BY DEF RebuildDevices, All
<1> HIDE DEF spawned, switches, resting, again, points, wanted, saved, withholds, left, trains,
             parked, events, commands, k
<1>12. /\ k \in Hardware
       /\ k.devices = spawned /\ k.points = points /\ k.switchPositions = wanted
       /\ k.holding = again /\ k.trains = trains /\ k.events = events /\ k.commands = commands
       /\ k.topology = h.topology /\ k.lastLive = h.lastLive /\ k.lastPieces = h.lastPieces
  BY <1>2, <1>3, <1>4, <1>6, <1>8, <1>9, <1>11 DEF Hardware
<1>13. \A j \in Junction \cap k.devices :
          Told(k.commands, j) \/ (k.points[j] = k.switchPositions[j] /\ k.points[j] # None)
  <2> TAKE j \in Junction \cap k.devices
  <2>1. j \in switches
    BY <1>12 DEF switches
  <2>2. Rest # None
    BY WorkbenchAssumption DEF Position
  <2> QED
    BY <1>9, <1>10, <1>12, <2>1, <2>2
<1> QED
  BY <1>2, <1>7, <1>12, <1>13 DEF Started, spawned, events, k

(* World k is h, if the track is that of shown; else what was live in h and *)
(* is shown starts in a new one.                                           *)
LaidOut(h, k, shown) ==
    \/ k = h /\ h.topology = shown \cap Track
    \/ /\ h.topology # shown \cap Track
       /\ k \in Hardware /\ k.topology = shown \cap Track
       /\ k.lastLive = h.lastLive \cap shown /\ k.lastPieces = shown
       /\ k.holding \subseteq k.devices /\ k.devices = h.lastLive \cap shown
       /\ k.events = h.events \o All(k.devices, "registered") \o All(k.holding, "withholding")

(* A changed track: the devices that were live start in a new world.       *)
LEMMA LayoutSyncs ==
    ASSUME NEW h \in Hardware, NEW shown \in SUBSET Piece, NEW at \in [Train -> Rail]
    PROVE  LaidOut(h, SyncLayout(h, shown, at), shown)
<1> SUFFICES ASSUME h.topology # shown \cap Track
             PROVE  LET k == Rebuild(h, shown, at)
                    IN  /\ k \in Hardware /\ k.topology = shown \cap Track
                        /\ k.lastLive = h.lastLive \cap shown /\ k.lastPieces = shown
                        /\ k.holding \subseteq k.devices /\ k.devices = h.lastLive \cap shown
                        /\ k.events = h.events \o All(k.devices, "registered")
                                               \o All(k.holding, "withholding")
  BY DEF SyncLayout, LaidOut
<1> DEFINE live == h.lastLive \cap shown
           m == SnapshotDeviceState(h)
           n == SnapshotTrainState(m)
           o == [n EXCEPT !.topology = shown \cap Track, !.lastPoweredOff = {},
                          !.lastLive = live, !.lastPieces = shown]
           k == RebuildDevices(o, shown, at, live)
<1>1. m \in Hardware /\ m.events = h.events
  BY DEF SnapshotDeviceState, Hardware, NoPoints
<1> HIDE DEF m
<1>2. n \in Hardware /\ n.events = h.events
  <2> DEFINE kept == [t \in Train |->
                         IF m.trains[t] # None /\ m.trains[t].pose # None THEN m.trains[t] ELSE None]
  <2>1. kept \in [Train -> Bench \cup {None}]
    BY <1>1 DEF Hardware
  <2>2. n = [m EXCEPT !.savedTrains = kept]
    BY DEF SnapshotTrainState
  <2> HIDE DEF kept, n
  <2> QED
    BY <1>1, <2>1, <2>2 DEF Hardware
<1> HIDE DEF n
<1>3. live \in SUBSET Device /\ live = live \cap shown \cap Device
  BY DEF Hardware
<1>4. /\ o \in Hardware /\ o.events = h.events
      /\ o.topology = shown \cap Track /\ o.lastLive = live /\ o.lastPieces = shown
  <2> HIDE DEF live
  <2> QED
    BY <1>2, <1>3 DEF Hardware, Track, Piece
<1> HIDE DEF o
<1>5. Started(o, k, shown, live)
  <2> HIDE DEF live
  <2> QED
    BY <1>3, <1>4, DevicesStart
<1>6. k = Rebuild(h, shown, at)
  BY DEF Rebuild, k, live, o, n, m
<1> HIDE DEF k
<1> QED
  BY <1>3, <1>4, <1>5, <1>6 DEF Started

(* A changed set of live pieces: what is leaving says goodbye, and the      *)
(* others start.                                                           *)
LEMMA LiveSyncs ==
    ASSUME NEW h \in Hardware, NEW shown \in SUBSET Piece, NEW at \in [Train -> Rail],
           NEW live \in SUBSET Device
    PROVE  LET k == SyncLive(h, shown, at, live)
               left == Departing(h, shown, live)
           IN  /\ left \in SUBSET Device
               /\ \A d \in left : Event(d, "disconnected") \in Announcement
               /\ \E o \in Hardware :
                     /\ o.events = h.events \o All(left, "disconnected")
                     /\ o.topology = h.topology /\ o.lastLive = live /\ o.lastPieces = shown
                     /\ Started(o, k, shown, live)
<1> DEFINE left == Departing(h, shown, live)
           said == All(left, "disconnected")
           o == [h EXCEPT !.events = h.events \o said, !.lastLive = live, !.lastPieces = shown]
           k == SyncLive(h, shown, at, live)
<1>1. left \in SUBSET Device
  BY DEF Departing
<1>2. \A d \in left : Event(d, "disconnected") \in Announcement
  BY <1>1 DEF Event, Announcement
<1> HIDE DEF left
<1>3. said \in Seq(Announcement)
  BY <1>1, <1>2, AllAnnounce
<1> HIDE DEF said
<1>4. h.events \o said \in Seq(Announcement)
  BY <1>3, ConcatProperties DEF Hardware
<1>5. /\ o \in Hardware /\ o.events = h.events \o said
      /\ o.topology = h.topology /\ o.lastLive = live /\ o.lastPieces = shown
  BY <1>4 DEF Hardware
<1>6. k = RebuildDevices(o, shown, at, live)
  BY DEF SyncLive, said, left, All
<1> HIDE DEF o, k
<1>7. Started(o, k, shown, live)
  BY <1>5, <1>6, DevicesStart
<1> QED
  BY <1>1, <1>2, <1>5, <1>7 DEF left, said, k

(* World k is h, but for the power of its trains. *)
Powered(h, k) ==
    /\ k \in Hardware
    /\ \A t \in Train : k.trains[t] = None <=> h.trains[t] = None
    /\ k.devices = h.devices /\ k.points = h.points /\ k.switchPositions = h.switchPositions
    /\ k.holding = h.holding /\ k.events = h.events /\ k.commands = h.commands
    /\ k.topology = h.topology /\ k.lastLive = h.lastLive /\ k.lastPieces = h.lastPieces

(* The power of trains is no concern of the other devices.                 *)
LEMMA PowerSyncs ==
    ASSUME NEW h \in Hardware, NEW off \in SUBSET Train
    PROVE  Powered(h, SyncPower(h, off))
<1> DEFINE trains == [t \in Train |->
                         CASE t \in off \ h.lastPoweredOff -> Power(h.trains[t], FALSE)
                           [] t \in h.lastPoweredOff \ off -> Power(h.trains[t], TRUE)
                           [] OTHER                        -> h.trains[t]]
           k == SyncPower(h, off)
<1>1. ASSUME NEW train \in Bench \cup {None}, NEW on \in BOOLEAN
      PROVE  Power(train, on) \in Bench \cup {None} /\ (Power(train, on) = None <=> train = None)
  <2>1. None \notin Bench
    BY WorkbenchAssumption
  <2>2. CASE train = None \/ train.powered = on
    BY <2>2 DEF Power
  <2>3. CASE ~(train = None \/ train.powered = on)
    <3>1. train \in Bench
      BY <2>3
    <3>2. (on /\ train.cleared) \in BOOLEAN
      BY <3>1 DEF Bench
    <3>3. [train EXCEPT !.powered = on, !.moving = on /\ train.cleared] \in Bench
      BY <3>1, <3>2 DEF Bench
    <3> QED
      BY <2>1, <2>3, <3>1, <3>3 DEF Power
  <2> QED
    BY <2>2, <2>3
<1>2. \A t \in Train : h.trains[t] \in Bench \cup {None}
  BY DEF Hardware
<1>3. \A t \in Train : trains[t] \in Bench \cup {None} /\ (trains[t] = None <=> h.trains[t] = None)
  BY <1>1, <1>2
<1>4. trains \in [Train -> Bench \cup {None}]
  BY <1>3
<1>5. k = [h EXCEPT !.trains = trains, !.lastPoweredOff = off]
  BY DEF SyncPower
<1> HIDE DEF trains, k
<1>6. k \in Hardware /\ k.trains = trains
  BY <1>4, <1>5 DEF Hardware
<1>7. /\ k.devices = h.devices /\ k.points = h.points /\ k.switchPositions = h.switchPositions
      /\ k.holding = h.holding /\ k.events = h.events /\ k.commands = h.commands
      /\ k.topology = h.topology /\ k.lastLive = h.lastLive /\ k.lastPieces = h.lastPieces
  BY <1>5 DEF Hardware
<1> QED
  BY <1>3, <1>6, <1>7 DEF Powered, k

(* What the devices of D announce as they start, of which those of H       *)
(* withhold, settles what is on record of them, and of them only.          *)
LEMMA StartAnnounced ==
    ASSUME NEW q \in Seq(Announcement), NEW D \in SUBSET Device, NEW H \in SUBSET (D \cap Gated),
           NEW d, NEW old
    PROVE  LET r == q \o All(D, "registered") \o All(H, "withholding")
           IN  /\ r \in Seq(Announcement)
               /\ d \in D => Ends(r, d, Presence, {"registered"}, old)
               /\ d \notin D /\ Ends(q, d, Presence, {"disconnected"}, old)
                    => Ends(r, d, Presence, {"disconnected"}, old)
               /\ d \in H => Ends(r, d, Standing, {"withholding"}, old)
               /\ d \in D \ H => Ends(r, d, Standing, Granting, old)
<1> DEFINE b == All(D, "registered")
           c == All(H, "withholding")
<1>1. /\ \A x \in D : Event(x, "registered") \in Announcement
      /\ \A x \in H : Event(x, "withholding") \in Announcement
  BY DEF Event, Announcement
<1>2. /\ {"registered"} \subseteq Presence /\ {"disconnected"} \subseteq Presence
      /\ {"withholding"} \subseteq Standing /\ Granting \subseteq Standing
      /\ "registered" \in Granting /\ "registered" \in Presence /\ "registered" \in Standing
      /\ "withholding" \notin Presence /\ "withholding" \in Standing
  BY DEF Presence, Standing, Granting
<1>3. H \in SUBSET Device
  OBVIOUS
<1>4. b \in Seq(Announcement) /\ c \in Seq(Announcement)
  BY <1>1, <1>2, <1>3, AllAnnounce
<1>5. /\ d \in D => \A x : Ends(b, d, Presence, {"registered"}, x)
      /\ d \in D => \A x : Ends(b, d, Standing, Granting, x)
      /\ d \notin D => Mute(b, d, Presence)
  BY <1>1, <1>2, AllAnnounce
<1>6. /\ Mute(c, d, Presence)
      /\ d \in H => \A x : Ends(c, d, Standing, {"withholding"}, x)
      /\ d \notin H => Mute(c, d, Standing)
  BY <1>1, <1>2, <1>3, AllAnnounce
<1> HIDE DEF b, c
<1>7. q \o b \in Seq(Announcement) /\ q \o b \o c \in Seq(Announcement)
  BY <1>4, ConcatProperties
<1>8. ASSUME d \in D
      PROVE  /\ Ends(q \o b, d, Presence, {"registered"}, old)
             /\ Ends(q \o b, d, Standing, Granting, old)
  BY <1>2, <1>4, <1>5, <1>8, QueuesJoined
<1>9. d \in D => Ends(q \o b \o c, d, Presence, {"registered"}, old)
  BY <1>2, <1>4, <1>6, <1>7, <1>8, QueuesJoined
<1>10. d \in D \ H => Ends(q \o b \o c, d, Standing, Granting, old)
  BY <1>2, <1>4, <1>6, <1>7, <1>8, QueuesJoined
<1>11. d \in H => Ends(q \o b \o c, d, Standing, {"withholding"}, old)
  BY <1>2, <1>4, <1>6, <1>7, QueuesJoined
<1>12. ASSUME d \notin D, Ends(q, d, Presence, {"disconnected"}, old)
       PROVE  Ends(q \o b \o c, d, Presence, {"disconnected"}, old)
  <2>1. Ends(q \o b, d, Presence, {"disconnected"}, old)
    BY <1>2, <1>4, <1>5, <1>12, QueuesJoined
  <2> QED
    BY <1>2, <1>4, <1>6, <1>7, <2>1, QueuesJoined
<1> QED
  BY <1>7, <1>9, <1>10, <1>11, <1>12 DEF b, c

(* An edit of the table, which the hook reconciles with hardware h: a train *)
(* or gate that is not live any more was on the table, and its end changes  *)
(* nothing of the track.                                                    *)
Edited(h) ==
    /\ edits < MaxEdits
    /\ h \in Hardware
    /\ h.lastLive = hw.lastLive /\ h.topology = hw.topology /\ h.lastPieces = hw.lastPieces
    /\ pieces' \in SUBSET Piece /\ liveIds' \in SUBSET Device
    /\ poweredOff' \in SUBSET (liveIds' \cap Train) /\ place' \in [Train -> Rail]
    /\ \A d \in (Train \cup Gate) \ liveIds' :
          \/ /\ d \notin liveIds
             /\ Ends(h.events, d, Presence, {"disconnected"}, d \notin registered)
          \/ d \in liveIds \cap pieces /\ pieces' \cap Track = pieces \cap Track

(* However such an edit changes the table.                                 *)
LEMMA ReconcileKeeps ==
    ASSUME BenchInv, NEW h, Edited(h), Reconcile(h)
    PROVE  BenchInv'
<1> DEFINE k1 == SyncLayout(h, pieces', place')
           left == Departing(k1, pieces', liveIds')
           k2 == SyncLive(k1, pieces', place', liveIds')
           said == k1.events \o All(left, "disconnected")
           D == liveIds' \cap pieces'
<1>0. /\ edits < MaxEdits /\ h \in Hardware
      /\ h.lastLive = hw.lastLive /\ h.topology = hw.topology /\ h.lastPieces = hw.lastPieces
      /\ pieces' \in SUBSET Piece /\ liveIds' \in SUBSET Device
      /\ poweredOff' \in SUBSET (liveIds' \cap Train) /\ place' \in [Train -> Rail]
  BY DEF Edited
<1>1. /\ h.lastLive = liveIds /\ h.topology = pieces \cap Track /\ h.lastPieces = pieces
      /\ liveIds \subseteq Device /\ pieces \subseteq Piece
  BY <1>0 DEF BenchInv, Reconciled, TypeOK
<1>a. LaidOut(h, k1, pieces')
  BY <1>0, LayoutSyncs
<1> HIDE DEF k1
<1>2. k1 \in Hardware /\ k1.topology = pieces' \cap Track
  BY <1>0, <1>a DEF LaidOut
<1>3. \A d \in (Train \cup Gate) \ liveIds' :
         \/ d \in left
         \/ Ends(k1.events, d, Presence, {"disconnected"}, d \notin registered)
  <2> TAKE d \in (Train \cup Gate) \ liveIds'
  <2>1. d \in Device
    BY DEF Device, Gated
  <2>2. CASE k1 = h
    BY <1>1, <2>1, <2>2 DEF Edited, Departing
  <2>3. CASE k1 # h
    <3>1. /\ h.topology # pieces' \cap Track
          /\ k1.lastLive = liveIds \cap pieces' /\ k1.lastPieces = pieces'
          /\ k1.holding \subseteq k1.devices /\ k1.devices = liveIds \cap pieces'
          /\ k1.events = h.events \o All(k1.devices, "registered") \o All(k1.holding, "withholding")
      BY <1>1, <1>a, <2>3 DEF LaidOut
    <3>2. d \notin liveIds /\ Ends(h.events, d, Presence, {"disconnected"}, d \notin registered)
      BY <1>1, <3>1 DEF Edited
    <3>3. /\ k1.devices \in SUBSET Device /\ k1.holding \in SUBSET (k1.devices \cap Gated)
          /\ d \notin k1.devices /\ h.events \in Seq(Announcement)
      BY <1>0, <1>2, <3>1, <3>2 DEF Hardware
    <3> QED
      BY <3>1, <3>2, <3>3, StartAnnounced
  <2> QED
    BY <2>2, <2>3
<1>4. hw' = SyncPower(k2, poweredOff') /\ edits' = edits + 1 /\ UNCHANGED <<serverVars, orders>>
  BY DEF Reconcile, k1
<1>5. PICK o \in Hardware :
         /\ o.events = said
         /\ o.topology = k1.topology /\ o.lastLive = liveIds' /\ o.lastPieces = pieces'
         /\ Started(o, k2, pieces', liveIds')
  BY <1>0, <1>2, LiveSyncs
<1>6. left \in SUBSET Device /\ \A d \in left : Event(d, "disconnected") \in Announcement
  BY <1>0, <1>2, LiveSyncs
<1> HIDE DEF left, k2
<1>7. k2 \in Hardware /\ Powered(k2, hw')
  <2>1. poweredOff' \in SUBSET Train
    BY <1>0
  <2> QED
    BY <1>4, <1>5, <2>1, PowerSyncs DEF Started
<1>8. /\ hw' \in Hardware /\ hw'.devices = D /\ D \in SUBSET Device
      /\ {t \in Train : hw'.trains[t] # None} = D \cap Train
      /\ \A j \in Junction \cap D :
            Told(hw'.commands, j) \/ (hw'.points[j] = hw'.switchPositions[j] /\ hw'.points[j] # None)
      /\ hw'.holding \subseteq D
      /\ hw'.events = said \o All(D, "registered") \o All(hw'.holding, "withholding")
      /\ hw'.topology = pieces' \cap Track /\ hw'.lastLive = liveIds' /\ hw'.lastPieces = pieces'
  <2>1. D \in SUBSET Device /\ liveIds' \cap pieces' \cap Device = D
    BY <1>0
  <2> HIDE DEF D, said
  <2>2. /\ k2 \in Hardware /\ k2.devices = D
        /\ {t \in Train : k2.trains[t] # None} = D \cap Train
        /\ \A j \in Junction \cap D :
              Told(k2.commands, j) \/ (k2.points[j] = k2.switchPositions[j] /\ k2.points[j] # None)
        /\ k2.holding \subseteq D
        /\ k2.events = said \o All(D, "registered") \o All(k2.holding, "withholding")
        /\ k2.topology = pieces' \cap Track /\ k2.lastLive = liveIds' /\ k2.lastPieces = pieces'
    BY <1>2, <1>5, <2>1 DEF Started
  <2>3. {t \in Train : hw'.trains[t] # None} = {t \in Train : k2.trains[t] # None}
    BY <1>7 DEF Powered
  <2>4. /\ hw' \in Hardware
        /\ hw'.devices = k2.devices /\ hw'.points = k2.points
        /\ hw'.switchPositions = k2.switchPositions
        /\ hw'.holding = k2.holding /\ hw'.events = k2.events /\ hw'.commands = k2.commands
        /\ hw'.topology = k2.topology /\ hw'.lastLive = k2.lastLive
        /\ hw'.lastPieces = k2.lastPieces
    BY <1>7 DEF Powered
  <2> QED
    BY <2>1, <2>2, <2>3, <2>4
<1> HIDE DEF D
<1>9. said \in Seq(Announcement) /\ hw'.holding \in SUBSET (D \cap Gated)
  <2>1. All(left, "disconnected") \in Seq(Announcement) /\ k1.events \in Seq(Announcement)
    BY <1>2, <1>6, AllAnnounce DEF Hardware
  <2> QED
    BY <1>8, <2>1, ConcatProperties DEF Hardware
<1>10. \A d \in (Train \cup Gate) \ liveIds' :
          Ends(said, d, Presence, {"disconnected"}, d \notin registered)
  <2> TAKE d \in (Train \cup Gate) \ liveIds'
  <2>1. {"disconnected"} \subseteq Presence /\ "disconnected" \in Presence
    BY DEF Presence
  <2>2. /\ k1.events \in Seq(Announcement) /\ All(left, "disconnected") \in Seq(Announcement)
        /\ d \in left => \A x : Ends(All(left, "disconnected"), d, Presence, {"disconnected"}, x)
        /\ d \notin left => Mute(All(left, "disconnected"), d, Presence)
    BY <1>2, <1>6, <2>1, AllAnnounce DEF Hardware
  <2>3. CASE d \in left
    BY <2>1, <2>2, <2>3, QueuesJoined
  <2>4. CASE d \notin left
    BY <1>3, <2>1, <2>2, <2>4, QueuesJoined
  <2> QED
    BY <2>3, <2>4
<1> HIDE DEF said
<1>11. TypeOK'
  <2>1. confirmed' = confirmed /\ registered' = registered /\ withheld' = withheld
    BY <1>4 DEF serverVars
  <2> QED
    BY <1>0, <1>4, <1>8, <2>1, WorkbenchAssumption DEF BenchInv, TypeOK, D
<1>12. Reconciled'
  BY <1>8 DEF Reconciled
<1>13. AtWorkRegistered'
  <2>1. \A d \in D : Ends(hw'.events, d, Presence, {"registered"}, d \in registered')
    BY <1>8, <1>9, StartAnnounced
  <2> QED
    BY <1>8, <2>1 DEF AtWorkRegistered
<1>14. DepartedForgotten'
  <2>1. ASSUME NEW d \in (Train \cup Gate) \ liveIds'
        PROVE  Ends(hw'.events, d, Presence, {"disconnected"}, d \notin registered)
    <3>1. d \notin D /\ Ends(said, d, Presence, {"disconnected"}, d \notin registered)
      BY <1>10 DEF D
    <3> QED
      BY <1>8, <1>9, <3>1, StartAnnounced
  <2>2. registered' = registered
    BY <1>4 DEF serverVars
  <2> QED
    BY <2>1, <2>2 DEF DepartedForgotten
<1>15. GatesKnown'
  <2>1. \A d \in hw'.holding : Ends(hw'.events, d, Standing, {"withholding"}, d \in withheld')
    BY <1>8, <1>9, StartAnnounced
  <2>2. \A d \in D \ hw'.holding :
           Ends(hw'.events, d, Standing, Granting, d \notin withheld')
    <3> TAKE d \in D \ hw'.holding
    <3>1. \A old : Ends(hw'.events, d, Standing, Granting, old)
      BY <1>8, <1>9, StartAnnounced
    <3> QED
      BY <3>1
  <2> QED
    BY <1>8, <2>1, <2>2 DEF GatesKnown
<1>16. PointsAreSet' /\ PointsKnown'
  BY <1>8 DEF PointsAreSet, PointsKnown, Told
<1> QED
  BY <1>11, <1>12, <1>13, <1>14, <1>15, <1>16 DEF BenchInv

-----------------------------------------------------------------------------
(* The edits that are reconciled.                                          *)

(* Lay lays a rail.                                                        *)
LEMMA LayKeeps ==
    ASSUME BenchInv, NEW r \in Rail, Lay(r)
    PROVE  BenchInv'
<1>1. Edited(hw)
  BY DEF Lay, Quick, Edited, BenchInv, TypeOK, DepartedForgotten, Piece, Track
<1> QED
  BY <1>1, ReconcileKeeps DEF Lay

(* MovePiece lifts a train's piece from one rail to another.               *)
LEMMA MovePieceKeeps ==
    ASSUME BenchInv, NEW t \in Train, NEW r \in Rail, MovePiece(t, r)
    PROVE  BenchInv'
<1>1. place' \in [Train -> Rail]
  BY DEF MovePiece, BenchInv, TypeOK
<1>2. Edited(hw)
  BY <1>1 DEF MovePiece, Quick, Edited, BenchInv, TypeOK, DepartedForgotten
<1> QED
  BY <1>2, ReconcileKeeps DEF MovePiece

(* DeleteSelected takes a piece off the table: what is no track leaves the *)
(* track as it is, and what is track is neither train nor plain gate.      *)
LEMMA DeleteSelectedKeeps ==
    ASSUME BenchInv, NEW p \in Piece, DeleteSelected(p)
    PROVE  BenchInv'
<1>1. /\ pieces' \in SUBSET Piece /\ liveIds' \in SUBSET Device
      /\ poweredOff' \in SUBSET (liveIds' \cap Train) /\ place' \in [Train -> Rail]
  BY DEF DeleteSelected, BenchInv, TypeOK
<1>2. ASSUME NEW d \in (Train \cup Gate) \ liveIds', d \in liveIds
      PROVE  d \in liveIds \cap pieces /\ pieces' \cap Track = pieces \cap Track
  <2>1. d = p /\ p \in pieces /\ pieces' = pieces \ {p}
    BY <1>2 DEF DeleteSelected
  <2>2. p \notin Track
    BY <1>2, <2>1, WorkbenchAssumption DEF Track
  <2> QED
    BY <1>2, <2>1, <2>2
<1>3. Edited(hw)
  BY <1>1, <1>2 DEF DeleteSelected, Quick, Edited, BenchInv, TypeOK, DepartedForgotten
<1> QED
  BY <1>3, ReconcileKeeps DEF DeleteSelected

(* DetachPiece takes it off the table only.                                *)
LEMMA DetachPieceKeeps ==
    ASSUME BenchInv, NEW p \in Piece, DetachPiece(p)
    PROVE  BenchInv'
<1>1. Edited(hw)
  BY DEF DetachPiece, Quick, Edited, BenchInv, TypeOK, DepartedForgotten
<1> QED
  BY <1>1, ReconcileKeeps DEF DetachPiece

(* HandleScanConfirm makes a device live, which says so once too often.    *)
LEMMA HandleScanConfirmKeeps ==
    ASSUME BenchInv, NEW d \in Device, HandleScanConfirm(d)
    PROVE  BenchInv'
<1> DEFINE q == Append(hw.events, Event(d, "registered"))
           h == [hw EXCEPT !.events = q]
<1>1. Event(d, "registered") \in Announcement /\ Event(d, "registered").device = d
  BY DEF Event, Announcement
<1>2. hw \in Hardware /\ hw.events \in Seq(Announcement)
  BY DEF BenchInv, TypeOK, Hardware
<1>3. q \in Seq(Announcement)
  BY <1>1, <1>2, EventAdded
<1>4. liveIds' = liveIds \cup {d} /\ UNCHANGED <<pieces, place, poweredOff>>
  BY DEF HandleScanConfirm
<1>5. ASSUME NEW x \in (Train \cup Gate) \ liveIds'
      PROVE  x \notin liveIds /\ Ends(q, x, Presence, {"disconnected"}, x \notin registered)
  <2>1. x \notin liveIds /\ x # d
    BY <1>4, <1>5
  <2>2. Ends(hw.events, x, Presence, {"disconnected"}, x \notin registered)
    BY <1>5, <2>1 DEF BenchInv, DepartedForgotten
  <2>3. {"disconnected"} \subseteq Presence
    BY DEF Presence
  <2> QED
    BY <1>1, <1>2, <2>1, <2>2, <2>3, EventAdded
<1> HIDE DEF q
<1>6. /\ h \in Hardware /\ h.events = q /\ h.lastLive = hw.lastLive
      /\ h.topology = hw.topology /\ h.lastPieces = hw.lastPieces
  BY <1>2, <1>3 DEF Hardware
<1>7. Reconcile(h) /\ edits < MaxEdits
  BY DEF HandleScanConfirm, Quick, q
<1> HIDE DEF h
<1>8. /\ pieces' \in SUBSET Piece /\ liveIds' \in SUBSET Device
      /\ poweredOff' \in SUBSET (liveIds' \cap Train) /\ place' \in [Train -> Rail]
  BY <1>4 DEF BenchInv, TypeOK
<1>9. Edited(h)
  BY <1>5, <1>6, <1>7, <1>8 DEF Edited
<1> QED
  BY <1>7, <1>9, ReconcileKeeps

(* TogglePower switches a train on or off.                                 *)
LEMMA TogglePowerKeeps ==
    ASSUME BenchInv, NEW t \in Train, TogglePower(t)
    PROVE  BenchInv'
<1>1. Edited(hw)
  BY DEF TogglePower, Quick, Edited, BenchInv, TypeOK, DepartedForgotten
<1> QED
  BY <1>1, ReconcileKeeps DEF TogglePower

-----------------------------------------------------------------------------
(* The other actions.                                                      *)

(* A command for a device at work, before and after another is queued.     *)
LEMMA CommandAdded ==
    ASSUME NEW q \in Seq(Commanded), NEW c \in Commanded, NEW d
    PROVE  /\ Append(q, c) \in Seq(Commanded)
           /\ Told(q, d) \/ c.device = d => Told(Append(q, c), d)
<1>1. /\ Len(q) \in Nat /\ DOMAIN q = 1..Len(q) /\ DOMAIN Append(q, c) = 1..Len(q) + 1
      /\ Append(q, c) \in Seq(Commanded) /\ Append(q, c)[Len(q) + 1] = c
      /\ \A i \in 1..Len(q) : i \in DOMAIN Append(q, c) /\ Append(q, c)[i] = q[i]
  BY AppendProperties
<1>2. Told(q, d) => Told(Append(q, c), d)
  BY <1>1 DEF Told
<1>3. ASSUME c.device = d
      PROVE  Told(Append(q, c), d)
  <2>1. Len(q) + 1 \in DOMAIN Append(q, c)
    BY <1>1
  <2> QED
    BY <1>1, <1>3, <2>1 DEF Told
<1> QED
  BY <1>1, <1>2, <1>3

(* A command is taken from the queue: it was for one device.               *)
LEMMA CommandTaken ==
    ASSUME NEW q \in Seq(Commanded), q # <<>>, NEW d
    PROVE  /\ Head(q) \in Commanded /\ Tail(q) \in Seq(Commanded)
           /\ Told(q, d) /\ Head(q).device # d => Told(Tail(q), d)
<1>1. /\ Len(q) \in Nat /\ Len(q) > 0 /\ DOMAIN q = 1..Len(q) /\ DOMAIN Tail(q) = 1..Len(q) - 1
      /\ Head(q) = q[1] /\ Head(q) \in Commanded /\ Tail(q) \in Seq(Commanded)
      /\ \A i \in 2..Len(q) : i - 1 \in 1..Len(q) - 1 /\ Tail(q)[i - 1] = q[i]
  BY HeadTailProperties
<1>2. ASSUME Told(q, d), Head(q).device # d
      PROVE  Told(Tail(q), d)
  <2>1. PICK i \in DOMAIN q : q[i].device = d
    BY <1>2 DEF Told
  <2>2. i \in 2..Len(q)
    BY <1>1, <1>2, <2>1
  <2>3. i - 1 \in DOMAIN Tail(q) /\ Tail(q)[i - 1].device = d
    BY <1>1, <2>1, <2>2
  <2> QED
    BY <2>3 DEF Told
<1> QED
  BY <1>1, <1>2

(* The same devices stay at work, and say nothing, or e, which is not about *)
(* their presence.                                                         *)
Works(e) ==
    /\ UNCHANGED <<tableVars, serverVars>>
    /\ edits' = edits \/ (edits < MaxEdits /\ edits' = edits + 1)
    /\ orders' = orders \/ (orders < MaxOrders /\ orders' = orders + 1)
    /\ hw' \in Hardware /\ hw'.devices = hw.devices
    /\ hw'.lastLive = hw.lastLive /\ hw'.topology = hw.topology /\ hw'.lastPieces = hw.lastPieces
    /\ {t \in Train : hw'.trains[t] # None} = {t \in Train : hw.trains[t] # None}
    /\ \/ hw'.events = hw.events
       \/ /\ e \in Announcement /\ e.type \notin Presence
          /\ hw'.events = Append(hw.events, e)

(* Then who is there is on record as before.                               *)
LEMMA WorkKeeps ==
    ASSUME BenchInv, NEW e, Works(e)
    PROVE  /\ TypeOK' /\ Reconciled' /\ AtWorkRegistered' /\ DepartedForgotten'
           /\ \A d, T, X, old :
                 X \subseteq T /\ (e.device = d => e.type \notin T) /\ Ends(hw.events, d, T, X, old)
                     => Ends(hw'.events, d, T, X, old)
<1>1. hw.events \in Seq(Announcement)
  BY DEF BenchInv, TypeOK, Hardware
<1>2. ASSUME NEW d, NEW T, NEW X, NEW old,
             X \subseteq T, e.device = d => e.type \notin T, Ends(hw.events, d, T, X, old)
      PROVE  Ends(hw'.events, d, T, X, old)
  <2>1. CASE hw'.events = hw.events
    BY <1>2, <2>1
  <2>2. CASE /\ e \in Announcement /\ e.type \notin Presence
             /\ hw'.events = Append(hw.events, e)
    BY <1>1, <1>2, <2>2, EventAdded
  <2> QED
    BY <2>1, <2>2 DEF Works
<1>3. ASSUME NEW d, NEW x \in Presence, NEW old, Ends(hw.events, d, Presence, {x}, old)
      PROVE  Ends(hw'.events, d, Presence, {x}, old)
  <2>1. CASE hw'.events = hw.events
    BY <1>3, <2>1
  <2>2. CASE e.type \notin Presence
    BY <1>2, <1>3, <2>2
  <2> QED
    BY <2>1, <2>2 DEF Works
<1>4. TypeOK'
  <2>1. edits' \in 0..MaxEdits /\ orders' \in 0..MaxOrders
    BY WorkbenchAssumption DEF BenchInv, TypeOK, Works
  <2> QED
    BY <2>1 DEF BenchInv, TypeOK, Works, tableVars, serverVars
<1>5. Reconciled'
  <2>1. edits' < MaxEdits => edits < MaxEdits
    BY WorkbenchAssumption DEF BenchInv, TypeOK, Works
  <2> QED
    BY <2>1 DEF BenchInv, Reconciled, Works, tableVars
<1>6. AtWorkRegistered'
  <2>1. "registered" \in Presence
    BY DEF Presence
  <2>2. \A d \in hw.devices : Ends(hw'.events, d, Presence, {"registered"}, d \in registered)
    BY <1>3, <2>1 DEF BenchInv, AtWorkRegistered
  <2> QED
    BY <2>2 DEF AtWorkRegistered, Works, serverVars
<1>7. DepartedForgotten'
  <2>1. "disconnected" \in Presence
    BY DEF Presence
  <2>2. \A d \in (Train \cup Gate) \ liveIds :
           Ends(hw'.events, d, Presence, {"disconnected"}, d \notin registered)
    BY <1>3, <2>1 DEF BenchInv, DepartedForgotten
  <2> QED
    BY <2>2 DEF DepartedForgotten, Works, serverVars, tableVars
<1> QED
  BY <1>2, <1>4, <1>5, <1>6, <1>7

(* Points stay as they were, and what they were told is still under way.   *)
PointsStay ==
    \A j \in Junction :
        /\ hw'.points[j] = hw.points[j] /\ hw'.switchPositions[j] = hw.switchPositions[j]
        /\ j \in hw.devices /\ Told(hw.commands, j) => Told(hw'.commands, j)

(* Then the points are set, and known, as before.                          *)
LEMMA PointsStayKnown ==
    ASSUME BenchInv, NEW e, Works(e), PointsStay, e.type \notin Position
    PROVE  PointsAreSet' /\ PointsKnown'
<1>1. hw'.devices = hw.devices /\ confirmed' = confirmed
  BY DEF Works, serverVars
<1>2. PointsAreSet'
  BY <1>1 DEF PointsAreSet, BenchInv, PointsStay, Told
<1>3. ASSUME NEW j \in Junction \cap hw.devices
      PROVE  \/ Told(hw'.commands, j)
             \/ hw'.points[j] = hw'.switchPositions[j]
             \/ Ends(hw'.events, j, Position, {hw'.points[j]}, confirmed[j] \in {None, hw'.points[j]})
  <2>1. \/ Told(hw.commands, j)
        \/ hw.points[j] = hw.switchPositions[j]
        \/ Ends(hw.events, j, Position, {hw.points[j]}, confirmed[j] \in {None, hw.points[j]})
    BY DEF BenchInv, PointsKnown, Told
  <2>2. CASE /\ hw.points[j] # hw.switchPositions[j]
             /\ Ends(hw.events, j, Position, {hw.points[j]}, confirmed[j] \in {None, hw.points[j]})
    <3>1. CASE hw.points[j] \in Position
      <4>1. {hw.points[j]} \subseteq Position
        BY <3>1
      <4>2. Ends(hw'.events, j, Position, {hw.points[j]}, confirmed[j] \in {None, hw.points[j]})
        BY <2>2, <4>1, WorkKeeps
      <4> QED
        BY <4>2 DEF PointsStay
    <3>2. CASE hw.points[j] \notin Position
      <4>1. hw.points[j] = None
        BY <3>2 DEF BenchInv, TypeOK, Hardware
      <4>2. Told(hw.commands, j)
        BY <4>1 DEF BenchInv, PointsAreSet, Told
      <4> QED
        BY <4>2 DEF PointsStay
    <3> QED
      BY <3>1, <3>2
  <2> QED
    BY <2>1, <2>2 DEF PointsStay
<1>4. PointsKnown'
  BY <1>1, <1>3 DEF PointsKnown, Told
<1> QED
  BY <1>2, <1>4

(* Gates stay as they are, and say nothing.                                *)
LEMMA GatesStayKnown ==
    ASSUME BenchInv, NEW e, Works(e), hw'.holding = hw.holding, e.type \notin Standing
    PROVE  GatesKnown'
<1>1. {"withholding"} \subseteq Standing /\ Granting \subseteq Standing
  BY DEF Standing
<1>2. /\ hw.holding \subseteq hw.devices
      /\ \A d \in Gated \cap hw.devices :
            /\ d \in hw.holding => Ends(hw.events, d, Standing, {"withholding"}, d \in withheld)
            /\ d \notin hw.holding => Ends(hw.events, d, Standing, Granting, d \notin withheld)
  BY DEF BenchInv, GatesKnown
<1>3. \A d \in Gated \cap hw.devices :
            /\ d \in hw.holding => Ends(hw'.events, d, Standing, {"withholding"}, d \in withheld)
            /\ d \notin hw.holding => Ends(hw'.events, d, Standing, Granting, d \notin withheld)
  BY <1>1, <1>2, WorkKeeps
<1>4. hw'.devices = hw.devices /\ withheld' = withheld
  BY DEF Works, serverVars
<1> QED
  BY <1>2, <1>3, <1>4 DEF GatesKnown

(* A gate withholds from now on, or not, and says so if it makes a         *)
(* difference.                                                             *)
Turned(h, k, g, on) ==
    /\ k \in Hardware
    /\ k.holding = IF on THEN h.holding \cup {g} ELSE h.holding \ {g}
    /\ k.events = IF (g \in h.holding) = on THEN h.events
                  ELSE Append(h.events, Event(g, IF on THEN "withholding" ELSE "granting"))
    /\ k.devices = h.devices /\ k.points = h.points /\ k.switchPositions = h.switchPositions
    /\ k.trains = h.trains /\ k.commands = h.commands
    /\ k.topology = h.topology /\ k.lastLive = h.lastLive /\ k.lastPieces = h.lastPieces

(* So do Hold and Release.                                                 *)
LEMMA GateIsTurned ==
    ASSUME NEW h \in Hardware, NEW g \in Gated
    PROVE  Turned(h, Hold(h, g), g, TRUE) /\ Turned(h, Release(h, g), g, FALSE)
<1>1. Event(g, "withholding") \in Announcement /\ Event(g, "granting") \in Announcement
  BY DEF Event, Announcement
<1>2. /\ Append(h.events, Event(g, "withholding")) \in Seq(Announcement)
      /\ Append(h.events, Event(g, "granting")) \in Seq(Announcement)
  BY <1>1, AppendProperties DEF Hardware
<1>3. Turned(h, Hold(h, g), g, TRUE)
  <2>1. CASE g \in h.holding
    <3>1. h.holding \cup {g} = h.holding
      BY <2>1
    <3> QED
      BY <2>1, <3>1 DEF Turned, Hold
  <2>2. CASE g \notin h.holding
    <3> DEFINE q == Append(h.events, Event(g, "withholding"))
               k == [h EXCEPT !.holding = h.holding \cup {g}, !.events = q]
    <3>1. k = Hold(h, g)
      BY <2>2 DEF Hold
    <3> HIDE DEF q
    <3>2. k \in Hardware
      BY <1>2 DEF Hardware, q
    <3>3. /\ k.holding = h.holding \cup {g} /\ k.events = q
          /\ k.devices = h.devices /\ k.points = h.points /\ k.switchPositions = h.switchPositions
          /\ k.trains = h.trains /\ k.commands = h.commands
          /\ k.topology = h.topology /\ k.lastLive = h.lastLive /\ k.lastPieces = h.lastPieces
      BY DEF Hardware
    <3> HIDE DEF k
    <3> QED
      BY <2>2, <3>1, <3>2, <3>3 DEF Turned, q
  <2> QED
    BY <2>1, <2>2
<1>4. Turned(h, Release(h, g), g, FALSE)
  <2>1. CASE g \notin h.holding
    <3>1. h.holding \ {g} = h.holding
      BY <2>1
    <3> QED
      BY <2>1, <3>1 DEF Turned, Release
  <2>2. CASE g \in h.holding
    <3> DEFINE q == Append(h.events, Event(g, "granting"))
               k == [h EXCEPT !.holding = h.holding \ {g}, !.events = q]
    <3>1. k = Release(h, g)
      BY <2>2 DEF Release
    <3> HIDE DEF q
    <3>2. k \in Hardware
      BY <1>2 DEF Hardware, q
    <3>3. /\ k.holding = h.holding \ {g} /\ k.events = q
          /\ k.devices = h.devices /\ k.points = h.points /\ k.switchPositions = h.switchPositions
          /\ k.trains = h.trains /\ k.commands = h.commands
          /\ k.topology = h.topology /\ k.lastLive = h.lastLive /\ k.lastPieces = h.lastPieces
      BY DEF Hardware
    <3> HIDE DEF k
    <3> QED
      BY <2>2, <3>1, <3>2, <3>3 DEF Turned, q
  <2> QED
    BY <2>1, <2>2
<1> QED
  BY <1>3, <1>4

(* What is on record of gates follows the gate that is turned.             *)
LEMMA TurningKeeps ==
    ASSUME BenchInv, NEW h \in Hardware, h.holding = hw.holding, h.events = hw.events,
           NEW g \in Gated \cap hw.devices, NEW on \in BOOLEAN, Turned(h, hw', g, on),
           Works(Event(g, IF on THEN "withholding" ELSE "granting")), PointsStay
    PROVE  BenchInv'
<1> DEFINE e == Event(g, IF on THEN "withholding" ELSE "granting")
<1>1. e \in Announcement /\ e.device = g /\ e.type = IF on THEN "withholding" ELSE "granting"
  BY DEF Event, Announcement
<1>2. e.type \notin Position
  BY <1>1 DEF Position, Rest
<1> HIDE DEF e
<1>3. Works(e)
  BY DEF e
<1>4. PointsAreSet' /\ PointsKnown' /\ TypeOK' /\ Reconciled' /\ AtWorkRegistered' /\ DepartedForgotten'
  BY <1>2, <1>3, PointsStayKnown, WorkKeeps
<1>5. {"withholding"} \subseteq Standing /\ Granting \subseteq Standing /\ "granting" \in Granting
  BY DEF Standing, Granting
<1>6. /\ hw.holding \subseteq hw.devices
      /\ \A d \in Gated \cap hw.devices :
            /\ d \in hw.holding => Ends(hw.events, d, Standing, {"withholding"}, d \in withheld)
            /\ d \notin hw.holding => Ends(hw.events, d, Standing, Granting, d \notin withheld)
  BY DEF BenchInv, GatesKnown
<1>7. \A d \in Gated \cap hw.devices : d # g =>
            /\ d \in hw.holding => Ends(hw'.events, d, Standing, {"withholding"}, d \in withheld)
            /\ d \notin hw.holding => Ends(hw'.events, d, Standing, Granting, d \notin withheld)
  BY <1>1, <1>3, <1>5, <1>6, WorkKeeps
<1>8. hw.events \in Seq(Announcement)
  BY DEF BenchInv, TypeOK, Hardware
<1>9. /\ on => g \in hw'.holding /\ Ends(hw'.events, g, Standing, {"withholding"}, g \in withheld)
      /\ ~on => g \notin hw'.holding /\ Ends(hw'.events, g, Standing, Granting, g \notin withheld)
  <2>1. /\ hw'.holding = IF on THEN hw.holding \cup {g} ELSE hw.holding \ {g}
        /\ hw'.events = IF (g \in hw.holding) = on THEN hw.events ELSE Append(hw.events, e)
    BY DEF Turned, e
  <2>2. CASE (g \in hw.holding) = on
    BY <1>6, <2>1, <2>2
  <2>3. CASE ~((g \in hw.holding) = on)
    <3>1. hw'.events = Append(hw.events, e)
      BY <2>1, <2>3
    <3>2. /\ on => Ends(hw'.events, g, Standing, {"withholding"}, g \in withheld)
          /\ ~on => Ends(hw'.events, g, Standing, Granting, g \notin withheld)
      BY <1>1, <1>5, <1>8, <3>1, EventAdded
    <3> QED
      BY <2>1, <3>2
  <2> QED
    BY <2>2, <2>3
<1>10. /\ \A d : d # g => (d \in hw'.holding <=> d \in hw.holding)
       /\ hw'.holding \subseteq hw.devices
  BY <1>6 DEF Turned
<1>11. hw'.devices = hw.devices /\ withheld' = withheld
  BY <1>3 DEF Works, serverVars
<1>12. \A d \in Gated \cap hw.devices :
            /\ d \in hw'.holding => Ends(hw'.events, d, Standing, {"withholding"}, d \in withheld)
            /\ d \notin hw'.holding => Ends(hw'.events, d, Standing, Granting, d \notin withheld)
  BY <1>7, <1>9, <1>10
<1>13. GatesKnown'
  BY <1>10, <1>11, <1>12 DEF GatesKnown
<1> QED
  BY <1>4, <1>13 DEF BenchInv

(* ToggleBridgeSpan turns a lift bridge.                                   *)
LEMMA ToggleBridgeSpanKeeps ==
    ASSUME BenchInv, NEW g \in Span, ToggleBridgeSpan(g)
    PROVE  BenchInv'
<1> DEFINE on == g \notin hw.gateWithholds
           k == IF on THEN Hold(hw, g) ELSE Release(hw, g)
           w == IF on THEN hw.gateWithholds \cup {g} ELSE hw.gateWithholds \ {g}
<1>1. g \in Gated \cap hw.devices /\ hw \in Hardware /\ on \in BOOLEAN
  BY DEF ToggleBridgeSpan, Gated, BenchInv, TypeOK
<1>2. hw' = [k EXCEPT !.gateWithholds = w]
  <2>1. k.gateWithholds = hw.gateWithholds
    BY <1>1 DEF Hold, Release, Hardware
  <2> QED
    BY <2>1 DEF ToggleBridgeSpan
<1>3. w \in SUBSET Gated
  BY <1>1 DEF Hardware
<1>4. Turned(hw, k, g, on)
  BY <1>1, GateIsTurned
<1> HIDE DEF k, w, on
<1>5. k \in Hardware
  BY <1>4 DEF Turned
<1>6. /\ hw' \in Hardware
      /\ hw'.holding = k.holding /\ hw'.events = k.events
      /\ hw'.devices = k.devices /\ hw'.points = k.points /\ hw'.switchPositions = k.switchPositions
      /\ hw'.trains = k.trains /\ hw'.commands = k.commands
      /\ hw'.topology = k.topology /\ hw'.lastLive = k.lastLive /\ hw'.lastPieces = k.lastPieces
  BY <1>2, <1>3, <1>5 DEF Hardware
<1>7. Turned(hw, hw', g, on)
  BY <1>4, <1>6 DEF Turned
<1> DEFINE e == Event(g, IF on THEN "withholding" ELSE "granting")
<1>8. e \in Announcement /\ e.type \notin Presence
  BY <1>1 DEF Event, Announcement, Presence
<1>9. UNCHANGED <<tableVars, serverVars, orders>> /\ edits < MaxEdits /\ edits' = edits + 1
  BY DEF ToggleBridgeSpan, Quick
<1> HIDE DEF e
<1>10. Works(e)
  BY <1>7, <1>8, <1>9 DEF Works, Turned, e
<1>11. PointsStay
  BY <1>7 DEF PointsStay, Turned
<1> QED
  BY <1>1, <1>7, <1>10, <1>11, TurningKeeps DEF e

(* SetSwitch tells points where to lie.                                    *)
LEMMA SetSwitchKeeps ==
    ASSUME BenchInv, NEW j \in Junction, NEW position \in Position, SetSwitch(j, position)
    PROVE  BenchInv'
<1> DEFINE c == Command(j, position)
           q == Append(hw.commands, c)
           wanted == [hw.switchPositions EXCEPT ![j] = position]
<1>1. hw \in Hardware /\ hw.commands \in Seq(Commanded)
  BY DEF BenchInv, TypeOK, Hardware
<1>2. c \in Commanded /\ c.device = j
  BY DEF Command, Commanded
<1>3. hw' = [hw EXCEPT !.switchPositions = wanted, !.commands = q]
  BY DEF SetSwitch
<1>4. /\ wanted \in [Junction -> Position \cup {None}]
      /\ \A i \in Junction : i # j => wanted[i] = hw.switchPositions[i]
  BY <1>1 DEF Hardware
<1> HIDE DEF c, wanted
<1>5. q \in Seq(Commanded) /\ Told(q, j) /\ \A d : Told(hw.commands, d) => Told(q, d)
  BY <1>1, <1>2, CommandAdded
<1> HIDE DEF q
<1>6. /\ hw' \in Hardware /\ hw'.switchPositions = wanted /\ hw'.commands = q
      /\ hw'.holding = hw.holding /\ hw'.events = hw.events
      /\ hw'.devices = hw.devices /\ hw'.points = hw.points /\ hw'.trains = hw.trains
      /\ hw'.topology = hw.topology /\ hw'.lastLive = hw.lastLive /\ hw'.lastPieces = hw.lastPieces
  BY <1>1, <1>3, <1>4, <1>5 DEF Hardware
<1>7. /\ UNCHANGED <<tableVars, serverVars, orders>> /\ edits < MaxEdits /\ edits' = edits + 1
  BY DEF SetSwitch, Quick
<1> DEFINE e == Event(j, "none")
<1>8. e.device = j /\ e.type = "none"
  BY DEF Event
<1> HIDE DEF e
<1>9. Works(e)
  BY <1>6, <1>7 DEF Works
<1>10. e.type \notin Standing
  BY <1>8 DEF Standing, Granting, Presence
<1>11. TypeOK' /\ Reconciled' /\ AtWorkRegistered' /\ DepartedForgotten' /\ GatesKnown'
  BY <1>6, <1>9, <1>10, WorkKeeps, GatesStayKnown
<1>12. PointsAreSet'
  <2>1. \A i \in Junction \cap hw.devices : hw.points[i] = None => Told(q, i)
    BY <1>5 DEF BenchInv, PointsAreSet, Told
  <2> QED
    BY <1>6, <2>1 DEF PointsAreSet, Told
<1>13. PointsKnown'
  <2>1. \A i \in Junction \cap hw.devices :
           \/ Told(q, i)
           \/ hw.points[i] = wanted[i]
           \/ Ends(hw.events, i, Position, {hw.points[i]}, confirmed[i] \in {None, hw.points[i]})
    BY <1>4, <1>5 DEF BenchInv, PointsKnown, Told
  <2>2. confirmed' = confirmed
    BY <1>7 DEF serverVars
  <2> QED
    BY <1>6, <2>1, <2>2 DEF PointsKnown, Told
<1> QED
  BY <1>11, <1>12, <1>13 DEF BenchInv

(* Order commands a device from the server.                                *)
LEMMA OrderKeeps ==
    ASSUME BenchInv, NEW d \in Device, NEW order \in OrdersFor(d), Order(d, order)
    PROVE  BenchInv'
<1> DEFINE c == Command(d, order)
           q == Append(hw.commands, c)
<1>1. hw \in Hardware /\ hw.commands \in Seq(Commanded)
  BY DEF BenchInv, TypeOK, Hardware
<1>2. c \in Commanded
  BY DEF Command, Commanded, OrdersFor, Device
<1>3. hw' = [hw EXCEPT !.commands = q]
  BY DEF Order
<1> HIDE DEF c
<1>4. q \in Seq(Commanded) /\ \A x : Told(hw.commands, x) => Told(q, x)
  BY <1>1, <1>2, CommandAdded
<1> HIDE DEF q
<1>5. /\ hw' \in Hardware /\ hw'.switchPositions = hw.switchPositions /\ hw'.commands = q
      /\ hw'.holding = hw.holding /\ hw'.events = hw.events
      /\ hw'.devices = hw.devices /\ hw'.points = hw.points /\ hw'.trains = hw.trains
      /\ hw'.topology = hw.topology /\ hw'.lastLive = hw.lastLive /\ hw'.lastPieces = hw.lastPieces
  BY <1>1, <1>3, <1>4 DEF Hardware
<1>6. UNCHANGED <<tableVars, serverVars, edits>> /\ orders < MaxOrders /\ orders' = orders + 1
  BY DEF Order
<1> DEFINE e == Event(d, "none")
<1>7. e.type = "none"
  BY DEF Event
<1> HIDE DEF e
<1>8. Works(e)
  BY <1>5, <1>6 DEF Works
<1>9. e.type \notin Standing /\ e.type \notin Position
  BY <1>7 DEF Standing, Granting, Presence, Position, Rest
<1>10. PointsStay
  BY <1>4, <1>5 DEF PointsStay
<1> QED
  BY <1>5, <1>8, <1>9, <1>10, WorkKeeps, GatesStayKnown, PointsStayKnown DEF BenchInv

(* Tick moves a train.                                                     *)
LEMMA TickKeeps ==
    ASSUME BenchInv, NEW t \in Train, NEW r \in Rail, Tick(t, r)
    PROVE  BenchInv'
<1> DEFINE trains == [hw.trains EXCEPT ![t].pose = r]
<1>1. hw \in Hardware /\ hw.trains \in [Train -> Bench \cup {None}] /\ hw.trains[t] \in Bench
  BY DEF BenchInv, TypeOK, Hardware, Tick
<1>2. [hw.trains[t] EXCEPT !.pose = r] \in Bench
  BY <1>1 DEF Bench
<1>3. None \notin Bench
  BY WorkbenchAssumption
<1>4. /\ trains \in [Train -> Bench \cup {None}]
      /\ {x \in Train : trains[x] # None} = {x \in Train : hw.trains[x] # None}
  <2>1. trains = [hw.trains EXCEPT ![t] = [hw.trains[t] EXCEPT !.pose = r]]
    OBVIOUS
  <2> QED
    BY <1>1, <1>2, <1>3, <2>1
<1>5. hw' = [hw EXCEPT !.trains = trains]
  BY DEF Tick
<1> HIDE DEF trains
<1>6. /\ hw' \in Hardware /\ hw'.switchPositions = hw.switchPositions
      /\ hw'.commands = hw.commands /\ hw'.holding = hw.holding /\ hw'.events = hw.events
      /\ hw'.devices = hw.devices /\ hw'.points = hw.points /\ hw'.trains = trains
      /\ hw'.topology = hw.topology /\ hw'.lastLive = hw.lastLive /\ hw'.lastPieces = hw.lastPieces
  BY <1>1, <1>4, <1>5 DEF Hardware
<1>7. UNCHANGED <<tableVars, serverVars, edits, orders>>
  BY DEF Tick
<1> DEFINE e == Event(t, "none")
<1>8. e.type = "none"
  BY DEF Event
<1> HIDE DEF e
<1>9. Works(e)
  BY <1>4, <1>6, <1>7 DEF Works
<1>10. e.type \notin Standing /\ e.type \notin Position
  BY <1>8 DEF Standing, Granting, Presence, Position, Rest
<1>11. PointsStay
  BY <1>6 DEF PointsStay
<1> QED
  BY <1>6, <1>9, <1>10, <1>11, WorkKeeps, GatesStayKnown, PointsStayKnown DEF BenchInv

(* Obey: a device that is still at work does what it is told first.        *)
LEMMA ObeyKeeps ==
    ASSUME BenchInv, Obey
    PROVE  BenchInv'
<1> DEFINE c == Head(hw.commands)
           d == c.device
           order == c.order
           q == Tail(hw.commands)
           h == [hw EXCEPT !.commands = q]
<1>1. hw \in Hardware /\ hw.commands \in Seq(Commanded) /\ hw.commands # <<>>
  BY DEF BenchInv, TypeOK, Hardware, Obey
<1>2. c \in Commanded /\ q \in Seq(Commanded) /\ \A x : Told(hw.commands, x) /\ d # x => Told(q, x)
  BY <1>1, CommandTaken
<1>3. hw' = Obeyed(h, d, order)
  BY DEF Obey
<1>4. UNCHANGED <<tableVars, serverVars, edits, orders>>
  BY DEF Obey
<1> HIDE DEF c, q
<1>5. \/ d \in Junction /\ order \in Position
      \/ d \in Gated /\ order \in {"hold", "release"}
      \/ d \in Train /\ order \in {"go", "halt"}
  BY <1>2 DEF Commanded
<1>6. order \in {"hold", "release", "go", "halt"} => order \notin Position
  BY DEF Position, Rest
<1>7. d \notin Junction => order \notin Position
  BY <1>5, <1>6
<1>8. Junction \cap Gated = {} /\ Junction \cap Train = {} /\ Train \cap Gated = {}
  BY WorkbenchAssumption DEF Gated
<1>9. /\ h \in Hardware /\ h.switchPositions = hw.switchPositions /\ h.commands = q
      /\ h.holding = hw.holding /\ h.events = hw.events
      /\ h.devices = hw.devices /\ h.points = hw.points /\ h.trains = hw.trains
      /\ h.topology = hw.topology /\ h.lastLive = hw.lastLive /\ h.lastPieces = hw.lastPieces
  BY <1>1, <1>2 DEF Hardware
<1> HIDE DEF h
<1>10. d \notin Junction \cap hw.devices =>
          \A j \in Junction : j \in hw.devices /\ Told(hw.commands, j) => Told(q, j)
  BY <1>2
<1> DEFINE silence == Event(d, "none")
<1>11. silence.type = "none"
  BY DEF Event
<1> HIDE DEF silence, d, order
<1>12. silence.type \notin Standing /\ silence.type \notin Position
  BY <1>11 DEF Standing, Granting, Presence, Position, Rest
<1>13. CASE d \notin hw.devices
  <2>1. hw' = h
    BY <1>3, <1>9, <1>13 DEF Obeyed
  <2>2. Works(silence) /\ PointsStay
    BY <1>4, <1>9, <1>10, <1>13, <2>1 DEF Works, PointsStay
  <2> QED
    BY <1>9, <1>12, <2>1, <2>2, WorkKeeps, GatesStayKnown, PointsStayKnown DEF BenchInv
<1>14. CASE d \in Gated \cap hw.devices
  <2>1. d \in Gated /\ order \in {"hold", "release"} /\ order \notin Position
    BY <1>5, <1>6, <1>8, <1>14
  <2> DEFINE on == order = "hold"
             e == Event(d, IF on THEN "withholding" ELSE "granting")
  <2>2. hw' = IF on THEN Hold(h, d) ELSE Release(h, d)
    BY <1>3, <1>9, <1>14, <2>1 DEF Obeyed
  <2>3. Turned(h, hw', d, on) /\ on \in BOOLEAN
    BY <1>9, <2>1, <2>2, GateIsTurned
  <2>4. e \in Announcement /\ e.type \notin Presence
    BY <2>1 DEF Event, Announcement, Presence
  <2> HIDE DEF on
  <2>5. Works(e)
    BY <1>4, <1>9, <2>3, <2>4 DEF Works, Turned
  <2>6. PointsStay
    BY <1>8, <1>9, <1>10, <1>14, <2>3 DEF PointsStay, Turned
  <2> QED
    BY <1>9, <1>14, <2>3, <2>5, <2>6, TurningKeeps
<1>15. CASE d \in Train \cap hw.devices
  <2>1. order \in {"go", "halt"} /\ order \notin Position /\ order # "hold" /\ order # "release"
    BY <1>5, <1>6, <1>8, <1>15
  <2> DEFINE trains == [hw.trains EXCEPT ![d] = Driven(hw.trains[d], order)]
  <2>2. hw' = [h EXCEPT !.trains = trains]
    BY <1>3, <1>9, <1>15, <2>1 DEF Obeyed
  <2>3. hw.trains \in [Train -> Bench \cup {None}] /\ hw.trains[d] \in Bench /\ None \notin Bench
    BY <1>1, <1>15, WorkbenchAssumption DEF BenchInv, TypeOK, Hardware
  <2>4. Driven(hw.trains[d], order) \in Bench
    BY <2>3 DEF Driven, Bench
  <2>5. /\ trains \in [Train -> Bench \cup {None}]
        /\ {x \in Train : trains[x] # None} = {x \in Train : hw.trains[x] # None}
    BY <2>3, <2>4
  <2> HIDE DEF trains
  <2>6. /\ hw' \in Hardware /\ hw'.switchPositions = h.switchPositions /\ hw'.commands = h.commands
        /\ hw'.holding = h.holding /\ hw'.events = h.events
        /\ hw'.devices = h.devices /\ hw'.points = h.points /\ hw'.trains = trains
        /\ hw'.topology = h.topology /\ hw'.lastLive = h.lastLive /\ hw'.lastPieces = h.lastPieces
    BY <1>9, <2>2, <2>5 DEF Hardware
  <2>7. Works(silence)
    BY <1>4, <1>9, <2>5, <2>6 DEF Works
  <2>8. PointsStay
    BY <1>8, <1>9, <1>10, <1>15, <2>6 DEF PointsStay
  <2> QED
    BY <1>9, <1>12, <2>6, <2>7, <2>8, WorkKeeps, GatesStayKnown, PointsStayKnown DEF BenchInv
<1>16. CASE d \in Junction \cap hw.devices
  <2>1. order \in Position
    BY <1>5, <1>8, <1>16
  <2> DEFINE points == [hw.points EXCEPT ![d] = order]
             e == Event(d, order)
             said == Append(hw.events, e)
  <2>2. hw' = [h EXCEPT !.points = points, !.events = said]
    BY <1>3, <1>6, <1>9, <1>16, <2>1 DEF Obeyed
  <2>3. e \in Announcement /\ e.device = d /\ e.type = order
    BY <1>16, <2>1 DEF Event, Announcement
  <2>4. hw.events \in Seq(Announcement)
    BY <1>1 DEF Hardware
  <2>5. said \in Seq(Announcement)
    BY <2>3, <2>4, EventAdded
  <2>6. /\ points \in [Junction -> Position \cup {None}] /\ points[d] = order
        /\ \A j \in Junction : j # d => points[j] = hw.points[j]
    BY <1>1, <1>16, <2>1 DEF Hardware
  <2> HIDE DEF points, e, said
  <2>7. /\ hw' \in Hardware /\ hw'.switchPositions = h.switchPositions /\ hw'.commands = h.commands
        /\ hw'.holding = h.holding /\ hw'.events = said
        /\ hw'.devices = h.devices /\ hw'.points = points /\ hw'.trains = h.trains
        /\ hw'.topology = h.topology /\ hw'.lastLive = h.lastLive /\ hw'.lastPieces = h.lastPieces
    BY <1>9, <2>2, <2>5, <2>6 DEF Hardware
  <2>8. e.type \notin Presence /\ e.type \notin Standing /\ e.type # None
    BY <2>1, <2>3, WorkbenchAssumption DEF Presence, Standing, Granting, Position, Rest
  <2>9. Works(e)
    BY <1>4, <1>9, <2>3, <2>7, <2>8 DEF Works, said
  <2>10. TypeOK' /\ Reconciled' /\ AtWorkRegistered' /\ DepartedForgotten' /\ GatesKnown'
    BY <1>9, <2>7, <2>8, <2>9, WorkKeeps, GatesStayKnown
  <2>11. \A j \in Junction \cap hw.devices : j # d /\ Told(hw.commands, j) => Told(hw'.commands, j)
    BY <1>2, <1>9, <2>7 DEF d
  <2>12. PointsAreSet'
    <3>1. \A j \in Junction \cap hw.devices : hw.points[j] = None => Told(hw.commands, j)
      BY DEF BenchInv, PointsAreSet, Told
    <3>2. \A j \in Junction \cap hw.devices : hw'.points[j] = None => Told(hw'.commands, j)
      BY <2>3, <2>6, <2>7, <2>8, <2>11, <3>1
    <3> QED
      BY <1>9, <2>7, <3>2 DEF PointsAreSet, Told
  <2>13. Ends(hw'.events, d, Position, {hw'.points[d]}, confirmed[d] \in {None, hw'.points[d]})
    <3>1. {order} \subseteq Position
      BY <2>1
    <3> QED
      BY <2>3, <2>4, <2>6, <2>7, <3>1, EventAdded DEF said
  <2>14. ASSUME NEW j \in Junction \cap hw.devices, j # d
         PROVE  \/ Told(hw'.commands, j)
                \/ hw'.points[j] = hw'.switchPositions[j]
                \/ Ends(hw'.events, j, Position, {hw'.points[j]}, confirmed[j] \in {None, hw'.points[j]})
    <3>1. \/ Told(hw.commands, j)
          \/ hw.points[j] = hw.switchPositions[j]
          \/ Ends(hw.events, j, Position, {hw.points[j]}, confirmed[j] \in {None, hw.points[j]})
      BY DEF BenchInv, PointsKnown, Told
    <3>2. hw'.points[j] = hw.points[j] /\ hw'.switchPositions[j] = hw.switchPositions[j]
      BY <1>9, <2>6, <2>7, <2>14
    <3>3. CASE hw.points[j] \in Position
      <4>1. {hw.points[j]} \subseteq Position /\ e.device # j
        BY <2>3, <2>14, <3>3
      <4>2. Ends(hw.events, j, Position, {hw.points[j]}, confirmed[j] \in {None, hw.points[j]})
              => Ends(hw'.events, j, Position, {hw.points[j]}, confirmed[j] \in {None, hw.points[j]})
        BY <2>9, <4>1, WorkKeeps
      <4> QED
        BY <2>11, <2>14, <3>1, <3>2, <4>2
    <3>4. CASE hw.points[j] \notin Position
      <4>1. hw.points[j] = None
        BY <1>1, <3>4 DEF Hardware
      <4>2. Told(hw.commands, j)
        BY <4>1 DEF BenchInv, PointsAreSet, Told
      <4> QED
        BY <2>11, <2>14, <4>2
    <3> QED
      BY <3>3, <3>4
  <2>15. PointsKnown'
    <3>1. hw'.devices = hw.devices /\ confirmed' = confirmed
      BY <1>4, <1>9, <2>7 DEF serverVars
    <3> QED
      BY <2>13, <2>14, <3>1 DEF PointsKnown, Told
  <2> QED
    BY <2>10, <2>12, <2>15 DEF BenchInv
<1> QED
  BY <1>5, <1>13, <1>14, <1>15, <1>16

(* PageHide takes everything off the table, and says goodbye.              *)
LEMMA PageHideKeeps ==
    ASSUME BenchInv, PageHide
    PROVE  BenchInv'
<1> DEFINE gone == liveIds \cap pieces \cap (Train \cup Gate)
           q == hw.events \o All(gone, "disconnected")
<1>1. hw \in Hardware /\ hw.events \in Seq(Announcement)
  BY DEF BenchInv, TypeOK, Hardware
<1>2. gone \in SUBSET Device /\ \A d \in gone : Event(d, "disconnected") \in Announcement
  BY DEF Device, Gated, Event, Announcement
<1>3. /\ pieces' = {} /\ liveIds' = liveIds \ pieces /\ poweredOff' = poweredOff \ pieces
      /\ edits' = MaxEdits /\ UNCHANGED <<place, serverVars, orders>>
      /\ hw' = [hw EXCEPT !.devices = {}, !.trains = NoTrains, !.holding = {}, !.points = NoPoints,
                          !.events = q]
  BY DEF PageHide, All
<1>4. {"disconnected"} \subseteq Presence /\ "disconnected" \in Presence
  BY DEF Presence
<1> HIDE DEF gone
<1>5. q \in Seq(Announcement)
  BY <1>1, <1>2, <1>4, AllAnnounce, QueuesJoined
<1>6. \A d \in (Train \cup Gate) \ liveIds' :
         Ends(q, d, Presence, {"disconnected"}, d \notin registered)
  <2> TAKE d \in (Train \cup Gate) \ liveIds'
  <2>1. /\ All(gone, "disconnected") \in Seq(Announcement)
        /\ d \in gone => \A x : Ends(All(gone, "disconnected"), d, Presence, {"disconnected"}, x)
        /\ d \notin gone => Mute(All(gone, "disconnected"), d, Presence)
    BY <1>2, <1>4, AllAnnounce
  <2>2. CASE d \in gone
    BY <1>1, <1>4, <2>1, <2>2, QueuesJoined
  <2>3. CASE d \notin gone
    <3>1. d \notin liveIds
      BY <1>3, <2>3 DEF gone
    <3>2. Ends(hw.events, d, Presence, {"disconnected"}, d \notin registered)
      BY <3>1 DEF BenchInv, DepartedForgotten
    <3> QED
      BY <1>1, <1>4, <2>1, <2>3, <3>2, QueuesJoined
  <2> QED
    BY <2>2, <2>3
<1> HIDE DEF q
<1>7. /\ hw' \in Hardware /\ hw'.devices = {} /\ hw'.trains = NoTrains /\ hw'.holding = {}
      /\ hw'.events = q
  BY <1>1, <1>3, <1>5 DEF Hardware, NoTrains, NoPoints
<1>8. TypeOK'
  <2>1. {t \in Train : NoTrains[t] # None} = {}
    BY DEF NoTrains
  <2>2. edits' \in 0..MaxEdits
    BY <1>3, WorkbenchAssumption
  <2> QED
    BY <1>3, <1>7, <2>1, <2>2 DEF BenchInv, TypeOK, serverVars
<1>9. Reconciled'
  BY <1>3, WorkbenchAssumption DEF Reconciled
<1>10. DepartedForgotten'
  BY <1>3, <1>6, <1>7 DEF DepartedForgotten, serverVars
<1>11. AtWorkRegistered' /\ GatesKnown' /\ PointsAreSet' /\ PointsKnown'
  BY <1>7 DEF AtWorkRegistered, GatesKnown, PointsAreSet, PointsKnown
<1> QED
  BY <1>8, <1>9, <1>10, <1>11 DEF BenchInv

(* Receive: the server reads the first event.  A gate that withholds is    *)
(* registered when it says so, or registers once more and says so again.   *)
LEMMA ReceiveKeeps ==
    ASSUME BenchInv, Receive
    PROVE  BenchInv'
<1> DEFINE e == Head(hw.events)
           q == Tail(hw.events)
<1>1. hw \in Hardware /\ hw.events \in Seq(Announcement) /\ hw.events # <<>>
  BY DEF BenchInv, TypeOK, Hardware, Receive
<1>2. q \in Seq(Announcement) /\ e \in Announcement
  BY <1>1, HeadTailProperties
<1>3. /\ registered' = CASE e.type = "registered"   -> registered \cup {e.device}
                         [] e.type = "disconnected" -> registered \ {e.device}
                         [] OTHER                   -> registered
      /\ withheld' = Withheld(e)
      /\ IF e.type \in Position
         THEN \/ confirmed' = [confirmed EXCEPT ![e.device] = e.type]
              \/ confirmed[e.device] = None /\ confirmed' = confirmed
         ELSE confirmed' = confirmed
      /\ hw' = [hw EXCEPT !.events = q]
      /\ UNCHANGED <<tableVars, edits, orders>>
  BY DEF Receive, SwitchStateChanged
<1>4. ASSUME NEW d, NEW T, NEW X, X \subseteq T, NEW old, Ends(hw.events, d, T, X, old)
      PROVE  /\ e.device # d \/ e.type \notin T => Ends(q, d, T, X, old)
             /\ e.device = d /\ e.type \in T => Ends(q, d, T, X, e.type \in X)
  BY <1>1, <1>4, EventReceived
<1> HIDE DEF e, q
<1>5. /\ hw' \in Hardware /\ hw'.events = q /\ hw'.devices = hw.devices /\ hw'.points = hw.points
      /\ hw'.switchPositions = hw.switchPositions /\ hw'.holding = hw.holding
      /\ hw'.commands = hw.commands /\ hw'.trains = hw.trains /\ hw'.topology = hw.topology
      /\ hw'.lastLive = hw.lastLive /\ hw'.lastPieces = hw.lastPieces
  BY <1>1, <1>2, <1>3 DEF Hardware
<1>6. /\ e.device \in Device
      /\ e.type \in Position => e.device \in Junction
      /\ e.type = "withholding" => e.device \in Gated
      /\ e.type \in Standing <=> e.type \notin Position
  BY <1>2 DEF Announcement, Standing, Granting, Presence, Position, Rest, Device
<1>7. /\ "registered" \in Presence /\ "disconnected" \in Presence /\ "withholding" \notin Presence
      /\ {"registered"} \subseteq Presence /\ {"disconnected"} \subseteq Presence
      /\ {"withholding"} \subseteq Standing /\ Granting \subseteq Standing
      /\ "registered" \in Standing /\ "withholding" \in Standing
      /\ "withholding" \notin Granting
      /\ e.type \in Presence <=> e.type \in {"registered", "disconnected"}
      /\ e.type \in Granting <=> e.type \in {"registered", "disconnected", "granting"}
      /\ e.type \in Standing <=> e.type \in Granting \/ e.type = "withholding"
  BY DEF Presence, Granting, Standing
<1>8. /\ e.type = "registered" => registered' = registered \cup {e.device}
      /\ e.type = "disconnected" => registered' = registered \ {e.device}
      /\ e.type \notin Presence => registered' = registered
  BY <1>3, <1>7
<1>9. /\ e.type = "withholding" /\ e.device \in registered => withheld' = withheld \cup {e.device}
      /\ e.type \in Granting => withheld' = withheld \ {e.device}
      /\ e.type \notin Granting /\ ~(e.type = "withholding" /\ e.device \in registered)
            => withheld' = withheld
  BY <1>3, <1>7 DEF Withheld
<1>10. TypeOK'
  <2>1. registered \subseteq Device /\ withheld \subseteq registered \cap Gated
    BY DEF BenchInv, TypeOK
  <2>2. registered' \subseteq Device
    BY <1>6, <1>7, <1>8, <2>1
  <2>3. withheld' \subseteq registered' \cap Gated
    <3>1. CASE e.type = "withholding"
      BY <1>6, <1>7, <1>8, <1>9, <2>1, <3>1
    <3>2. CASE e.type \in Presence
      BY <1>7, <1>8, <1>9, <2>1, <3>2
    <3>3. CASE e.type # "withholding" /\ e.type \notin Presence
      BY <1>7, <1>8, <1>9, <2>1, <3>3
    <3> QED
      BY <3>1, <3>2, <3>3
  <2>4. confirmed' \in [Junction -> Position \cup {None}]
    BY <1>3, <1>6 DEF BenchInv, TypeOK
  <2> QED
    BY <1>3, <1>5, <2>2, <2>3, <2>4 DEF BenchInv, TypeOK, tableVars
<1>11. Reconciled'
  BY <1>3, <1>5 DEF BenchInv, Reconciled, tableVars
<1>12. AtWorkRegistered'
  <2>1. ASSUME NEW d \in hw.devices
        PROVE  Ends(q, d, Presence, {"registered"}, d \in registered')
    <3>1. Ends(hw.events, d, Presence, {"registered"}, d \in registered)
      BY DEF BenchInv, AtWorkRegistered
    <3>2. CASE e.device = d /\ e.type \in Presence
      <4>1. Ends(q, d, Presence, {"registered"}, e.type \in {"registered"})
        BY <1>4, <1>7, <3>1, <3>2
      <4>2. (d \in registered') = (e.type \in {"registered"})
        BY <1>7, <1>8, <3>2
      <4> QED
        BY <4>1, <4>2
    <3>3. CASE e.device # d \/ e.type \notin Presence
      <4>1. Ends(q, d, Presence, {"registered"}, d \in registered)
        BY <1>4, <1>7, <3>1, <3>3
      <4>2. (d \in registered') = (d \in registered)
        BY <1>7, <1>8, <3>3
      <4> QED
        BY <4>1, <4>2
    <3> QED
      BY <3>2, <3>3
  <2> QED
    BY <1>5, <2>1 DEF AtWorkRegistered
<1>13. DepartedForgotten'
  <2>1. ASSUME NEW d \in (Train \cup Gate) \ liveIds
        PROVE  Ends(q, d, Presence, {"disconnected"}, d \notin registered')
    <3>1. Ends(hw.events, d, Presence, {"disconnected"}, d \notin registered)
      BY DEF BenchInv, DepartedForgotten
    <3>2. CASE e.device = d /\ e.type \in Presence
      <4>1. Ends(q, d, Presence, {"disconnected"}, e.type \in {"disconnected"})
        BY <1>4, <1>7, <3>1, <3>2
      <4>2. (d \notin registered') = (e.type \in {"disconnected"})
        BY <1>7, <1>8, <3>2
      <4> QED
        BY <4>1, <4>2
    <3>3. CASE e.device # d \/ e.type \notin Presence
      <4>1. Ends(q, d, Presence, {"disconnected"}, d \notin registered)
        BY <1>4, <1>7, <3>1, <3>3
      <4>2. (d \notin registered') = (d \notin registered)
        BY <1>7, <1>8, <3>3
      <4> QED
        BY <4>1, <4>2
    <3> QED
      BY <3>2, <3>3
  <2> QED
    BY <1>3, <2>1 DEF DepartedForgotten, tableVars
<1>14. GatesKnown'
  <2>1. ASSUME NEW d \in Gated \cap hw.devices, d \in hw.holding
        PROVE  Ends(q, d, Standing, {"withholding"}, d \in withheld')
    <3>1. Ends(hw.events, d, Standing, {"withholding"}, d \in withheld)
      BY <2>1 DEF BenchInv, GatesKnown
    <3>2. CASE e.device = d /\ e.type \in Granting
      <4>1. Ends(q, d, Standing, {"withholding"}, e.type \in {"withholding"})
        BY <1>4, <1>7, <3>1, <3>2
      <4>2. (d \in withheld') = (e.type \in {"withholding"})
        BY <1>7, <1>9, <3>2
      <4> QED
        BY <4>1, <4>2
    <3>3. CASE e.device = d /\ e.type = "withholding"
      <4>1. Ends(q, d, Standing, {"withholding"}, e.type \in {"withholding"})
        BY <1>4, <1>7, <3>1, <3>3
      <4>2. Ends(hw.events, d, Presence, {"registered"}, d \in registered)
        BY DEF BenchInv, AtWorkRegistered
      <4>3. Ends(q, d, Presence, {"registered"}, d \in registered)
        BY <1>4, <1>7, <3>3, <4>2
      <4>4. CASE d \in registered
        <5>1. (d \in withheld') = (e.type \in {"withholding"})
          BY <1>9, <3>3, <4>4
        <5> QED
          BY <4>1, <5>1
      <4>5. CASE d \notin registered
        <5>1. \E i \in DOMAIN q : q[i].device = d /\ q[i].type = "registered"
          BY <4>3, <4>5 DEF Ends
        <5> QED
          BY <1>7, <4>1, <5>1 DEF Ends
      <4> QED
        BY <4>4, <4>5
    <3>4. CASE e.device # d \/ e.type \notin Standing
      <4>1. Ends(q, d, Standing, {"withholding"}, d \in withheld)
        BY <1>4, <1>7, <3>1, <3>4
      <4>2. (d \in withheld') = (d \in withheld)
        BY <1>7, <1>9, <3>4
      <4> QED
        BY <4>1, <4>2
    <3> QED
      BY <1>7, <3>2, <3>3, <3>4
  <2>2. ASSUME NEW d \in Gated \cap hw.devices, d \notin hw.holding
        PROVE  Ends(q, d, Standing, Granting, d \notin withheld')
    <3>1. Ends(hw.events, d, Standing, Granting, d \notin withheld)
      BY <2>2 DEF BenchInv, GatesKnown
    <3>2. CASE e.device = d /\ e.type \in Granting
      <4>1. Ends(q, d, Standing, Granting, e.type \in Granting)
        BY <1>4, <1>7, <3>1, <3>2
      <4>2. (d \notin withheld') = (e.type \in Granting)
        BY <1>9, <3>2
      <4> QED
        BY <4>1, <4>2
    <3>3. CASE e.device = d /\ e.type = "withholding"
      <4>1. Ends(q, d, Standing, Granting, e.type \in Granting)
        BY <1>4, <1>7, <3>1, <3>3
      <4> QED
        BY <1>7, <3>3, <4>1 DEF Ends
    <3>4. CASE e.device # d \/ e.type \notin Standing
      <4>1. Ends(q, d, Standing, Granting, d \notin withheld)
        BY <1>4, <1>7, <3>1, <3>4
      <4>2. (d \notin withheld') = (d \notin withheld)
        BY <1>7, <1>9, <3>4
      <4> QED
        BY <4>1, <4>2
    <3> QED
      BY <1>7, <3>2, <3>3, <3>4
  <2>3. hw.holding \subseteq hw.devices
    BY DEF BenchInv, GatesKnown
  <2> QED
    BY <1>5, <2>1, <2>2, <2>3 DEF GatesKnown
<1>15. PointsAreSet'
  BY <1>5 DEF BenchInv, PointsAreSet
<1>16. PointsKnown'
  <2>1. ASSUME NEW j \in Junction \cap hw.devices, hw.points[j] # None,
               Ends(hw.events, j, Position, {hw.points[j]}, confirmed[j] \in {None, hw.points[j]})
        PROVE  Ends(q, j, Position, {hw.points[j]}, confirmed'[j] \in {None, hw.points[j]})
    <3>1. {hw.points[j]} \subseteq Position /\ confirmed \in [Junction -> Position \cup {None}]
      BY <1>1, <2>1 DEF Hardware, BenchInv, TypeOK
    <3>2. CASE e.device = j /\ e.type \in Position
      <4>1. Ends(q, j, Position, {hw.points[j]}, e.type \in {hw.points[j]})
        BY <1>4, <2>1, <3>1, <3>2
      <4>2. e.type \in {hw.points[j]} => confirmed'[j] \in {None, hw.points[j]}
        BY <1>3, <3>1, <3>2
      <4> QED
        BY <4>1, <4>2 DEF Ends
    <3>3. CASE e.device # j \/ e.type \notin Position
      <4>1. Ends(q, j, Position, {hw.points[j]}, confirmed[j] \in {None, hw.points[j]})
        BY <1>4, <2>1, <3>1, <3>3
      <4>2. confirmed'[j] = confirmed[j]
        BY <1>3, <3>1, <3>3
      <4> QED
        BY <4>1, <4>2
    <3> QED
      BY <3>2, <3>3
  <2>2. \A j \in Junction \cap hw.devices : hw.points[j] = None => Told(hw.commands, j)
    BY DEF BenchInv, PointsAreSet, Told
  <2>3. \A j \in Junction \cap hw.devices :
           \/ Told(hw.commands, j)
           \/ hw.points[j] = hw.switchPositions[j]
           \/ Ends(hw.events, j, Position, {hw.points[j]}, confirmed[j] \in {None, hw.points[j]})
    BY DEF BenchInv, PointsKnown, Told
  <2>4. \A j \in Junction \cap hw.devices :
           \/ Told(hw.commands, j)
           \/ hw.points[j] = hw.switchPositions[j]
           \/ Ends(q, j, Position, {hw.points[j]}, confirmed'[j] \in {None, hw.points[j]})
    BY <2>1, <2>2, <2>3
  <2> QED
    BY <1>5, <2>4 DEF PointsKnown, Told
<1> QED
  BY <1>10, <1>11, <1>12, <1>13, <1>14, <1>15, <1>16 DEF BenchInv

-----------------------------------------------------------------------------
(* The theorems.                                                           *)

(* At first nothing is live, and nobody is on record.                      *)
LEMMA InitKeeps == Init => BenchInv
<1> SUFFICES ASSUME Init
             PROVE  BenchInv
  OBVIOUS
<1>1. /\ hw \in Hardware /\ hw.devices = {} /\ hw.holding = {} /\ hw.events = <<>>
      /\ hw.trains = NoTrains /\ hw.lastLive = {} /\ hw.lastPieces = Laid
      /\ hw.topology = Laid \cap Track
  BY WorkbenchAssumption DEF Init, Hardware, NoPoints, NoTrains, Track
<1>2. TypeOK
  <2>1. {t \in Train : hw.trains[t] # None} = {}
    BY <1>1 DEF NoTrains
  <2>2. edits \in 0..MaxEdits /\ orders \in 0..MaxOrders /\ confirmed \in [Junction -> Position \cup {None}]
    BY WorkbenchAssumption DEF Init, NoPoints
  <2> QED
    BY <1>1, <2>1, <2>2, WorkbenchAssumption DEF Init, TypeOK
<1>3. Reconciled /\ AtWorkRegistered /\ GatesKnown /\ PointsAreSet /\ PointsKnown
  BY <1>1 DEF Init, Reconciled, AtWorkRegistered, GatesKnown, PointsAreSet, PointsKnown
<1>4. DepartedForgotten
  <2>1. DOMAIN hw.events = {}
    BY <1>1
  <2> QED
    BY <2>1 DEF Init, DepartedForgotten, Ends
<1> QED
  BY <1>2, <1>3, <1>4 DEF BenchInv

(* Every step of the operator, of the devices and of the server keeps it.  *)
LEMMA NextKeeps == BenchInv /\ [Next]_vars => BenchInv'
<1> SUFFICES ASSUME BenchInv, [Next]_vars
             PROVE  BenchInv'
  OBVIOUS
<1>1. CASE \E r \in Rail : Lay(r)
  BY <1>1, LayKeeps
<1>2. CASE \E t \in Train, r \in Rail : MovePiece(t, r) \/ Tick(t, r)
  BY <1>2, MovePieceKeeps, TickKeeps
<1>3. CASE \E p \in Piece : DeleteSelected(p) \/ DetachPiece(p)
  BY <1>3, DeleteSelectedKeeps, DetachPieceKeeps
<1>4. CASE \E d \in Device : HandleScanConfirm(d)
  BY <1>4, HandleScanConfirmKeeps
<1>5. CASE \E t \in Train : TogglePower(t)
  BY <1>5, TogglePowerKeeps
<1>6. CASE \E g \in Span : ToggleBridgeSpan(g)
  BY <1>6, ToggleBridgeSpanKeeps
<1>7. CASE \E j \in Junction, position \in Position : SetSwitch(j, position)
  BY <1>7, SetSwitchKeeps
<1>8. CASE PageHide
  BY <1>8, PageHideKeeps
<1>9. CASE Receive \/ Obey
  BY <1>9, ReceiveKeeps, ObeyKeeps
<1>10. CASE \E d \in Device : \E order \in OrdersFor(d) : Order(d, order)
  BY <1>10, OrderKeeps
<1>11. CASE UNCHANGED vars
  BY <1>11 DEF vars, tableVars, serverVars, BenchInv, TypeOK, Reconciled, AtWorkRegistered,
             DepartedForgotten, GatesKnown, PointsAreSet, PointsKnown
<1> QED
  BY <1>1, <1>2, <1>3, <1>4, <1>5, <1>6, <1>7, <1>8, <1>9, <1>10, <1>11 DEF Next

(* The invariant holds of every table, its devices and any edits of it.    *)
THEOREM BenchIsSafe == Spec => []BenchInv
BY InitKeeps, NextKeeps, PTL DEF Spec

(* Every variable has its type; at work is what is live and on the table.  *)
THEOREM TypeCorrect == Spec => []TypeOK
<1>1. BenchInv => TypeOK
  BY DEF BenchInv
<1> QED
  BY <1>1, BenchIsSafe, PTL

(* No junction at work stays closed: its points are set, or will be.       *)
THEOREM LivePointsAreSet == Spec => []PointsAreSet
<1>1. BenchInv => PointsAreSet
  BY DEF BenchInv
<1> QED
  BY <1>1, BenchIsSafe, PTL

(* Points lie as the hardware and the server agree, once it is quiet.      *)
THEOREM AgreementIsTrue == Spec => []AgreedPointsLieSo
<1>1. BenchInv => AgreedPointsLieSo
  <2> SUFFICES ASSUME BenchInv, Quiet, NEW j \in Junction \cap hw.devices,
                      confirmed[j] # None, confirmed[j] = hw.switchPositions[j]
               PROVE  hw.points[j] = confirmed[j]
    BY DEF AgreedPointsLieSo
  <2>1. DOMAIN hw.commands = {} /\ DOMAIN hw.events = {}
    BY DEF Quiet
  <2> QED
    BY <2>1 DEF BenchInv, PointsKnown, Ends
<1> QED
  BY <1>1, BenchIsSafe, PTL

(* The server knows which gates withhold, once it is quiet.                *)
THEOREM GatesComeToAgree == Spec => []GatesAgree
<1>1. BenchInv => GatesAgree
  <2> SUFFICES ASSUME BenchInv, Quiet
               PROVE  withheld \cap hw.devices = hw.holding
    BY DEF GatesAgree
  <2>1. DOMAIN hw.events = {}
    BY DEF Quiet
  <2>2. \A d \in Gated \cap hw.devices : d \in hw.holding <=> d \in withheld
    BY <2>1 DEF BenchInv, GatesKnown, Ends
  <2>3. hw.holding \subseteq Gated \cap hw.devices /\ withheld \subseteq Gated
    BY DEF BenchInv, GatesKnown, TypeOK, Hardware
  <2> QED
    BY <2>2, <2>3
<1> QED
  BY <1>1, BenchIsSafe, PTL

(* It has forgotten the trains and gates that left, once it is quiet.      *)
THEOREM DepartureIsHeard == Spec => []DepartedAreForgotten
<1>1. BenchInv => DepartedAreForgotten
  <2> SUFFICES ASSUME BenchInv, Quiet
               PROVE  registered \cap (Train \cup Gate) \subseteq liveIds
    BY DEF DepartedAreForgotten
  <2>1. DOMAIN hw.events = {}
    BY DEF Quiet
  <2> QED
    BY <2>1 DEF BenchInv, DepartedForgotten, Ends
<1> QED
  BY <1>1, BenchIsSafe, PTL
=============================================================================
