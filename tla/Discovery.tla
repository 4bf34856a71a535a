----------------------------- MODULE Discovery -----------------------------
(***************************************************************************)
(* A railway that starts with no map (tf-server --discovery): operators    *)
(* bind tags to markers, trains that run across them teach the server the  *)
(* track, and LearnMode drives one train round until it has seen it all.   *)
(*                                                                         *)
(* The server handles one message at a time: the scheduler first, then     *)
(* LearnMode, which reads what the scheduler has just learned.  Trains and *)
(* server talk through one queue each way; a session, the train's device   *)
(* and the train on the rails can all be in different places.              *)
(*                                                                         *)
(* No train has a schedule here: each is in OPEN mode (ADR-019).  One      *)
(* operator works the panel, and waits for it to show what was asked.  An  *)
(* echo from the broker is back before a train or the panel gets further;  *)
(* requests to the admin API, which do not go through it, can be quicker.  *)
(***************************************************************************)
EXTENDS Integers, FiniteSets, Sequences, SequencesExt, FiniteSetsExt

CONSTANTS
    Train,
    Place,         \* the tags on the table, one at each place
    Way,           \* Way[p]: where the rails lead from place p, any points there set by hand
    Home,          \* where an operator first puts each train down
    Terminus,      \* places that are bound as a terminus
    Confirm,       \* confirmTraversals
    Room,          \* bound: commands waiting for one train; one tag at a time waits for the server
    MaxMishaps,    \* bound: trains lifted, deleted or restarted while registered, prunings,
                   \* crashes, resets; there may be one more if that is a reset
    None

Statuses == {"waiting_for_train", "driving", "paused_terminus", "complete"}

(* What LearnMode keeps of a train's way. *)
Session ==
    [train : Train \cup {None}, status : Statuses,
     start : Place \cup {None}, last : Place \cup {None},
     edges : SUBSET (Place \X Place), visited : SUBSET Place, exploring : BOOLEAN]

ASSUME TableAssumption ==
    /\ Way \in [Place -> SUBSET Place]
    /\ Terminus \subseteq Place
    /\ Home \in [Train -> Place]
    /\ Confirm \in Nat \ {0}
    /\ Room \in Nat \ {0}
    /\ MaxMishaps \in Nat
    /\ None \notin Train \cup Place \cup Session

VARIABLES
    at,          \* where each train is; None: off the table
    exploring,   \* whether its device runs it with no route and no limit
    toTrain,     \* commands on their way to each train
    fromTrain,   \* the tags it has read, on their way to the server
    order,       \* the trains registered, in the order of Scheduler.trains
    last,        \* the scheduler's last_marker_id of each train
    assigner,    \* whether the device that speaks for the operator may assign tags
    bound,       \* TagRegistry: the places whose tag is bound to a marker
    markers,     \* LayoutState.markers
    count,       \* LayoutState.traversalCounts, of each edge known; Confirm: that many or more
    inferred,    \* edges that are not confirmed
    session,     \* LearnMode.session, or None
    shown,       \* the state in the retained snapshot of track_learning
    retained,    \* the topics of one device or tag that the broker retains
    live,        \* those of them that hold something
    drawn,       \* the graph in the retained snapshot of the layout
    ledger,      \* Server.retainedStateTopics: those the server has heard of
    echo,        \* those the broker has yet to send it
    mishaps,     \* how many mishaps there were
    arcs,        \* history, since the graph was blank: how trains got about, on rails or carried
    gaps,        \* history: places where a train on its way read a tag that nobody had bound
    orphans,     \* history: trains that were exploring, or told to, when the server crashed
    ghosts       \* history: topics with something of a server, or a registration, that is gone

tableVars == <<at, exploring, fromTrain>>
layoutVars == <<order, assigner, last, bound, markers, count, inferred>>
learnVars == <<session, shown>>
topicVars == <<retained, live, drawn, ledger, echo, ghosts>>
historyVars == <<arcs, gaps, orphans>>
vars == <<tableVars, toTrain, layoutVars, learnVars, topicVars, mishaps, historyVars>>

Edges == DOMAIN count

(* LayoutState.toLayout *)
Graph == <<markers, Edges, inferred>>

Init ==
    /\ at = [t \in Train |-> None]
    /\ exploring = [t \in Train |-> FALSE]
    /\ toTrain = [t \in Train |-> <<>>]
    /\ fromTrain = [t \in Train |-> <<>>]
    /\ order = <<>>
    /\ assigner = TRUE
    /\ last = [t \in Train |-> None]
    /\ bound = {}
    /\ markers = {}
    /\ count = <<>>
    /\ inferred = {}
    /\ session = None
    /\ shown = "idle"
    /\ retained = {} /\ live = {}
    /\ drawn = Graph
    /\ ledger = {} /\ echo = {}
    /\ mishaps = 0
    /\ arcs = {}
    /\ gaps = {}
    /\ orphans = {}
    /\ ghosts = {}

Mishap == mishaps < MaxMishaps /\ mishaps' = mishaps + 1

(* The broker retains what is published of a topic, and sends it to the    *)
(* server, which subscribes to them all; one it knows makes no difference. *)
Retain(topics) ==
    /\ retained' = retained \cup topics
    /\ echo' = echo \cup (topics \ ledger)
    /\ ghosts' = ghosts \ topics
    /\ UNCHANGED ledger

(* Something is published of these topics. *)
Publish(topics) ==
    /\ Retain(topics)
    /\ live' = live \cup topics

-----------------------------------------------------------------------------
(* LearnMode.                                                              *)

NewSession(t, status) ==
    [train |-> t, status |-> status, start |-> None, last |-> None,
     edges |-> {}, visited |-> {}, exploring |-> FALSE]

(* Mutant: coming back to a marker is no new edge.                         *)
SeenOnce(s, m) ==
    [s EXCEPT !.visited = @ \cup {m},
              !.start = IF @ = None THEN m ELSE @,
              !.edges = IF s.last = None \/ m \in s.visited THEN @ ELSE @ \cup {<<s.last, m>>},
              !.last = m]

(* The session's record of the train's way, the train now at marker m. *)
Seen(s, m) ==
    [s EXCEPT !.visited = @ \cup {m},
              !.start = IF @ = None THEN m ELSE @,
              !.edges = IF s.last \in {None, m} THEN @ ELSE @ \cup {<<s.last, m>>},
              !.last = m]

(* reachableGraphFullyTraversed *)
ReachableGraphFullyTraversed(s, m, known) ==
    /\ m = s.start
    /\ s.edges # {}
    /\ \A e \in known : e[1] \in s.visited => e \in s.edges

(* reviewProgress, the train having been seen at marker m: the session it  *)
(* leaves and the commands it sends.                                       *)
Reviewed(s, m, known, map) ==
    LET seen == Seen(s, m)
        release(status) == [session |-> [seen EXCEPT !.exploring = FALSE, !.status = status],
                            told |-> <<"revoke_clearance">>]
    IN  IF m \in map \cap Terminus THEN release("paused_terminus")
        ELSE IF ReachableGraphFullyTraversed(seen, m, known) THEN release("complete")
        ELSE [session |-> [seen EXCEPT !.exploring = TRUE],
              told |-> IF seen.exploring THEN <<>> ELSE <<"begin_exploration">>]

(* reviewProgress and publishCurrentState *)
ReviewProgress(s, lastMarker, known, map) ==
    IF lastMarker[s.train] = None
    THEN session' = s /\ UNCHANGED <<toTrain, shown>>
    ELSE LET r == Reviewed(s, lastMarker[s.train], known, map) IN
         /\ session' = r.session
         /\ shown' = r.session.status
         /\ toTrain' = [toTrain EXCEPT ![s.train] = @ \o r.told]

(* onEvent, of a tag that train t has read; lastMarker, known and map are  *)
(* what the scheduler has made of it.  A session that waits latches onto   *)
(* the train, whichever was asked for.                                     *)
OnEvent(t, lastMarker, known, map) ==
    IF session = None THEN UNCHANGED <<session, shown, toTrain>>
    ELSE LET waiting == session.status = "waiting_for_train" /\ order # <<>>
             latched == [session EXCEPT !.train = IF t \in Range(order) THEN t ELSE order[1],
                                        !.status = "driving"]
             s == IF waiting THEN latched ELSE session
         IN  IF t = s.train /\ (waiting \/ session.status # "waiting_for_train")
             THEN ReviewProgress(s, lastMarker, known, map)
             ELSE session' = s /\ UNCHANGED <<shown, toTrain>>

(* start: the first train registered; it is driven at once if it has been  *)
(* seen at some marker.                                                    *)
Start ==
    /\ IF order # <<>> /\ last[order[1]] # None
       THEN ReviewProgress(NewSession(order[1], "driving"), last, Edges, markers)
       ELSE /\ session' = NewSession(IF order = <<>> THEN None ELSE order[1], "waiting_for_train")
            /\ shown' = "waiting_for_train"
            /\ UNCHANGED toTrain

(* Mutant: a session is ended and its train left to run.                   *)
StopUnreleased ==
    /\ session' = None
    /\ shown' = "idle"
    /\ UNCHANGED toTrain

(* stop *)
Stop ==
    /\ session' = None
    /\ shown' = "idle"
    /\ IF session # None /\ session.exploring
       THEN toTrain' = [toTrain EXCEPT ![session.train] = Append(@, "revoke_clearance")]
       ELSE UNCHANGED toTrain

(* The one button of the LearnTrackPanel.  Stop, of no session, leaves all *)
(* as it is.                                                               *)
Click ==
    /\ echo = {}
    /\ \A t \in Train : Len(toTrain[t]) < Room
    /\ IF shown = "idle" THEN Start ELSE Stop
    /\ UNCHANGED <<tableVars, layoutVars, topicVars, mishaps, historyVars>>

-----------------------------------------------------------------------------
(* The server.                                                             *)

(* handleTagAssignment, through the admin API: a marker the layout does    *)
(* not have is made, and the tag bound to it.                              *)
Bind(p) ==
    /\ assigner
    /\ p \notin bound
    /\ bound' = bound \cup {p}
    /\ markers' = markers \cup {p}
    /\ Publish({<<"tags", p>>})
    /\ drawn' = <<markers', Edges, inferred>>
    /\ UNCHANGED <<tableVars, toTrain, order, assigner, last, count, inferred, learnVars,
                   mishaps, historyVars>>

(* Mutant: one crossing too few.                                           *)
CrossedOften(n) == n >= Confirm - 1

(* An edge crossed n times is confirmed. *)
OftenEnough(n) == n >= Confirm

(* recordTraversal from marker p to marker q: the edge is learned, and     *)
(* confirmed once it has been crossed often enough; the layout is          *)
(* published if there is anything new in it.                               *)
RecordTraversal(p, q) ==
    IF {p, q} \subseteq markers
    THEN LET e == <<p, q>>
             n == IF e \in Edges THEN Min({Confirm, count[e] + 1}) ELSE 1
         IN  /\ count' = [x \in Edges \cup {e} |-> IF x = e THEN n ELSE count[x]]
             /\ inferred' = IF OftenEnough(n) THEN inferred \ {e}
                            ELSE IF e \in Edges THEN inferred ELSE inferred \cup {e}
             /\ drawn' = IF e \notin Edges \/ (e \in inferred /\ OftenEnough(n))
                         THEN <<markers, Edges', inferred'>> ELSE drawn
    ELSE UNCHANGED <<count, inferred, drawn>>

(* Mutant: one last marker for all trains, as there is one lastRecordedAt. *)
PreviousOfAny(t) ==
    IF \E u \in Train \ {t} : last[u] # None
    THEN last[CHOOSE u \in Train \ {t} : last[u] # None] ELSE last[t]

(* Where the scheduler thinks train t comes from. *)
PreviousMarker(t) == last[t]

(* handleTagObserved and handleTrainAtMarker, for a train with no route.   *)
TagObserved(t, p) ==
    IF p \in bound /\ t \in Range(order)
    THEN /\ last' = [last EXCEPT ![t] = p]
         /\ IF PreviousMarker(t) \in {None, p} THEN UNCHANGED <<count, inferred, drawn>>
            ELSE RecordTraversal(PreviousMarker(t), p)
         /\ UNCHANGED gaps
    ELSE /\ gaps' = IF last[t] = None THEN gaps ELSE gaps \cup {p}
         /\ UNCHANGED <<last, count, inferred, drawn>>

(* handleMessage: the scheduler handles the event before LearnMode does.   *)
Receive(t) ==
    /\ echo = {}
    /\ fromTrain[t] # <<>> /\ \A u \in Train : Len(toTrain[u]) < Room
    /\ fromTrain' = [fromTrain EXCEPT ![t] = Tail(@)]
    /\ TagObserved(t, Head(fromTrain[t]))
    /\ OnEvent(t, last', DOMAIN count', markers)
    /\ UNCHANGED <<at, exploring, order, assigner, bound, markers, retained, live, ledger, echo,
                   mishaps, arcs, orphans, ghosts>>

(* The ledger hears of the topics published. *)
Record ==
    /\ echo # {}
    /\ ledger' = ledger \cup echo
    /\ echo' = {}
    /\ UNCHANGED <<tableVars, toTrain, layoutVars, learnVars, retained, live, drawn, mishaps,
                   ghosts, historyVars>>

(* Server.deleteTrain, forgetDevice: its topic is published empty. *)
DeleteTrain(t) ==
    /\ Mishap
    /\ t \in Range(order)
    /\ order' = RemoveAt(order, CHOOSE i \in DOMAIN order : order[i] = t)
    /\ last' = [last EXCEPT ![t] = None]
    /\ Retain({<<"devices", t>>})
    /\ live' = live \ {<<"devices", t>>}
    /\ UNCHANGED <<tableVars, toTrain, assigner, bound, markers, count, inferred, drawn, learnVars,
                   historyVars>>

(* pruneOrphanMarkers: their tags stay bound. *)
PruneOrphanMarkers ==
    /\ Mishap
    /\ markers' = {m \in markers : \E e \in Edges : m \in Range(e)}
    /\ markers' # markers
    /\ drawn' = <<markers', Edges, inferred>>
    /\ UNCHANGED <<tableVars, toTrain, order, assigner, last, bound, count, inferred, learnVars,
                   retained, live, ledger, echo, ghosts, historyVars>>

(* What the scheduler, the layout and the tags are before anything is told, *)
(* the layout published; history begins anew.                              *)
Blank ==
    /\ order' = <<>>
    /\ last' = [t \in Train |-> None]
    /\ bound' = {}
    /\ markers' = {}
    /\ count' = <<>>
    /\ inferred' = {}
    /\ drawn' = <<{}, {}, {}>>
    /\ arcs' = {}
    /\ gaps' = {}

(* Mutant: nothing is said of a tag that is no longer bound.               *)
EmptyPayloadButForTags(topic) == topic[1] \in {"devices", "schedule", "clearance", "switches"}

(* emptyPayloadForStateTopic: whether there is one; layout, deadlock and   *)
(* track_learning have none.                                               *)
EmptyPayloadForStateTopic(topic) ==
    topic[1] \in {"devices", "schedule", "clearance", "tags", "switches"}

(* Server.reset: LearnMode keeps its session, and publishes it again.  The *)
(* operator's own device, registered when the API began to listen, is      *)
(* forgotten with the rest.                                                *)
Reset ==
    /\ mishaps <= MaxMishaps /\ mishaps' = mishaps + 1
    /\ Blank
    /\ assigner' = FALSE
    /\ live' = {topic \in live : ~(topic \in ledger /\ EmptyPayloadForStateTopic(topic))}
    /\ ghosts' = live \cap echo
    /\ UNCHANGED <<tableVars, toTrain, learnVars, retained, ledger, echo, orphans>>

(* The server dies and is started again: what it knew is gone, the broker  *)
(* still has what was retained and replays it to the new ledger.           *)
Crash ==
    /\ Mishap
    /\ Blank
    /\ assigner' = TRUE
    /\ session' = None
    /\ shown' = "idle"
    /\ ledger' = {}
    /\ echo' = retained
    /\ ghosts' = live
    /\ fromTrain' = [t \in Train |-> <<>>]
    /\ orphans' = orphans \cup
           {t \in Train : exploring[t] \/ "begin_exploration" \in Range(toTrain[t])}
    /\ UNCHANGED <<at, exploring, toTrain, retained, live>>

-----------------------------------------------------------------------------
(* The trains.                                                             *)

(* A device is switched on and registers: at first, again because it was   *)
(* forgotten, or while it is still registered; then initTrainState leaves  *)
(* what is known of it as it is.                                           *)
SwitchOn(t) ==
    /\ \/ t \notin Range(order) /\ order' = Append(order, t) /\ UNCHANGED mishaps
       \/ t \in Range(order) /\ UNCHANGED order /\ Mishap
    /\ exploring' = [exploring EXCEPT ![t] = FALSE]
    /\ toTrain' = [toTrain EXCEPT ![t] = <<>>]
    /\ orphans' = orphans \ {t}
    /\ Publish({<<"devices", t>>})
    /\ UNCHANGED <<at, fromTrain, assigner, last, bound, markers, count, inferred, drawn, learnVars,
                   arcs, gaps>>

(* onBeginExploration, onRevoke *)
Obey(t) ==
    /\ echo = {}
    /\ toTrain[t] # <<>>
    /\ toTrain' = [toTrain EXCEPT ![t] = Tail(@)]
    /\ exploring' = [exploring EXCEPT ![t] = Head(toTrain[t]) = "begin_exploration"]
    /\ orphans' = IF toTrain[t] = <<"revoke_clearance">> THEN orphans \ {t} ELSE orphans
    /\ UNCHANGED <<at, fromTrain, layoutVars, learnVars, topicVars, mishaps, arcs, gaps>>

(* A train is at place q and reads the tag there. *)
Arrive(t, q) ==
    /\ fromTrain[t] = <<>>
    /\ at' = [at EXCEPT ![t] = q]
    /\ fromTrain' = [fromTrain EXCEPT ![t] = Append(@, q)]
    /\ arcs' = IF at[t] = None THEN arcs ELSE arcs \cup {<<at[t], q>>}
    /\ UNCHANGED <<exploring, toTrain, layoutVars, learnVars, topicVars, gaps, orphans>>

(* It runs on along the rails, *)
Run(t) ==
    /\ echo = {}
    /\ exploring[t] /\ at[t] # None
    /\ \E q \in Way[at[t]] : Arrive(t, q)
    /\ UNCHANGED mishaps

(* or an operator puts it down somewhere; the second time is a mishap. *)
Carry(t) ==
    /\ t \in Range(order)
    /\ \/ at[t] = None /\ Arrive(t, Home[t]) /\ UNCHANGED mishaps
       \/ at[t] # None /\ Mishap /\ \E q \in Place \ {at[t]} : Arrive(t, q)

Next ==
    \/ Click
    \/ Record
    \/ \E p \in Place : Bind(p)
    \/ PruneOrphanMarkers \/ Reset \/ Crash
    \/ \E t \in Train :
          \/ Receive(t) \/ DeleteTrain(t) \/ SwitchOn(t)
          \/ Obey(t) \/ Run(t) \/ Carry(t)

Spec == Init /\ [][Next]_vars

(* The broker delivers, and a train whose motor runs gets somewhere.       *)
FairSpec ==
    /\ Spec
    /\ WF_vars(Record)
    /\ \A t \in Train : WF_vars(Receive(t)) /\ WF_vars(Obey(t)) /\ WF_vars(Run(t))
-----------------------------------------------------------------------------
(* No train gets from S to a place that is not in S, if every tag on the   *)
(* way there, but for that at p, was unbound when it was read.             *)
Closed(S, p) == \A arc \in arcs : arc[1] \in S \cap (gaps \cup {p}) => arc[2] \in S

(* Where a train may get from p with every tag it reads on the way there   *)
(* unbound: the least such set.                                            *)
Onward(p) == {q \in Place : \A S \in SUBSET Place : p \in S /\ Closed(S, p) => q \in S}

(* Every variable has its type; a train is on the way of its last tag; the *)
(* count tells which edges are confirmed; no device registers twice; the   *)
(* server has heard, or is to hear, of all that is retained.               *)
TypeOK ==
    /\ at \in [Train -> Place \cup {None}]
    /\ exploring \in [Train -> BOOLEAN]
    /\ toTrain \in [Train -> Seq({"begin_exploration", "revoke_clearance"})]
    /\ \A t \in Train : Len(toTrain[t]) <= Room
    /\ fromTrain \in [Train -> Seq(Place)]
    /\ \A t \in Train : fromTrain[t] \in {<<>>, <<at[t]>>}
    /\ order \in Seq(Train) /\ IsInjective(order)
    /\ last \in [Train -> Place \cup {None}]
    /\ assigner \in BOOLEAN
    /\ markers \subseteq bound /\ bound \subseteq Place
    /\ \A e \in Edges : e \in Place \X Place /\ count[e] \in 1..Confirm
    /\ inferred = {e \in Edges : count[e] < Confirm}
    /\ session \in Session \cup {None}
    /\ shown \in Statuses \cup {"idle"}
    /\ live \subseteq retained /\ retained = ledger \cup echo /\ ledger \cap echo = {}
    /\ retained \subseteq ({"devices"} \X Train) \cup ({"tags"} \X Place)
    /\ drawn \in (SUBSET Place) \X (SUBSET (Place \X Place)) \X (SUBSET (Place \X Place))
    /\ mishaps \in 0..(MaxMishaps + 1)
    /\ arcs \subseteq Place \X Place /\ gaps \subseteq Place /\ orphans \subseteq Train

(* What the server has learned is so (ADR-009, ADR-015): an edge of the    *)
(* graph is a way some one train went, with no marker that was bound in    *)
(* between.  Reports of several trains do not get mixed up, nor those from *)
(* before a train was forgotten with those after.                          *)
LearnedIsTravelled == \A e \in Edges : e[2] \in Onward(e[1])

(* What train t will be doing once it has obeyed what it was sent. *)
WillExplore(t) ==
    IF toTrain[t] = <<>> THEN exploring[t] ELSE Last(toTrain[t]) = "begin_exploration"

(* No loco wanders on (learn-mode.ts, stop): once it has obeyed what it    *)
(* was sent, a train that explores is the one of the session, and the      *)
(* session knows that it is still exploring.  Only a crash of the server   *)
(* leaves trains running that nobody will stop.                            *)
NobodyExploresUnwatched ==
    \A t \in Train \ orphans : WillExplore(t) =>
        session # None /\ session.train = t /\ session.exploring

(* What the broker retains is what the server knows: the trains that are   *)
(* registered, the tags that are bound, the layout as it is (Server.reset, *)
(* "so the broker never diverges from the in-memory scheduler state").  A  *)
(* crash leaves ghosts; a reset lays all of them (Server.start, "exactly   *)
(* the topics reset() must tombstone"), but for those that the broker has  *)
(* yet to send to the server.                                              *)
RetainedIsKnown ==
    /\ live = ({"devices"} \X Range(order)) \cup ({"tags"} \X bound) \cup ghosts
    /\ drawn = Graph

(* A session's train is on its way round a ring without points, where the  *)
(* tags are bound and nothing is learned but the rails.                    *)
Learning ==
    /\ session # None /\ session.status = "driving"
    /\ session.train \in Range(order) /\ WillExplore(session.train)
    /\ Cardinality(Way[at[session.train]]) = 1
    /\ markers = Place
    /\ \A e \in Edges : e[2] \in Way[e[1]]

(* Learning a track comes to an end (LearnMode, "The reachable graph from  *)
(* the start is fully traversed"): with no points to choose at and nobody  *)
(* interfering, the train comes to a terminus, or back to where it began   *)
(* having crossed every edge known.                                        *)
LearningEnds == Learning ~> ~Learning
=============================================================================
