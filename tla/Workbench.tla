----------------------------- MODULE Workbench -----------------------------
(* The toy table (ToyTable), the hook that reconciles it with the simulated *)
(* hardware after every edit (useToyHardware), that hardware (ToyHardware), *)
(* the broker between it and the server, and what the server records of     *)
(* its devices.                                                             *)
(*                                                                          *)
(* Track is only told apart by its pieces: where a body stands is the rail  *)
(* under it.  Carriages, yards and vision stations are left out.            *)
EXTENDS Integers, FiniteSets, Sequences, SequencesExt

CONSTANTS
    Train, Rail, Junction,
    Span,        \* gates that are track themselves: lift bridges, cranes
    Gate,        \* gates that are not
    Laid,        \* the pieces on the table at first
    Placement,   \* the rail on which each train is put down
    MaxEdits,    \* how often the operator edits the table
    MaxOrders,   \* how often the server commands a device
    MaxQueued,   \* how many messages may be under way when he does
    None

Track == Rail \cup Junction \cup Span
Gated == Span \cup Gate
Device == Train \cup Junction \cup Gated
Piece == Track \cup Device

(* The first of a junction's positions is its rest position. *)
Rest == "main"
Position == {Rest, "divert"}

(* A train at work: on which rail, whether it was cleared, moves and is on. *)
Bench == [pose : Rail \cup {None}, cleared : BOOLEAN, moving : BOOLEAN, powered : BOOLEAN]

ASSUME WorkbenchAssumption ==
    /\ IsFiniteSet(Device)
    /\ Train \cap (Rail \cup Junction \cup Span \cup Gate) = {}
    /\ Rail \cap (Junction \cup Span \cup Gate) = {}
    /\ Junction \cap (Span \cup Gate) = {}
    /\ Span \cap Gate = {}
    /\ Laid \subseteq Piece
    /\ Placement \in [Train -> Rail]
    /\ {MaxEdits, MaxOrders, MaxQueued} \subseteq Nat
    /\ None \notin Piece \cup Position \cup Bench

VARIABLES
    pieces, place, liveIds, poweredOff,   \* the table's own state
    hw,                                   \* ToyHardware, and its messages
    registered, confirmed, withheld,      \* what the server has on record
    edits, orders

tableVars == <<pieces, place, liveIds, poweredOff>>
serverVars == <<registered, confirmed, withheld>>
vars == <<tableVars, hw, serverVars, edits, orders>>

Event(d, type) == [device |-> d, type |-> type]
Command(d, order) == [device |-> d, order |-> order]

-----------------------------------------------------------------------------
(* ToyHardware.                                                            *)

NoPoints == [j \in Junction |-> None]
NoTrains == [t \in Train |-> None]

Init ==
    /\ pieces = Laid
    /\ place = Placement
    /\ liveIds = {} /\ poweredOff = {}
    /\ hw = [topology |-> Laid \cap Track, lastLive |-> {}, lastPieces |-> Laid,
             lastPoweredOff |-> {}, devices |-> {},
             points |-> NoPoints, switchPositions |-> NoPoints, savedPoints |-> NoPoints,
             holding |-> {}, gateWithholds |-> {}, savedWithholds |-> {},
             trains |-> NoTrains, savedTrains |-> NoTrains,
             events |-> <<>>, commands |-> <<>>]
    /\ registered = {} /\ withheld = {} /\ confirmed = NoPoints
    /\ edits = 0 /\ orders = 0

(* Which position respawned points are given: what a rebuild saved of them, *)
(* else what they were last commanded to from here, else their rest.        *)
Desired(h, j) ==
    IF h.savedPoints[j] # None THEN h.savedPoints[j]
    ELSE IF h.switchPositions[j] # None THEN h.switchPositions[j]
    ELSE Rest

(* Mutant: what was not saved counts as being at rest.                   *)
AtRestUnlessSaved(h, switches) == {j \in switches : h.savedPoints[j] \in {None, Rest}}

(* Points at rest are set in the new world at once; the others by command. *)
AtRest(h, switches) == {j \in switches : Desired(h, j) = Rest}

(* Mutant: points are not thrown to where they were thrown before.       *)
ChangesOnly(h, thrown) ==
    {Command(j, Desired(h, j)) : j \in {k \in thrown : Desired(h, k) # h.switchPositions[k]}}

Throws(h, thrown) == {Command(j, Desired(h, j)) : j \in thrown}

(* A train is put where it was saved, else where its piece is placed, if    *)
(* there is still a rail there; only a train that was saved drives on.      *)
Respawned(h, shown, at, t) ==
    LET saved == h.savedTrains[t]
        seat  == IF saved # None THEN saved.pose ELSE at[t]
        rests == [pose |-> None, cleared |-> FALSE, moving |-> FALSE, powered |-> TRUE]
    IN  IF seat \notin shown THEN rests
        ELSE IF saved # None THEN [saved EXCEPT !.powered = TRUE]
        ELSE [rests EXCEPT !.pose = seat]

(* Every device announces itself as it starts; a gate whose withholding was *)
(* saved withholds again, and points that do not rest are thrown by way of  *)
(* the broker, into a world in which all points are unset.                  *)
RebuildDevices(h, shown, at, live) ==
    LET spawned == live \cap shown \cap Device
        switches == spawned \cap Junction
        resting == AtRest(h, switches)
        again == spawned \cap h.savedWithholds
    IN  [h EXCEPT
            !.devices = spawned,
            !.points = [j \in Junction |-> IF j \in resting THEN Rest ELSE None],
            !.switchPositions = [j \in Junction |-> IF j \in switches THEN Desired(h, j) ELSE @[j]],
            !.savedPoints = [j \in Junction |-> IF j \in switches THEN None ELSE @[j]],
            !.holding = again,
            !.gateWithholds = (@ \ spawned) \cup again,
            !.savedWithholds = @ \ spawned,
            !.trains = [t \in Train |-> IF t \in spawned THEN Respawned(h, shown, at, t) ELSE None],
            !.savedTrains = [t \in Train |-> IF t \in spawned THEN None ELSE @[t]],
            !.events = @ \o SetToSeq({Event(d, "registered") : d \in spawned})
                         \o SetToSeq({Event(d, "withholding") : d \in again}),
            !.commands = @ \o SetToSeq(Throws(h, switches \ resting))]

SnapshotDeviceState(h) ==
    [h EXCEPT !.savedPoints = h.switchPositions, !.switchPositions = NoPoints,
              !.savedWithholds = h.gateWithholds, !.gateWithholds = {}]

SnapshotTrainState(h) ==
    [h EXCEPT !.savedTrains = [t \in Train |->
        IF h.trains[t] # None /\ h.trains[t].pose # None THEN h.trains[t] ELSE None]]

(* Only the devices that were live before come back here.                  *)
Rebuild(h, shown, at) ==
    LET live == h.lastLive \cap shown
    IN  RebuildDevices([SnapshotTrainState(SnapshotDeviceState(h)) EXCEPT
                            !.topology = shown \cap Track, !.lastPoweredOff = {},
                            !.lastLive = live, !.lastPieces = shown],
                       shown, at, live)

SyncLayout(h, shown, at) ==
    IF shown \cap Track = h.topology THEN h ELSE Rebuild(h, shown, at)

(* Mutant: a piece is looked up among those shown now only.              *)
DepartingIfShown(h, shown, live) == (h.lastLive \ live) \cap shown \cap Device

(* A leaving piece is looked up among those shown now, or before.          *)
Departing(h, shown, live) == (h.lastLive \ live) \cap (shown \cup h.lastPieces) \cap Device

(* The devices are rebuilt whatever has changed, and nothing is saved.     *)
SyncLive(h, shown, at, live) ==
    LET left == {Event(d, "disconnected") : d \in Departing(h, shown, live)}
    IN  RebuildDevices([h EXCEPT !.events = @ \o SetToSeq(left),
                                 !.lastLive = live, !.lastPieces = shown],
                       shown, at, live)

(* ScheduledTrainDevice.power *)
Power(train, on) ==
    IF train = None \/ train.powered = on THEN train
    ELSE [train EXCEPT !.powered = on, !.moving = on /\ train.cleared]

SyncPower(h, off) ==
    [h EXCEPT !.trains = [t \in Train |->
                  CASE t \in off \ h.lastPoweredOff -> Power(@[t], FALSE)
                    [] t \in h.lastPoweredOff \ off -> Power(@[t], TRUE)
                    [] OTHER                        -> @[t]],
              !.lastPoweredOff = off]

-----------------------------------------------------------------------------
(* The operator at the table.  The hook's effect runs after every change.  *)

Quick == edits < MaxEdits /\ Len(hw.events) + Len(hw.commands) <= MaxQueued

Reconcile(h) ==
    /\ hw' = SyncPower(SyncLive(SyncLayout(h, pieces', place'), pieces', place', liveIds'),
                       poweredOff')
    /\ edits' = edits + 1
    /\ UNCHANGED <<serverVars, orders>>

Lay(r) ==
    /\ Quick /\ r \in Rail \ pieces
    /\ pieces' = pieces \cup {r}
    /\ UNCHANGED <<place, liveIds, poweredOff>>
    /\ Reconcile(hw)

(* Dragging a train's piece: where it is simulated to be does not matter.  *)
MovePiece(t, r) ==
    /\ Quick /\ t \in pieces /\ r \in (Rail \cap pieces) \ {place[t]}
    /\ place' = [place EXCEPT ![t] = r]
    /\ UNCHANGED <<pieces, liveIds, poweredOff>>
    /\ Reconcile(hw)

(* Mutant: a deleted train is still listed as off.                       *)
DeleteKeepingPower(p) ==
    /\ Quick /\ p \in pieces
    /\ pieces' = pieces \ {p}
    /\ liveIds' = liveIds \ {p}
    /\ UNCHANGED <<place, poweredOff>>
    /\ Reconcile(hw)

(* What was deleted is neither live nor off.                               *)
DeleteSelected(p) ==
    /\ Quick /\ p \in pieces
    /\ pieces' = pieces \ {p}
    /\ liveIds' = liveIds \ {p}
    /\ poweredOff' = poweredOff \ {p}
    /\ UNCHANGED place
    /\ Reconcile(hw)

(* A piece dragged too fast comes off the table, and nothing puts it back;  *)
(* what was live of it is still listed as live.                             *)
DetachPiece(p) ==
    /\ Quick /\ p \in pieces
    /\ pieces' = pieces \ {p}
    /\ UNCHANGED <<place, liveIds, poweredOff>>
    /\ Reconcile(hw)

(* scanPiece announces the device once by itself.                          *)
HandleScanConfirm(d) ==
    /\ Quick /\ d \in (Device \cap pieces) \ liveIds
    /\ liveIds' = liveIds \cup {d}
    /\ UNCHANGED <<pieces, place, poweredOff>>
    /\ Reconcile([hw EXCEPT !.events = Append(@, Event(d, "registered"))])

TogglePower(t) ==
    /\ Quick /\ t \in Train \cap pieces \cap liveIds
    /\ poweredOff' = IF t \in poweredOff THEN poweredOff \ {t} ELSE poweredOff \cup {t}
    /\ UNCHANGED <<pieces, place, liveIds>>
    /\ Reconcile(hw)

(* GateDevice.hold and release say so only if it makes a difference.       *)
Hold(h, g) ==
    IF g \in h.holding THEN h
    ELSE [h EXCEPT !.holding = @ \cup {g}, !.events = Append(@, Event(g, "withholding"))]

Release(h, g) ==
    IF g \notin h.holding THEN h
    ELSE [h EXCEPT !.holding = @ \ {g}, !.events = Append(@, Event(g, "granting"))]

ToggleBridgeSpan(g) ==
    /\ Quick /\ g \in Span \cap liveIds \cap hw.devices
    /\ hw' = IF g \in hw.gateWithholds
             THEN [Release(hw, g) EXCEPT !.gateWithholds = @ \ {g}]
             ELSE [Hold(hw, g) EXCEPT !.gateWithholds = @ \cup {g}]
    /\ edits' = edits + 1
    /\ UNCHANGED <<tableVars, serverVars, orders>>

SetSwitch(j, position) ==
    /\ Quick /\ j \in Junction \cap hw.devices
    /\ hw' = [hw EXCEPT !.switchPositions[j] = position,
                        !.commands = Append(@, Command(j, position))]
    /\ edits' = edits + 1
    /\ UNCHANGED <<tableVars, serverVars, orders>>

(* The page is closed: those of its trains and plain gates that are on the  *)
(* table say goodbye; what was dragged off it stays listed.                 *)
PageHide ==
    /\ Quick /\ pieces # {}
    /\ pieces' = {} /\ liveIds' = liveIds \ pieces /\ poweredOff' = poweredOff \ pieces
    /\ hw' = [hw EXCEPT !.devices = {}, !.trains = NoTrains, !.holding = {}, !.points = NoPoints,
                        !.events = @ \o SetToSeq({Event(d, "disconnected") :
                                            d \in liveIds \cap pieces \cap (Train \cup Gate)})]
    /\ edits' = MaxEdits
    /\ UNCHANGED <<place, serverVars, orders>>

-----------------------------------------------------------------------------
(* The server, and the devices that it commands.                           *)

(* Mutant: a registration leaves the withholdings as they are.           *)
WithheldOnceAndForAll(e) ==
    CASE e.type = "withholding" /\ e.device \in registered -> withheld \cup {e.device}
      [] e.type \in {"disconnected", "granting"}           -> withheld \ {e.device}
      [] OTHER                                             -> withheld

(* A registration, new or not, starts the device's withholdings afresh.    *)
Withheld(e) ==
    CASE e.type = "withholding" /\ e.device \in registered           -> withheld \cup {e.device}
      [] e.type \in {"registered", "disconnected", "granting"}       -> withheld \ {e.device}
      [] OTHER                                                       -> withheld

(* handleSwitchStateChanged, of a position confirmed: it is recorded once   *)
(* the layout has the junction's marker; markers are not pruned here.       *)
SwitchStateChanged(j, position) ==
    \/ confirmed' = [confirmed EXCEPT ![j] = position]
    \/ confirmed[j] = None /\ UNCHANGED confirmed

Receive ==
    /\ hw.events # <<>>
    /\ LET e == Head(hw.events)
           d == e.device
       IN  /\ registered' = CASE e.type = "registered"   -> registered \cup {d}
                              [] e.type = "disconnected" -> registered \ {d}
                              [] OTHER                   -> registered
           /\ withheld' = Withheld(e)
           /\ IF e.type \in Position THEN SwitchStateChanged(d, e.type) ELSE UNCHANGED confirmed
    /\ hw' = [hw EXCEPT !.events = Tail(@)]
    /\ UNCHANGED <<tableVars, edits, orders>>

OrdersFor(d) ==
    CASE d \in Junction -> Position
      [] d \in Gated    -> {"hold", "release"}
      [] d \in Train    -> {"go", "halt"}

(* The scheduler throws points, and clears trains; an operator's requests   *)
(* to the server hold a gate, and release it.                               *)
Order(d, order) ==
    /\ orders < MaxOrders
    /\ d \in registered
    /\ orders' = orders + 1
    /\ hw' = [hw EXCEPT !.commands = Append(@, Command(d, order))]
    /\ UNCHANGED <<tableVars, serverVars, edits>>

(* A train without power hears nothing.                                    *)
Driven(train, order) ==
    IF ~train.powered THEN train
    ELSE [train EXCEPT !.cleared = order = "go", !.moving = order = "go"]

Obeyed(h, d, order) ==
    IF d \notin h.devices THEN h
    ELSE CASE order \in Position -> [h EXCEPT !.points[d] = order,
                                             !.events = Append(@, Event(d, order))]
           [] order = "hold"     -> Hold(h, d)
           [] order = "release"  -> Release(h, d)
           [] OTHER              -> [h EXCEPT !.trains[d] = Driven(@, order)]

Obey ==
    /\ hw.commands # <<>>
    /\ LET c == Head(hw.commands)
       IN  hw' = Obeyed([hw EXCEPT !.commands = Tail(@)], c.device, c.order)
    /\ UNCHANGED <<tableVars, serverVars, edits, orders>>

Tick(t, r) ==
    /\ hw.trains[t] # None /\ hw.trains[t].moving /\ hw.trains[t].pose # None
    /\ r \in (Rail \cap pieces) \ {hw.trains[t].pose}
    /\ hw' = [hw EXCEPT !.trains[t].pose = r]
    /\ UNCHANGED <<tableVars, serverVars, edits, orders>>

Next ==
    \/ \E r \in Rail : Lay(r)
    \/ \E t \in Train, r \in Rail : MovePiece(t, r) \/ Tick(t, r)
    \/ \E p \in Piece : DeleteSelected(p) \/ DetachPiece(p)
    \/ \E d \in Device : HandleScanConfirm(d)
    \/ \E t \in Train : TogglePower(t)
    \/ \E g \in Span : ToggleBridgeSpan(g)
    \/ \E j \in Junction, position \in Position : SetSwitch(j, position)
    \/ PageHide
    \/ Receive \/ Obey
    \/ \E d \in Device : \E order \in OrdersFor(d) : Order(d, order)

Spec == Init /\ [][Next]_vars

-----------------------------------------------------------------------------
(* What devices say, and what they are told. *)
Announcement ==
    [device : Device, type : {"registered", "disconnected"}]
        \cup [device : Gated, type : {"withholding", "granting"}]
        \cup [device : Junction, type : Position]

Commanded ==
    [device : Junction, order : Position]
        \cup [device : Gated, order : {"hold", "release"}]
        \cup [device : Train, order : {"go", "halt"}]

Hardware ==
    LET Points == [Junction -> Position \cup {None}]
        Trains == [Train -> Bench \cup {None}]
    IN  [topology : SUBSET Track, lastLive : SUBSET Device, lastPieces : SUBSET Piece,
         lastPoweredOff : SUBSET Train, devices : SUBSET Device,
         points : Points, switchPositions : Points, savedPoints : Points,
         holding : SUBSET Gated, gateWithholds : SUBSET Gated, savedWithholds : SUBSET Gated,
         trains : Trains, savedTrains : Trains,
         events : Seq(Announcement), commands : Seq(Commanded)]

(* Every variable has its type; the devices at work are those that are     *)
(* live and on the table, and nothing that was deleted is switched off.    *)
TypeOK ==
    /\ pieces \subseteq Piece /\ liveIds \subseteq Device /\ poweredOff \subseteq liveIds \cap Train
    /\ place \in [Train -> Rail]
    /\ hw \in Hardware /\ confirmed \in [Junction -> Position \cup {None}]
    /\ hw.devices = liveIds \cap pieces
    /\ {t \in Train : hw.trains[t] # None} = hw.devices \cap Train
    /\ registered \subseteq Device /\ withheld \subseteq registered \cap Gated
    /\ edits \in 0..MaxEdits /\ orders \in 0..MaxOrders

Quiet == hw.events = <<>> /\ hw.commands = <<>>

(* A junction whose points are unset is closed in the physical network, so *)
(* what lies beyond could never be driven to or discovered (spawnSwitch):  *)
(* however often the world is rebuilt, a junction that is live has its     *)
(* points set, or a command that will set them is on its way.              *)
PointsAreSet ==
    \A j \in Junction \cap hw.devices :
        hw.points[j] = None => \E i \in DOMAIN hw.commands : hw.commands[i].device = j

(* Three records of one turnout: its physical position, the position that   *)
(* ToyHardware commanded, and the one the server has seen confirmed.  When  *)
(* no message is under way and the two records agree, the points lie so,    *)
(* although either side throws them and every edit sets them anew.          *)
AgreedPointsLieSo ==
    Quiet => \A j \in Junction \cap hw.devices :
        confirmed[j] # None /\ confirmed[j] = hw.switchPositions[j] => hw.points[j] = confirmed[j]

(* A gate and the server never disagree for good on whether it withholds,   *)
(* although edits replace the gate by one that has forgotten, and messages  *)
(* of its predecessor may still be on their way (capability_state is        *)
(* initialised afresh by every registration).                               *)
GatesAgree == Quiet => withheld \cap hw.devices = hw.holding

(* A train or a plain gate that was deleted, or whose page was closed, is   *)
(* forgotten by the server (announceDepart, handlePageHide), however its    *)
(* departure and the registrations of rebuilds follow upon each other.      *)
DepartedAreForgotten ==
    Quiet => registered \cap (Train \cup Gate) \subseteq liveIds

(* An edit of the table leaves a train where it is, if its own piece is not *)
(* moved and the rail below it stays (snapshotTrainState; the test "a       *)
(* RUNNING train keeps its pose + keeps moving when track is edited         *)
(* elsewhere"; togglePower: "inert at its current position").               *)
TrainsStayPut ==
    [][\A t \in Train :
          LET old == hw.trains[t]
              new == hw'.trains[t]
          IN  edits' # edits /\ old # None /\ new # None
                  /\ place'[t] = place[t] /\ old.pose \in pieces'
              => new.pose = old.pose]_vars
=============================================================================
