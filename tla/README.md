# TrainFrame, specified

TrainFrame runs model railways: devices (locos, switches, gates, zones) talk to
a server over a broker, and the **scheduler** in
`src/packages/core/src/scheduler` decides which train may enter which block of
track.  This directory specifies the scheduler, the devices it commands with the
broker between them, the way the server learns a track, a railyard that takes
trains over from the scheduler, and the table on which all of it is edited, in
TLA+.  TLC checks them on small railways, and TLAPS proves the main safety promises of
the planner, the scheduler, the railway it runs, the yard, the table and the learning
server for every railway.

1. [The system](#1-the-system) -- inventory of components
2. [The modules](#2-the-modules) -- what models what
3. [What is checked](#3-what-is-checked) -- runs, bounds, fairness
4. [What is proved](#4-what-is-proved)
5. [Known divergences](#5-known-divergences) -- where code and documents disagree
6. [Not modelled, and the plan](#6-not-modelled-and-the-plan)

To repeat the work: `tlc -config interlock.cfg MCScheduler.tla` (each run's
module and configuration are in `PROJECT.json`), and `tlapm SchedulerProofs.tla` (and so
on for each module of proofs).

## 1. The system

| Component | State it keeps | Operations | What makes it correct |
|---|---|---|---|
| Scheduler (`core/scheduler/scheduler.ts`) | trains in registration order; per train last marker, cleared edges, route, schedule, hold, dwell; requested switch positions; zone boundaries; deadlock banner | marker reports, statuses, clearance requests, switch/gate/zone events, registrations and disconnects, assign/revoke/reanchor/confirm/reset | block exclusivity; no lost wakeup; a deadlock is resolved or reported; no train loses the track under it |
| LayoutState (`layout-state.ts`), TagRegistry | graph of markers and edges, traversal counts, confirmed switch positions, pairings, learned times; bindings of tags | upsert, traverse, prune, reset; assign | declared track never disappears; what is learned is a way some train went |
| Planner (`planner.ts`) | none | `planTransit` | legal, shortest, found when there is one |
| Gating capabilities (`core/builtins`) | withheld markers, zone occupancy | record, consult, forget | a denial binds every path that grants; agrees with the device in the end |
| Train device (`simulator/devices/scheduled-train-device.ts`) | route, limit, edge it believes it is on, power, exploring | drive, report, reverse, explore, power off and on | never past its limit, however late it hears of it |
| Switch and gate devices | position; withheld | obey, report | confirm what is true |
| Yard (`yard-zone-device.ts`, `yard-controller.ts`) | residents, where the spares stand, phase of the service | admit, serve, release | one mover; everyone suspended is released; stays behind the throat |
| Server (`server/server.ts`) | retained-topic ledger | decode, call the scheduler, publish effects, reset, delete, prune | order of effects; a reset leaves nothing behind |
| Learn mode (`server/learn-mode.ts`) | exploration session | start, latch, review, stop | nobody explores unwatched; learning ends |
| Toy table (`ToyTable.tsx`, `use-toy-hardware.ts`, `toy-hardware.ts`) | pieces, live ids, power; the simulated world and its devices; what a rebuild saves | place, move, delete, drag off, scan, power, throw, raise; reconcile; tick | an edit loses no train, points or withholding that it should keep, and forgets what was deleted |
| Other controllers (depot, ladder yard, bridge, turntable, crane) | shunting programs | sequences of device commands | interlock with the gate; progress |
| Physics, geometry, rendering, protocol | -- | -- | outside a finite-state model |

**Interaction.**  The server calls `Scheduler.handleEvent` or an operator
command, synchronously, on one thread; the scheduler changes its state and
returns *effects* (commands and state snapshots) that the server publishes; then
learn mode sees the same event, and reads what the scheduler made of it.
Devices answer with further events, at any later time and in any interleaving
with the events of others.  Capabilities are called back by the scheduler before
every grant.  Nothing in the scheduler is concurrent: what is hard about it is
that almost every handler ends with a pass over *all* trains
(`retryBlockedClearances`), that such a pass grants, throws switches, resolves
deadlocks by taking blocks back and starts again, and that the events of several
devices reach it in an order nobody chose.  Around it, every pair of components
keeps its own record of the same thing (where a train is, where points lie,
whether a gate withholds, which topics are retained, where a yard's spares
stand), joined only by messages that are late, lost, or from a device that has
been replaced since.

**Hard behaviours** (the hazards of `PROJECT.json`, each at its line): two trains
cleared into conflicting blocks by any order of events; a release that nobody is
woken by; a pass that considers a train too early; a walk over the route that
leaves a gap; points moving under a train; a tail that still stands on a block
being released, yielded or reversed out of; a train whose position is in doubt
losing, or gaining, ground; a denial that some path forgets to ask for;
planning and advancing calling each other forever; circular waiting; commands and
reports that come late, get lost, or find a train without power; sessions that end
while their train has yet to hear of it; reports of several trains taken for one
way; a camera that does not tell trains apart; a device made anew by an edit while
messages of its predecessor are on their way; a server that starts again under a
railway that has not.

## 2. The modules

| Module | Models | Lines of code it stands for |
|---|---|---|
| `Track` | edges, and when two blocks conflict | `types.ts`, `edgeSharesMarker` |
| `Clearance` | **abstract specification**: who may hold which block and how holdings change | ADR-002, ADR-011, ADR-019 as the code realises them |
| `SchedulerState` | the scheduler's variables and every question it asks of them: conflicts, denials, the walk over the horizon, who waits for whom, cycles, who yields, who can back up and how far, where a tail is | read-only methods of `scheduler.ts`, `layout-state.ts`, `gates-*.ts` |
| `Scheduler` | one action per event handler and operator command; the properties of the scheduler by itself | all handlers of `scheduler.ts` |
| `Orderly` | the scheduler again, in a world where nothing goes wrong: the events that obedient devices bring about, and what is asked of railway, trains and planner for that | the same handlers, on the paths left to them |
| `Planner` | `planTransit`: the search turn by turn, and the route read back from it | `planner.ts` |
| `Routing` | **reference definition**: the routes a train may take, their lengths, and every question that can be put to the planner | -- |
| `Operations` | the scheduler together with obedient devices: trains that drive, report, dwell and reverse, switches that confirm | `scheduled-train-device.ts`, `switch-device.ts` |
| `Delivery` | the scheduler, trains and switches joined by queues that delay and lose messages, with batteries that die and are changed | `scheduled-train-device.ts`, `switch-device.ts`, `server.ts`, `mqtt-client.ts` |
| `Discovery` | a railway without a map: tags, learning by traversal, learn mode's session, the admin API, the ledger of retained topics, reset and crash | `learn-mode.ts`, `server.ts`, `layout-state.ts`, discovery paths of `scheduler.ts` |
| `Yard` | a railyard behind its throat: the zone device, the controller that shunts, the scheduler's side of the zone, trains and carriages | `yard-zone-device.ts`, `yard-controller.ts`, zone handlers of `scheduler.ts`, `gates-zone.ts` |
| `Workbench` | the toy table, the reconciliation after every edit, the simulated hardware with what its rebuilds save, the broker, and the server's records of its devices | `ToyTable.tsx`, `use-toy-hardware.ts`, `toy-hardware.ts`, `gate-device.ts` |
| `PlannerProofs`, `SchedulerProofs`, `OrderlyProofs`, `OperationsProofs`, `DeliveryProofs`, `YardProofs`, `WorkbenchProofs`, `DiscoveryProofs` | theorems | -- |
| `MCPlanner`, `MCScheduler`, `MCOperations`, `MCDelivery`, `MCDiscovery`, `MCYard`, `MCWorkbench` | small railways for TLC | -- |

`SchedulerState` EXTENDS `Track`; `Scheduler` EXTENDS `SchedulerState` and
instantiates `Clearance` (`cleared` and `held` mapped to its own) as its promise;
`Operations`, `Delivery` and `Orderly` EXTEND `Scheduler` (`Orderly` with a next-state
relation that allows less, and implies it); `MCOperations` and `MCDelivery` extend `Orderly`
too, to have its hypotheses evaluated.  The MC modules of the first two and `MCScheduler` instantiate `Planner` and hand its answers to the scheduler's constant `Plan`.
`Routing` EXTENDS `Planner` and judges its answers by a definition that has no search in it.
`Discovery`, `Yard` and `Workbench` stand alone: each has the part of the scheduler
that its question is about (trains without a schedule; one throat; registrations
and withholdings), because the product with the full scheduler would be out of
reach and would say nothing more about it.

### State

`TrainState` is split in three: `cleared[t]` (`cleared_edges`) and `held[t]`
(`block_reason = 'unknown_topology'`) are variables of their own, because
`Clearance` is about just these; the rest of the record is `trains[t]`.  Indices
count from 1.  `known` and `position` are LayoutState's edges and confirmed
switch positions; `requested` is `requestedSwitchPositions`; `withheld`, `full`
and `boundary` are the capabilities' maps; `deadlock` is the banner.

### Run to completion

`Head(agenda)` is the call the running handler is in.  A handler is *one* action
for its own statements, followed by the tasks it leaves on `agenda` in call order:
`plan` (`planAndExecuteCurrentTransit`), `extend` (`extendClearanceHorizon`) and
`retry` (`retryBlockedClearances`, with the trains it has still to consider; an
empty set leaves `resolveDeadlockOrEmitState`).  Events require `Idle`, an empty
agenda, so tasks are never interleaved with events: the decomposition adds
intermediate states, in which the order of the code can be observed, and no
behaviour the code does not have.

### What is abstracted

* Marker ids, device ids and switch positions are model values.  Effects are not
  kept: their consequences are, as state.
* `extendClearanceHorizon` looks ahead for a number of milliseconds, estimated
  from learned times, between a floor and a ceiling of edges.  The model chooses
  any number of edges between the two.
* Distances and lengths are small integers; `EdgeLength` is `None` where the
  layout gives none.  The dwell clock is a Boolean of the status that may end it.
* `planTransit` is a constant operator with only the assumption that a route is
  made of edges of the graph, or the edge the train reports to be on; in every
  run it is `Planner`'s, of which that assumption is proved (`PlanFollowsTheGraph`).
* The frontier of the search is a set: the order of its entries decides only which of two
  equally cheap ones goes first, and the model fixes none (`CHOOSE`): what is proved holds
  whichever it is.  The loops of `planner.ts`
  are recursive functions over a bounded number of turns; that the bound is never what
  ends them is part of the proofs.
* Where two held blocks lead back to one marker (`collectTailReleases`,
  `computeReverseTarget` take the first in insertion order) either may be taken.
* Tag resolution is left out: reports name markers.  Markers owned by zones are
  not declared in the model.

### The world of `Operations`

Three history variables describe the trains themselves: `behind` (blocks crossed),
`ahead` (blocks backed out of) and `offset` (head past its last marker).  A train
drives when its next edge is granted, reports truthfully and in order, reports all
along each edge, reverses when told if it can, and believes in a route that is a
cycle (`advanceEdge`), so that after its last edge it names the first.  Switches
confirm what they were last asked.  Commands arrive at once.  Timetables are given
out once, after every switch has registered.

### The queues of `Delivery`

`toTrain`, `fromTrain`, `toSwitch` and `fromSwitch` hold what is under way, one queue
per sender and receiver, in order.  `Schedule` is a step of the scheduler's handler
together with the commands it emits (`Told`); events are received when the agenda is
empty.  `loco` is the device's own state, `body` where the train really is, with the
block behind that its tail may still be in.  Faults are a lost message, taken from the
front of any queue, and a train that loses its power; `PowerCycleSpec` adds that power
returns.  Messages are never duplicated: simulator and toy table publish at QoS 0,
the server at QoS 1 with a clean client, and nothing in the code retries.

### `Discovery`

Tags are places, one each; `Way` is where the rails really lead.  Three histories
compare the graph with what happened: `arcs` (ways trains went, or were carried),
`gaps` (places read unbound) and `orphans` (trains exploring when the server crashed).
What the broker retains is kept topic by topic: `retained` are the topics of single trains
and tags that were ever published, `live` those whose last payload is not an empty one,
`drawn` the layout as last published.  The server's ledger hears of a topic by its own
subscription (`Record`); until then the topic is in `echo`.  A crash empties the ledger and
has the broker replay everything to the new one; what was live then and nobody published
again is in the history `ghosts`.  A reset publishes an empty payload for each topic of the
ledger whose family has one.  A train that is switched on again while it is registered
keeps its place in the order and its last marker.  The operator waits for the panel to show
what was asked; requests to the admin API, which bypass the broker, need not wait.

### `Yard`

A road is one place, and so are throat, lead and line.  `status` is the scheduler's
view of a train, `residents` and `service` the device's, `place`, `rake` and `stock`
the truth.  The points at either end decide where a train that is driven gets to.
Timers in the controller are kept only as far as they order a look before a step.
A released train stands on the lead as long as the line ahead is not clear, and nothing
keeps the next one from being pulled out of its road meanwhile.  The history `misled` says
that the camera over the lead was asked for a train pulled clear while another one stood
there; from then on the yard's records and its trains may be anywhere apart, and nothing
new is begun (`Tended`, a bound).

Trains and zone device have one queue to the server.  Wherever the repository puts a yard
together, one program drives both over one connection to the broker (`App.tsx`,
`physics-env.ts`, the integration tests' `harness.ts`), and a broker keeps the order of a
connection; so a release comes after the report of the entry it belongs to, and the branch
that drops it (`scheduler.ts:654`) is not taken.  With a connection each, a release that
overtook the report would be dropped and the train stay suspended.

### `Workbench`

`hw` is `ToyHardware` with its fields under their own names; `savedPoints`,
`savedWithholds` and `savedTrains` are its `pending...` maps.  Every action of the
operator ends with the hook's effect (`Reconcile`: `SyncLayout`, `SyncLive`,
`SyncPower`).  Positions on the table are the rail under a body.

## 3. What is checked

| Run | Railway | Question | Result |
|---|---|---|---|
| `planner` | every sub-graph of five markers (ring, diagonal, spur, one turnout), uneven, unknown and zero lengths, every start, target and heading | is a route legal; with nothing to cross from leg to leg, is it found and shortest | holds |
| `interlock` | single line a-b-c-d both ways with points at b, two trains that want from b to d, reader may skip c; every event and command in every order | types, exclusivity, refinement of `Clearance`, no pass leaves anybody behind, doubtful positions stay guarded, points thrown for one train only, yields and reverses clear a peer's way | holds |
| `zones` | ring of three with a gate and points at b and a zone behind c; one train; every event, explicit requests, changing length | no grant against a denial or across a gap | holds |
| `loop` | ring with a passing loop, points at its entry; two trains of length 1 on blocks of 2, one with a stop given twice; horizon 2 to 3 | track under a train is its own; points set for the holder; no holes ahead; nobody forgotten; handlers end; every train keeps calling | holds |
| `standoff` | single line of five markers both ways, two trains as long as a block, bound for opposite ends | yields and reverses leave the track under trains alone; the banner is right | holds |
| `delivery` | ring with a branch, points against the route at first, two trains of length 1 on blocks of 2, up to 4 messages a queue, one fault | a train stays on its own track, on a limit backed by held blocks the points lead to; what it crossed unreported stays held | holds |
| `discovery` | ring of two with a siding from a terminus, two trains, one mishap and a reset | the graph is what trains did; nobody explores unwatched; what is retained is what the server knows; learning a ring ends | holds |
| `yard` | three roads, room for two, three trains with 3, 1 and 2 carriages, one edit of the track | spares where remembered; empty roads; one mover; across the throat only when misled, and till then everyone released | holds |
| `workbench` | two rails, turnout, lift bridge, gate and train; four edits, two commands, up to 3 messages under way at an edit | points set, or about to be; agreed points lie so; gates agree; the deleted are forgotten | holds |
| `power_cycle`, `yard_lead`, `edited_table` | as `delivery`, `yard`, `workbench` | a statement of the documents or comments | violated: section 5 |

`MCScheduler` puts the scheduler in a *hostile* world: every report, from any
device, in any order.  `MCOperations` puts it in an *orderly* one, `MCDelivery` in one
where everybody means well and hears late.  A property belongs to the first if it must
hold whatever devices do (`Exclusive`, grants, denials, types), to the others if it
also speaks about where trains are or what eventually happens.

**Bounds.**  `Reports`, `Requests`, `Schedules`, `GateMarkers`, `ZoneMarkers`,
`Distances`, `Lengths`, `MemoryLength` bound what can be said to the scheduler.
Conflicts, gaps and waits among two trains need three blocks, which the
line of four markers (six directed blocks, and the one a skipped marker
suggests) and the ring have; the line's end blocks can be asked for, so that each of
two trains at b can be left with one when they stand off over the middle; the loop is longer than both trains and their
horizons together, so that trains follow, wait and overtake; the line of five
leaves room to back up.  The look-ahead is 2 (at most 3) edges, which is where
walks, gaps and partial grants first appear.  `MemoryLength`
(3 blocks crossed) is more than any train of these runs is long.  Statuses come with distance 0 or 1 on
blocks of length 2, so a tail of length 1 leaves before, with, or after a report.
`Room`
(4 messages) is two reports with their statuses, by which a train is a whole block ahead
of what the scheduler knows; one fault is enough for a report, a grant or a
confirmation to be missing while everything else is late, and a second one only makes
a train stand.  In `discovery` one mishap can be any of carrying, deleting, restarting while registered,
pruning, resetting or crashing, at every point of a session, and a reset may follow it;
a device that was forgotten may start again at any time.  `Confirm` is 2 because the
first crossing infers and the next confirms.  In `yard` room for two means that one
resident waits while another is served and a third is held out.  Four edits are what a
device needs to be scanned, used and deleted, and a rail to be deleted and laid again, and `MaxQueued` lets a whole
rebuild's registrations be on their way while the next edit is made.
No variable is unbounded.

**Symmetry.**  `interlock` declares its two trains interchangeable:
priorities and lengths are equal, ranking is by registration order, which is state;
no liveness property is checked there.

**Deadlock.**  In `MCOperations` the railway may come to rest: two trains that wait
for each other and can neither yield nor reverse are reported and stand until
somebody intervenes.  Those configurations switch deadlock checking off; whether
trains that can move do is `KeepsCalling`'s business, and in `loop` they do.  In
`delivery` a fault may stop the railway for good, and in `workbench` the bounded edits
run out; both say nothing about progress.  A `yard` whose camera was misled may stand still:
its train is where the controller does not look for it.

**Fairness.**  `Schedule` is weakly fair: a handler is a synchronous call.  The
events of `Operations` are strongly fair, because an event that is ready stays
ready except while some handler runs: the process takes events one at a time from
a queue in order and drops none.  A status that may end a dwell comes in the end.
Nothing is assumed about operators.  In `discovery` the broker delivers (weak fairness
of `Record`, `Receive`, `Obey`: a message that waits goes on waiting until it is
handled) and a train whose motor runs reaches the next tag (`Run`).  In `yard` the
events are handled in order, the device ticks, driven trains get somewhere, and two
things outside the code are assumed (`FairSpec`): the line ahead of the yard is clear at times
(`Onward`), and the operator has stabled something to swap with (`Stable`); without
either a visitor does wait forever, and the code means it to.

**Mutants.**  Each property is paired with a plausible slip in the code that breaks
it (`PROJECT.json`, "mutants"; the mutated forms stand next to the definitions,
marked *Mutant*).

## 4. What is proved

For all railways, trains, devices, priorities, lengths, schedules, planners and
horizons that satisfy the assumptions below, with no bound on anything:

| Theorem | States |
|---|---|
| `SchedulerProofs!TypeCorrect` | `Safety => []TypeOK`: records stay well-typed and coherent (a stop pointer inside its list, tasks only for trains that can be planned) |
| `SchedulerProofs!Implementation` | `Safety => ImplementsClearance`: each step of each handler is a step of `Clearance` or leaves clearance alone |
| `SchedulerProofs!Exclusivity` | `Safety => []Exclusive` |
| `SchedulerProofs!DenialBinds` | `Safety => NoGrantAgainstDenial` |
| `SchedulerProofs!SuspicionStaysGuarded` | `Safety => HeldKeepsItsGround` |
| `SchedulerProofs!GrantsLeaveNoGap` | `Safety => NoGrantAcrossGap` |
| `SchedulerProofs!PointsAreThrownForOne` | `Safety => SwitchNotThrownUnderPeer` |
| `SchedulerProofs!NobodyIsLeftBehind` | `Safety => []PassLeavesNobodyBehind` |
| `SchedulerProofs!ResolutionIsSafe` | `Safety => ResolutionVacates` |
| `SchedulerProofs!Guarantees` | `Spec` implies all of the above |
| `OrderlyProofs!OrderPrevails` | `PlansAreWays /\ OrderlySpec => []Orderly`: each train keeps to a way, holds it from its head on without a gap and at most one block behind; nobody yields, reverses or is held |
| `OrderlyProofs!OrderSettles`, `BannerIsTrue` | ... `=> []Settled`, `[]DeadlockReported`: between handlers nobody waits for what is free, and the banner is up if and only if trains wait for each other |
| `OrderlyProofs!PointsAreSet` | with `LongTrainsOffJunctions`, `[]Points`: whoever holds the block beyond points has them set, or asked for with everybody else kept away |
| `OperationsProofs!OperationsAreOrderly` | with `ShortTrains`, `OpsSpec => OrderlySpec /\ []Orderly /\ []TrainsInStep`: obedient devices bring about nothing else, and are where the scheduler has them |
| `OperationsProofs!ClearanceHasNoHoles`, `NobodyIsForgotten` | ... `[]ContiguousAhead`, `[]NobodyForgotten` |
| `OperationsProofs!PointsAreSetForHolders` | ... `[]PointsSetForHolder` |
| `OperationsProofs!TrainsStandOnTheirOwn` | ... `[]TrackUnderTrainIsHeld` |
| `DeliveryProofs!DeliveryIsScheduling` | `InputsCovered /\ PowerCycleSpec => Safety`: the railway run by message implements the scheduler |
| `DeliveryProofs!DeliveryKeepsGuarantees` | both specifications of `Delivery` imply what `SchedulerProofs!Guarantees` has |
| `DeliveryProofs!TrainsStayOnTheirTrack`, `LimitsAreBacked`, `UncertainRegionsAreHeld` | with `PlansAreWays`, `LongTrainsOffJunctions`, `PointsDecide`, `TrainsFitBlocks`: `ArrivingSpec => []StaysOnItsTrack`, `[]LimitIsBacked`, `[]UncertainRegionHeld` (together: `MessagesMayBeLate`) |
| `OperationsProofs!OperationsAreScheduling` | `TimetablesCovered /\ OpsSpec => Safety`: so does the railway of `Operations` |
| `SchedulerProofs!PromiseIsExclusive` | `Promise!Spec => []Promise!Exclusive`: the rules of `Clearance` alone keep blocks apart |
| `PlannerProofs!RoutesAreLegal` | `Spec => []RouteIsLegal` of `Routing`: on every finite graph, turnouts or no |
| `PlannerProofs!RoutesAreShortest` | `Spec => []RouteIsCheapestOnPlainTrack` |
| `PlannerProofs!RoutesAreFound` | `Spec => []RouteIsFoundOnPlainTrack` |
| `PlannerProofs!PlanFollowsTheGraph` | the planner has what `PlanAssumption` asks of it |
| `YardProofs!SparesAreWhereRemembered` | `Spec => []SparesStandWhereRemembered` |
| `YardProofs!OneTrainMoves` | `Spec => [](misled \/ OneMover)` |
| `YardProofs!RoadsEnteredAreEmpty` | `Spec => EntersEmptyRoad` |
| `YardProofs!CrossingTakesAnotherOnLead` | `Spec => OnlyMisledCrossesThroat` |
| `WorkbenchProofs!LivePointsAreSet` | `Spec => []PointsAreSet` |
| `WorkbenchProofs!AgreementIsTrue` | `Spec => []AgreedPointsLieSo` |
| `WorkbenchProofs!GatesComeToAgree` | `Spec => []GatesAgree` |
| `WorkbenchProofs!DepartureIsHeard` | `Spec => []DepartedAreForgotten` |
| `DiscoveryProofs!LearnedWaysExist` | `Spec => []LearnedIsTravelled` |
| `DiscoveryProofs!NoTrainWandersOn` | `Spec => []NobodyExploresUnwatched` |
| `DiscoveryProofs!NothingElseIsRetained` | `Spec => []RetainedIsKnown` |
| `TypeCorrect` of `YardProofs`, `WorkbenchProofs`, `DiscoveryProofs` | `[]TypeOK`, of each (`[](misled \/ TypeOK)` of the yard) |

In the theorems of the scheduler `Safety` is `Init /\ [][Next]_vars`, and `Spec` adds the
fairness of the handlers, which only `HandlersTerminate` needs.

**Assumptions.**  `LayoutAssumption` (edges join markers, switched edges are
declared, only declared edges have lengths), `TrainAssumption` (finitely many
trains), `HorizonAssumption` (floor at least 1, ceiling not below it),
`PlanAssumption` (a route uses edges of its graph or the reported one),
`EventAssumption` (inputs have their types; no schedule is empty).  `GraphAssumption` (of
`Routing`: there are finitely many markers, a length is a natural number or unknown).  `RailwayAssumption` (of
`Delivery`: timetables are not empty, no train reverses or is longer than a block) and `TimetableAssumption` (of `Operations`:
timetables are not empty, the bound on what is remembered is a number).  TLC
evaluates each of them in the runs above.  `InputsCovered` is a hypothesis of the
theorems about `Delivery`, not an assumption: the scheduler's inputs are bounded sets in
the runs, and for any train to be able to report any distance they must be all of `Nat`.
`TrainsStayOnTheirTrack` and the two beside it are about `ArrivingSpec`: `DeliverySpec` in which
what is lost is never a report or a route (`ReportsAndRoutesArrive`).  Queues still delay them
for as long as they like; grants, commands to switches and their confirmations may be lost, and
trains lose their power.
`TimetablesCovered`, of the theorems about `Operations`, says of timetables what
`InputsCovered` does.  The hypotheses of `Orderly` are what a railway and its trains must be
like, and section 5 has what happens where they are not:

* `PlansAreWays`: a route joins on from block to block, from where the train is to where it
  shall go, and comes back to no marker.  So does each of the planner's, for a heading that
  starts where the train is not.
* `LongTrainsOffJunctions`: every train has a length, and none starts at a junction.  A train
  that holds nothing at a junction and has points moved there is the case in which they move
  under a peer.
* `ShortTrains`: blocks are measured, no train is longer than one, and each reports on every
  block at least once with all of it on that block.  Otherwise a tail is on two blocks behind,
  and the scheduler knows of one (`scheduler.ts:1598`).
* `PointsDecide`: where two blocks leave a marker, each belongs to a position of points of its
  own.  Track is run one way, that is, as `Delivery` has it throughout: a head that is past a
  marker goes wherever the rails lead, and trains do not reverse.
* `TrainsFitBlocks`: there are finitely many blocks, and every train is shorter than each.

TLC evaluates them in `delivery` and `power_cycle` (`PunctualRailway`: all but `ShortTrains`, which
is not used there) and the first three in `loop` and `standoff` (`OrderlyRailways`): all hold in `loop`, and all
but `ShortTrains` in `standoff`, whose trains never report to be wholly on a block.  What is proved
without `ShortTrains` is about any device that is orderly; for the trains of `standoff`, that
yield and back out, the four properties of `Operations` rest on TLC.

`YardAssumption` (two roads or more, each listed once; every train
comes with carriages), `WorkbenchAssumption` (a piece is of one kind; `Laid` and
`Placement` are of pieces and rails) and `TableAssumption` (rails lead from place to
place; a count confirms from one crossing on) have besides only that `None` is no other
value and that bounds are numbers; the bounds themselves may be any.

**Argument.**  `TypeOK` is inductive as it stands, once it says that a train with a
schedule has a last marker and a pointer into its stops and that only such trains
are planned: that is what `Advanced` and `PlanAndExecuteCurrentTransit` need.
`Exclusive` is not inductive over the scheduler by an argument of its own; it
follows from the refinement.  `StepsHaveEffects` classifies every step of every
handler: it leaves clearance alone, grants to one train what was found `Grantable`,
takes blocks from one train that is not held, suspects or recovers one train, or
forgets all.  Each of these is a step of `Clearance` (`StepSimulation`), and
`PromiseIsExclusive` says that those keep `Exclusive`: a claim needs the block free of
all others, and doubt ends with everything held, so that an overlap that was only
tolerated while a train was held cannot outlive the hold.  The action properties
rest on `TypeOK` and on one lemma each about the walk (`WalkLeavesNoGap`,
`ThrowIsNeeded`, `ExtendGrants`).

`PassLeavesNobodyBehind` speaks of the end of a pass only, and is not inductive.  `PassInv`
adds what makes it so: in the middle of a pass, no waiting train that had its turn could
have its next edge (`Served`), and a pass that has yet to begin has every registered train
before it (`AllCovered`).  A grant to one train keeps `Served` because a pass only ever
adds to what others hold, moves points only where nobody stands, and ends nobody's
withholding (`ConflictsOnlyGrow`, `WalkFreesNothing`); a resolution, which does free
blocks, starts the pass over.

`ResolutionVacates` rests on the shape of what a resolution takes.  What a victim is in
the way of is the next edge of a train that waits (`SomebodyWantsIt`).  The blocks a
train reverses out of form a run with no marker twice, so that none of them leads to
where the train comes to stand (`RetreatClearsTheHead`); distinctness is a count of
markers in the code, and becomes injectivity by the library's theorem on surjections.

The properties of `Operations` are not of every railway, and the argument is in two parts.
`OrderlyNext` has the events that may happen where devices do as they are told: a train
passes the marker at the end of a block it holds, or says which block its head is on; a
switch says where it was asked to go.  Of it `Orderly` is inductive (together with `TypeOK`): what a
train holds is a run of its way that starts at its head, and at most one block behind (`HoldsInOrder`); nobody is held, so nothing is
recovered (`Quiet`); and a handler comes down to one plan at most and one pass over
everybody (`InShape`).  A train
that waits holds nothing ahead of it, so that there is nothing a yield could take that
its peers wait for, and nothing it could reverse out of (`NobodyIsResolved`): passes only ever add.
Therefore a pass that has visited everybody leaves nothing to be had, and every event that
frees a block, lifts a denial or moves points starts one (`Settled`); it also refreshes the banner.  For the
points, `SetFor` says where they lie for a holder, and two facts keep it: the train a
switch was asked to move for holds a block at the junction until the switch has answered
(`AskedFor`), and a train that is beyond the start of its way has its tail or a block there
(`Grounded`).  The second part is `TrainsInStep`: how far a train is past its last marker,
and which blocks it has behind it, agree with the scheduler's record, block for block.
Under `ShortTrains` the scheduler's account of the tail (a sum of lengths
over the blocks behind, `SumIsEnough`) then comes to an end within the first block; as
that sum is a recursive function over a set, its value is shown to exist first
(`SumExists`), by well-founded induction on the number of blocks.

`Delivery` adds the broker, the devices and the rails around the scheduler.  Of its own
state the argument needs only what can come back: a train believes itself on a block of
a route it was sent, a queue holds commands or reports of known shape, a head is on
declared track (`DeliveryTypeOK`, inductive together with `TypeOK`).  Then each step of
the railway is a step of the scheduler with an input from its sets, or leaves the
scheduler alone (`DeliverySimulates`).  Losing a message or a battery is of the second
kind: the guarantees survive because none of them depends on an answer.  `Operations` goes the same way, with
the ways its trains have behind them and ahead (`WaysTyped`) in place of the queues.

Where trains are while messages are late takes a second invariant of `Delivery`, `InOrder`.
Its first half is that of `Operations`, `Orderly` and `Points`: reports that come late, but in
order and without gaps, are still events of an orderly world.  Its second half joins the two
ends of the queues.  For each train there is a place `P` on its way where its head is, and for
each event under way the place from which it was sent (`idx`, which grows by one with each
marker and ends at `P`): so the queue tells, event by event, how the scheduler's record will
come to agree with the rails (`EventsFit`, `BodyFits`).  A tail may be let go of only by an
event that says the whole train is on its block, and no event before it does (`Clear`); hence
what the scheduler still counts as behind the train includes what is.  The other way, a device
that follows its route has for a limit the end of a block that is held, and every grant in its
queue extends it to a later one (`Follows`, `GrantsFit`); a device that has not heard of its
new route stands still (`Parked`), and the assignment comes before the grants.  `SwitchesInStep`
does for points what this does for trains: one message at most is between a switch and its
device, and points lie as confirmed or as asked for.  From these the blocks between any two places
up to the limit are held (`HoldsInOrder`), and points lead over them: nobody else can have
asked for them to move (`HeldBetween`).  A lost grant, confirmation or battery only takes from a
queue what nothing waits for, and leaves `InOrder` as it was.

The planner keeps one label per marker, so what has to be shown is that a label is not
overwritten once a route may lead through it.  `SearchInv` is kept by each turn of the loop
(`TurnIsSound`): costs and predecessors are on record for the same markers (`Shaped`), what
is settled is no dearer than anything in the frontier (`Ahead`), every predecessor is
settled and the move from it is one the train may make (`Moves`), and predecessors have a
lower *rank* (`Ranked`) -- an order of the search's own, because with edges of length zero
the costs do not give one.  Going back along predecessors therefore ends at the source,
repeats no marker, and takes fewer steps than there are labels (`TrailIsShort`): the route
is legal.  On plain track two facts more: a settled marker has had all its neighbours
considered (`Explored`), since the one move refused there, from leg to leg, could only have
led back; and each edge brings at most one entry into the frontier, so that the turns
suffice and the search is over when they are used up (`LoopIsOver`).  From these, a marker
on a legal run is either settled at no greater cost than the run's or the target is
cheaper still (`SettledOrDearer`).  On track with turnouts only legality holds; section 5
has the route that is missed.  Loops are recursive functions, and
induction over their turns is from the well-foundedness of the naturals (`LoopInduction`).

`Yard`, `Workbench` and `Discovery` have each one inductive invariant, whose parts say
what their safety properties leave unsaid, the state in the middle of things.

* `YardInv`.  The spares are where they are remembered *while nobody is served*; `Serving`
  follows the service through, phase by phase: where the train of the service is, which way
  the points lie for it, which cars are on it and which are left.  `OthersStand` says that
  nobody else moves, `Visits` matches what scheduler, queue and device each believe of a
  train (a report still under way, admitted, suspended, released), and `ResidentsWait` that
  those who wait stand in roads of their own.  Carriages are counted throughout
  (`Carriages`).  The theorems say that it holds until
  the camera over the lead is misled: a train still in its road is taken for clear of it
  only when another one stands on the lead.  `yard_lead` shows what comes of it then.
* `BenchInv`.  What the server will hold of a device is what it holds now, as changed by the
  messages under way, one after the other; the invariants about the server are about that
  (`GatesKnown`, `PointsKnown`, `DepartedForgotten`, `AtWorkRegistered`), by a fold over a
  queue that grows at one end and shrinks at the other.  `Reconciled` says that between
  edits the hardware is what the table shows; `PointsAreSet` is a part of it as it stands.
* `LearnInv`.  `UnderWay` says of a train that was seen at a marker that it has since passed
  only tags nobody had bound; that is what makes the next edge recorded one it travelled, and
  it needs the least set of places the train may have got to (`Reach`), as histories grow
  under it.  `SessionShown` relates the session to its snapshot, without which the panel's
  one button could start a second session over a first.  What is retained is matched with
  what is registered and bound through every publication (`RetainedIsKnown`), and every
  topic retained is in the ledger or on its way there.

**Only model-checked.**  Liveness (`KeepsCalling`, `HandlersTerminate`, `LearningEnds`,
`EveryVisitorIsReleased`), which is out of the prover's reach.  In
`Delivery`, `StaysOnItsTrack`, `LimitIsBacked` and `UncertainRegionHeld` when a report or a
route is among what is lost: after a lost report the next one seems to contradict the graph or
the route, which never happens in an orderly world, and after a lost route the grants are for
one that the train does not have; `delivery` has every such loss.
That the planner's routes are the
ways of `PlansAreWays` is proved for legality (`RoutesAreLegal`) and evaluated by TLC for
the rest.

## 5. Known divergences

Each of the following runs ends in a counterexample (`PROJECT.json`, "findings",
quotes what is contradicted):

* `power_cycle`: a train that has run to the end of its route believes itself on the
  first edge again.  With its power off and on it does not recognise that it stands at
  its limit, and drives on without clearance (`scheduled-train-device.ts:154`).
* `yard_lead`: the camera over the yard's lead sees a train that was released and still
  waits for the line, and takes it for the one being served; that one is stopped in its
  road and then backed out of the wrong end, across the throat (`yard-controller.ts:275`;
  `exit` has the same look).
* `edited_table`: `syncLive` rebuilds all devices after every edit, with nothing saved,
  so that the state that `syncLayout`'s rebuild has just restored is lost, and edits that
  change no track lose it too (`toy-hardware.ts:305`).  Trains return to where they were
  first placed, and stop.

The following were found in the same way, each as a counterexample to a property that
states the text quoted; the runs above keep clear of them as said:

* One label per marker: Dijkstra keeps one predecessor per marker, but whether a train
  may go on from a marker depends on where it came from (`planner.ts:196`).  A marker
  reached first from a turnout's leg hides the dearer way by which the train could have
  gone on, and `planTransit` answers null; `planner.ts:35` says null means unreachable.
  `RouteIsFoundOnPlainTrack` says where it does find a route.
* A held train is still walked by the next pass and granted blocks (`scheduler.ts:1015`),
  against ADR-019 ("no further grants").
* A schedule whose stops are all the marker the train stands at makes planning and
  advancing call each other without end (`scheduler.ts:2117`).
* A switch is asked to move for a train that holds nothing there yet; before it confirms,
  a peer is granted the branch the points still lead to, and they move under its
  clearance (`scheduler.ts:1166`, against the comment at `scheduler.ts:1131`).  It takes
  a train that starts at the junction itself, holding nothing there; no train of `loop` or
  `delivery` starts at theirs.
* Assigning a schedule to a moving train empties its clearance, the blocks under its tail
  included (`scheduler.ts:2054`).
* A reverse moves the train's last marker back but not its place in the route; the next
  walk starts beyond the block it must cross again (`scheduler.ts:1851`).

The following were met while modelling and are worked around in the runs above, as
said with each.  Scheduler and devices:

* A switch that registers after the train that needs it has been planned wakes nobody
  (`scheduler.ts:276`); `Operations` assigns timetables once switches are there.
* Assigning a schedule leaves an old dwell in place, which then advances the new
  schedule (`scheduler.ts:2030`); and a train told to stop where it is gives up its
  blocks on an early return that retries nobody (`scheduler.ts:2112`).  `Operations`
  assigns each timetable once.
* A zone boundary that becomes known after a route was planned admits a train that
  cannot reverse; a schedule assigned to a train inside a zone gives it blocks while
  it is suspended.
* A train that cannot reverse is told to all the same, and the scheduler moves its
  record (`scheduler.ts:1855`); in `standoff` every train can.
* After its last edge a train reports the first edge of its route, from which the
  scheduler takes its heading (`scheduler.ts:1343`); where the track runs both ways the
  next route may lead straight back.
* A yield spares only the block that ends at the head (`scheduler.ts:1598`); a train
  longer than a block stands on more.  The trains of `loop` are no longer than a block,
  and in `standoff` they are exactly as long.
* The deadlock banner is not refreshed by a report that contradicts the graph,
  nor by an explicit clearance request; `standoff` has neither.
* A switch command or confirmation that is lost is never repeated: the request stays on
  record, and the junction is closed to whoever needs the position.  `delivery` shows that
  nothing is endangered; the train waits.
* `protocol-v0.2.md:116` promises delivery at least once with deduplication; nothing
  deduplicates, and the simulator publishes at most once.

Server and learn mode (`discovery` has all of these behaviours; its properties are worded
around those that name a variable):

* A reset forgets the device that the admin API registered for itself when it began to
  listen; tags assigned through the API are refused from then on, although it answers 204.
* A reset keeps learn mode's session, and publishes it again, where its comment speaks of a
  baseline.
* A session's train need not be the one asked for: waiting, it latches onto the first train
  that reads any tag.  It goes on showing that it waits if the tag was unbound.
* After completing, or pausing at a terminus, a further tag sends the train off again while
  the status stays.  A device that restarts during a session is taken to be exploring and
  never sent off again.
* A reset reaches only topics whose echo has come back to the ledger (`RetainedIsKnown` counts
  the others among the `ghosts`).
* A crash of the server leaves trains exploring that no session will stop (`orphans`).
* A tag that is unbound when it is read, or a train that is lifted and put down elsewhere,
  makes an edge of two markers that are not neighbours (`gaps`, `arcs`).
* Pruning removes markers with no edge yet, though tags are bound to them.

Yard:

* The entry of a train frees the throat and retries before the device has announced it, so
  that one train more than the capacity can be let up to the throat.  It waits there and is
  admitted later; `yard-zone-device.ts:14-17` says it is held one marker short.
* A train released reports a fixed length, whatever it has left behind.  A visitor without
  carriages leaves its road empty, and the road is remembered as that of the spares
  (`Cars` are positive).
* An edit of the track during a service strands the train suspended; `Rebuild` is only
  taken between services.

Toy table:

* A train without power comes back with power at the next edit, and stays listed as off.
* Any edit lowers a raised span, at the device and then at the server.
* Points thrown by the scheduler are set by the next edit to what the table last commanded,
  while the scheduler keeps the position it saw confirmed (`AgreedPointsLieSo` holds where
  the two records agree).
* A piece dragged too fast comes off without a word to the server, and a switch or a bridge
  that is deleted together with its track says nothing either (`DepartedAreForgotten` is
  about trains and plain gates that were deleted).

## 6. Not modelled, and the plan

Most lines of the repository draw: `ToyTable.tsx`, `LayoutCanvas.tsx` and the visualiser
render, `pieces.ts`, `flex-solver.ts`, `network-from-pieces.ts` and `world.ts` compute
geometry and kinematics over real numbers, `protocol` is schemas.  They decide nothing
that a finite-state model could check, and their operations appear here only where they
change who is on record as what (`Workbench`), or couple carriages (`Yard`).  The share
of lines mapped is small for that reason; of the packages that decide things, `core` is
mapped for the most part.

Also left out, with the reasons in `PROJECT.json`: zone-owned markers and learned times;
`grant_reverse` behind queues; tags of vehicles; two operators at once; a page that is
closed in one tab and open in another; carriages and cameras on the table.

Of the turntable one thing shows already on reading.  Its deck is said to leave the
junction without an active branch while it slews (`turntable-actuator.ts:10`), but
`retarget` (`turntable-actuator.ts:118`) forgets only the deck's own `seated`, and the
world's points stay on the exit it left until it seats on another.  The one loco that
uses it waits for `alignedExit`, not for the points; a second one would not be held.

In order:

1. Bridge and turntable controllers with their gate (points must not be trusted while the
   deck slews; the span must not move under a train that was cleared before the gate
   withheld), and the depot, which shares its track with visitors.
2. `grant_reverse` and reassignment in `Delivery`, with trains that cannot reverse.
3. Composition of `Yard` with `Scheduler` proper, and of `Workbench` with `Delivery`: a
   table edited while trains hold clearance.
4. Proofs: the three properties of `Delivery` when reports and routes get lost too, from an
   invariant that follows a train through being held and recovered; the four of `Operations`
   for trains longer than they report, that yield and back out.
