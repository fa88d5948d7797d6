# A TLA+ model of the Swarm Coordination Runtime

The repository is a research prototype of mission-level coordination for a swarm of drones: a
deterministic simulation in which agents own tasks, exchange heartbeats and gossip, detect failures and
recover; a multi-agent urban patrol with locks on road segments; and the way from a mission to a real or
simulated vehicle over MAVLink. This directory models the parts of it in which several actors, clocks
and unreliable messages meet, checks them with TLC on small instances and proves the most important
results with TLAPS for every value of the constants.

`PROJECT.json` lists the components, the runs, the source lines behind every definition, the hazards
and the theorems. This file explains them.

## 1. Inventory of the system

Paths are relative to `src/crates/`.

### Autonomy state machine of an agent (`swarm-runtime/src/node/runtime.rs`) - modelled
- *State*: mission state, the mission states saved before a GCS outage and before a wait for a
  neighbour, the last heartbeat of GCS, mothership and each neighbour, lost neighbours, start of the
  outage, lease in use, the wait in hand.
- *Operations*: one call per tick that reads the heartbeats of the inbox and applies, in this order, the
  neighbour heartbeats, the mothership policy, the GCS policy with leases, the end of a wait, and the
  neighbour policy. A partition supervisor may take a lease away between two calls.
- *Hard*: three detectors with different thresholds write one mission state and restore two saved ones;
  every comparison with a deadline has an off-by-one to get wrong.
- *Correct when*: a neighbour is lost exactly while it is silent; the agent is autonomous exactly while
  the GCS is silent; it never continues beyond a lease; it returns to the mission it was on; an abort
  stands (the code has exceptions: sections 2 and 7).

### Agent nodes and their network (`swarm-runtime/src/{membership,failure,gossip,coordinator,task_registry}.rs`, `swarm-runtime/src/node/`, `swarm-comms/src/network.rs`, `swarm-sim/src/runner/internal/tick_loop.rs`) - modelled
- *State*: per node a task registry and a membership view (alive, last heartbeat, generation), a gossip
  counter; heartbeats and gossip in flight with their delivery tick; crashed agents; cuts.
- *Operations*: a tick of the loop (crashes, cuts and heals, heartbeats), the turn of every live node
  (inbox, gossip merges, failure detection, expiry, allocation, sending gossip), the runner's
  completions and releases.
- *Hard*: late, lost and overtaking messages, partial views, restarts with a new generation, a crash in
  the middle of a partition.
- *Correct when*: crashes are detected in time and nobody else is suspected; no task stays with a dead
  owner; completed tasks stay completed; a known number of calm ticks after a disturbance all views agree.

### Segment locks and the deconflicted patrol (`swarm-sim/src/urban/{deconfliction,segment_coordinator}.rs`, `swarm-sim/src/runner/urban_patrol.rs`) - modelled
- *State*: lock table with holder and age (in memory or behind a coordinator with leases), round-robin
  cursors, per agent the route, position, wait, failure and handoff target.
- *Operations*: failures with release and handoff, a batch of lock requests under three right-of-way
  policies, the reaction of a loser (wait, replan, abort), movement, end of the run.
- *Hard*: leases that lapse under their holder, failures at any point, chains of handoffs, agents that
  wait for one another.
- *Correct when*: no lock leaks, two agents are never inside one segment, every tick makes progress, every
  patrol ends, and a patrol that is reported as completed was flown.

### Mission upload and flight lifecycle (`swarm-comms/src/mavlink/{mission_upload,mission_items,lifecycle,commands}.rs`) - modelled
- *State*: attempt, expected sequence number, the command in hand; on the vehicle the mission in force,
  the item it wants, the commands it obeyed; messages under way in both directions.
- *Operations*: wait for a heartbeat, clear, count, items on request, acknowledgement, retry; arm,
  take-off, start, post-start heartbeat, abort.
- *Hard*: every wait can time out while its answer is under way; answers carry no identity of the attempt;
  the connection loses messages and fails.
- *Correct when*: what is flown is what was uploaded, commands take effect in order, a vehicle that may be
  in the air is recalled, nothing follows the abort, every flight ends.

### SITL supervisor, reallocation and progress (`swarm-examples/src/{sitl_supervisor/,sitl_progress.rs,sitl_multi_agent.rs}`) - modelled
- *State*: per agent a controller with its uploaded mission, a progress tracker (status of every task,
  item in hand) and clocks; runs that ended, replacement plans, the degraded record of every failure.
- *Operations*: validate the manifest, upload and start every agent, poll them in turn, apply a telemetry
  event, end a run, recover the tasks of a failed agent by replacing the missions of survivors in flight,
  with a safety gate and uploads that fail, and the report.
- *Hard*: telemetry names items by number and a replacement renumbers them; every recovery starts from the
  manifest, not from the missions as they are; a survivor fails while it is given more work.
- *Correct when*: no task is credited that nobody flew, none is lost or flown twice, a report of success
  is true, and the supervisor comes to an end.

### Agent run over a connection (`swarm-comms/src/{mavlink_executor,mavlink_common_plan}.rs`, `swarm-comms/src/mavlink/{transport,telemetry}.rs`, `swarm-examples/src/{sitl_plan.rs,sitl_agent_runtime/}`) - modelled
- *State*: the compiled plan, the step in hand, tries and retries, step results; the tracker; the vehicle
  and what is under way.
- *Operations*: compile the mission, the guards, one step per command, upload and start with its retries,
  abort, the telemetry loop with two timeouts.
- *Hard*: acknowledgements that come after their timeout, a start that was aborted inside the provider,
  messages dropped while another is waited for, plans whose items and tasks differ in number.
- *Correct when*: an accepted step was obeyed, success means that the mission was flown, a run that fails
  while it watches the mission recalls the vehicle.

### Partition supervisor (`swarm-sim/src/runner/internal/{partition_supervisor,partitions}.rs`) - modelled
- *State*: lease records of every node, cut links, partition reports, reconciliation reports.
- *Operations*: cut, heal with reconciliation of contenders by lease age, release at a failure.
- *Hard*: several cuts and heals in one tick, contenders of the same age, leases that lapse, an agent that
  fails in the tick of the heal, reports closed by a heal that is not theirs.
- *Correct when*: after a heal a resource has one authority at most, a lease is taken away only for a
  reason, and the reports say what is the case.

### Command plane (`swarm-command-plane/src/{fanout,topology,validation,policy}.rs`) - modelled but for `sync.rs`
- *State*: the plan with its routes, the verdict on it, the decision on a failure.
- *Operations*: build and validate a plan, decide on a failed agent.
- *Hard*: graph searches with shared marks, routes of two legs, a replacement that is itself the failure.
- *Correct when*: routes exist exactly when commands can get through, cycles are found exactly, and every
  failure in an accepted plan has a decision.

### Not modelled
CBBA (section 8); geometry, road-graph planning and obstacles, route planners and scoring allocators
(floating point; their results are choices in the models that use them); safety limits, capability
profiles, mission IR, DSL, reports, replay and evidence files (stateless or pure I/O); UDP and MAVLink
transport set-up. `PROJECT.json` gives the reason for each.

Most of the repository's lines are of this last sort: report and artifact schemas with their
validators, DSL and generators, evidence builders, importers, binaries, geometry, metrics. They keep no state that two
actors share, and a model of them would repeat them. The map therefore covers a modest share of all
lines (the parts above), and is not meant to approach the whole.

### How the parts interact
The tick loop drives the nodes; nodes meet only through the network. Each node's turn ends in its
autonomy machine, which reads the same heartbeats and writes nothing that the task layer reads, so the
two are separate modules. The urban runner has its own loop and its own lock table. Plans leave the
simulation as MAVLink missions. Three clients fly them: the lifecycle functions (`MissionFlight`), the plan
executor of one agent (`SitlAgent`, whose upload handshake is the one of `MissionFlight`) and the live
supervisor of several (`SitlSupervisor`); the last two share the progress tracker. The partition
supervisor runs inside the tick loop and takes away leases that the autonomy machines live by
(`RevokeLease`). The command plane only hands plans on.

## 2. Modules

| module | models | composed from |
|---|---|---|
| `AutonomyFsm` | autonomy machine of one agent; any set of heartbeats in any tick | |
| `TaskRegistry`, `Membership` | task table and membership view, as operators on one entry | |
| `SwarmRuntime` | N nodes, network and tick loop | `TaskRegistry`, `Membership` |
| `SegmentLocks` | both lock tables, as operators | |
| `UrbanPatrol` | the deconflicted patrol | `SegmentLocks` |
| `MissionFlight` | client, connection and vehicle of one flight | |
| `FlightContract` | what a flight promises, abstractly | refined by `MissionFlight` |
| `SitlProgress` | the progress tracker, as operators | |
| `SitlSupervisor` | live supervisor, links and vehicles | `SitlProgress` |
| `MavlinkPlan` | from a mission to the executor's steps, as operators | |
| `SitlAgent` | one agent run: executor, link, vehicle, telemetry loop | `MavlinkPlan`, `SitlProgress` |
| `PartitionSupervisor` | leases and reports through cuts, heals and failures | |
| `CommandRoutes` | routing and cycle search, as operators | |
| `CommandPlane` | plan, validation, failure decision | `CommandRoutes` |
| `MC...` | instances for TLC | the module named |
| `...Proofs` | theorems | the module named |

**AutonomyFsm.** `Tick(hb)` is one call of `process_inbox_and_allocate` as far as it concerns the mission
state; `PeerHeartbeats`, `MothershipStep`, `GcsStep`, `WaitTimeout`, `PeerTimeouts` are its parts, in the
code's order, each from node record to node record. `RevokeLease` is the supervisor. Events are the set
of events of the last call. `Aborted` counts an abort that is in force and one that was saved before the wait in hand.
`AbortStands` says without a GCS when an abort ends: only if the mothership was lost during a wait for a neighbour, which writes
the abort over the waiting state (`runtime.rs:423`), and that neighbour returns and the mission saved before the
wait is written over the abort (`runtime.rs:393`), and then only once the mothership is heard again, since it is aborted anew in
the same tick otherwise.

**SwarmRuntime.** `BeginTick`, then `NodeInbox`, `NodeGossip` for every message and `NodeFinish` for every
live node in the order of the list, then `EndTick`. Crashes, cuts and the fate of each message are
chosen within a budget. The allocator is any assignment of free tasks to agents that the node believes
alive: this covers the greedy, centralized and consensus allocators, whatever their scores. Free are the tasks that
`unassigned()` returns, those with status Unassigned and those without an owner, so that completed tasks are offered
too and it is `assign` that refuses them. `calm` is a
history variable: ticks since anything disturbed the swarm.

**SegmentLocks, UrbanPatrol.** One tick is failures (`Fail`, any number within the bound), one `Request`
batch, `React` for every loser, `Move` for every agent, `EndTick`. The bus between agents and
coordinator is lossless and answered within the call, so messages are folded into the batch; the ordering
of the batch by the table *before* leases lapse is kept, because it is what the code does. Distances are
counted in moves, speeds are positive, and the planner returns any detour of the configured set, or none.
Settings are part of the initial state (`conf`), so that one run covers all of them.

**MissionFlight.** The client is one thread; `at` says where it is. A step sends, reads a message, times out
or fails. Messages it does not wait for are dropped, as `recv_matching` does. The vehicle is external:
it answers a clear, asks for items in order, accepts or rejects the mission and commands, and may ask
again. The connection keeps the order and may delay or lose. Heartbeats are periodic and therefore
possible at any time. `of` in a mission acknowledgement is for the reader only; no action of the client
reads it. `broken` records that the connection reported an error to the lifecycle. The three upload
functions differ only in their item type and are one set of actions.

**FlightContract.** The abstract specification of a flight in five variables: what the vehicle obeyed,
whether a recall was asked for, whether the connection reported an error, the verdict. `MissionFlight!Promise`
instantiates it over the concrete state and `KeepsContract` is its specification: order of effects, recall of
what may be in the air, nothing after the recall, success only of a mission that was started.

**SitlProgress, SitlSupervisor.** The supervisor is one thread (`phase`); the actions are the start of an
agent, one poll (which reads one telemetry event or finds none and counts towards the no-progress
timeout), the end of a run, and the hand-over of one replacement. Vehicles are external: they fly their items in order and report them
over a link that keeps the order. Assumptions: the link keeps the order, so that uploading a mission drains what the
old one still had under way: the handshake reads it before the acknowledgement and drops it. Nothing else in the code would
keep a report of the old mission, should it be overtaken by that acknowledgement, from being read with the new numbers
(`live.rs:341`); the hazard at that line says so. Further: a vehicle does not alternate between
two current items; what a vehicle does after its run has ended is left out; heartbeat silence, a stalled
vehicle, a refused upload, a lost report and a repeated acknowledgement each cost one of `MaxFaults`. `flown`
is a history variable: what vehicles really reached.

**MavlinkPlan, SitlAgent.** `Plan` is the compiled plan of a mission: prelude, upload, start, postlude, or the
error of the compiler. A step of the executor is sent and then accepted, rejected, timed out or failed;
retries and the abort are the code's. The upload handshake is one step; one that is accepted in its first try has stored the
mission, one that is accepted after a retry may have been accepted with the answer to one of its own clears, as
`MissionFlight` shows, and has stored it or not. A fence and parameter
requirements are part of the mission because compiler and executor take them, although `sitl_agent` passes none.

**PartitionSupervisor.** A tick is `BeginTick`, one `handle_partition_activation` per cut, one
`handle_partition_heal` per heal, `handle_node_failures`. Which links are cut and healed when is
configuration and therefore free; `until_tick` and `heal_at_tick` differ only in a reset of CBBA. The lease records
of an agent are assumed to differ. Of a report the model keeps whom it is about and whether it is
open. `tidy` is a history variable: so far only sound links were cut and only cut ones healed.

**CommandRoutes, CommandPlane.** Node ids are numbers in their string order, because the search is
ordered by id. `RoutesExact` and `CyclesFound` compare the searches with reference definitions.
Inputs are enumerated in `MCCommandPlane`. The loops of the code, and the recursion of `dfs_cycle`, are functions
from the number of rounds to the state of the loop (`Search`, `reconstruct_path`, `dfs_cycle`; one round is `Round`,
`Visit`), so that they can be proved about; the number of rounds after which they are read is one that the
code's loop cannot exceed, which is part of the proofs.

## 3. Runs

| run | instance | shows |
|---|---|---|
| `fsm_gcs` | 2 neighbours, GCS, mothership, 2 leases, thresholds of 2, 9 ticks | detector, autonomy, lease, mission and outage report are exact when only the GCS drives the mission |
| `fsm_neighbours` | no GCS, policies that wait, 9 ticks | every armed wait is within its limit; an abort stands, but for a mothership that is lost during a wait and heard again |
| `swarm_faults` | 2 nodes, a task that is injected and expires, a crash, a cut, exhaustion, a release, 2 late and 1 lost message, delays 0 to 2 = timeout, 6 ticks | crashes are detected and their tasks recovered in time, no false suspicion, completion is final |
| `swarm_settle` | 3 nodes, 1 task, a crash and a cut, a restarted agent, timeout 1, gossip every 2 ticks, 8 ticks | no task with a dead owner, a crashed agent that gossip revived is found dead again, views agree after 6 calm ticks |
| `urban_patrol` | 3 agents, 4 edges, 2 failures, 81 settings | all of the patrol's properties |
| `urban_replan` (violation) | 3 agents, replanning | a segment is entered without a lock (section 6) |
| `flight` | missions of 0 to 4 items with u16::MAX = 3, 2 retries, 2 faults | what is flown is in force, every flight ends, the flight implements `FlightContract` |
| `sitl` | 3 vehicles, 4 tasks, one of them beyond the third vehicle, 1 fault, 4 manifests (3 to be refused) | nothing credited unflown, lost or flown twice; success is true; the supervisor ends |
| `executor` | missions of every kind, around the 16-bit limit (3), every fence and contract, retry budgets 0 and 1, 1 fault | success was flown; accepted was obeyed, a retried upload excepted; a run that ends while it watches the mission has flown it or recalled the vehicle, errors of the connection and unknown items excepted |
| `executor_postlude` (violation) | 1 task, no fault | the landing is commanded before the mission is flown (section 6) |
| `partition` | 3 agents, 4 lease records, 3 links, 2 events per tick, 1 failure, 3 ticks | one authority after a heal, revocation for cause, truthful reports |
| `command_plane` | all 4096 link sets on 4 nodes times 4 kinds, all 512 dependency relations of 3 agents, 5,760 policies and ownerships | routes, cycles and failure decisions are exact |

*Why the bounds are enough.* Clocks run far enough for every threshold to pass, for an outage to begin,
end and begin again, and for a lease to end inside and outside an outage. Timeouts are 2 or 3: the
smallest values for which one tick too early, in time, and one tick too late differ. Only `swarm_settle` has a timeout
of 1, so that a crash, a cut, a conflict of owners and the 6 calm ticks after them fit into its 8 ticks. Two nodes disagree,
the third makes gossip indirect. On the road graph three agents contend for one edge, an agent's slice is
empty, slices share edges, a lease is just enough or one tick short, and a handoff target fails in turn. A
flight has missions below, at and above the u16 limit, a first and a last item with one in between, a
retry of a retry, and two faults anywhere. In `sitl` one fault is enough for chains of failures: a repeated
acknowledgement, a refused upload or a timeout fails one agent, and survivors time out on their own, so that
second and third recoveries happen within one fault. In `partition` three leases of one resource
meet with two ages and two expiries inside the three ticks, and two events per tick give two heals, or a cut and a heal
of the same link, in one tick. Larger instances are what the proofs are for. Symmetry is not used:
agents are ordered by id in the code (turns, ties, slices, polls).

*Deadlock* is checked in `urban_*` and `flight` (the end states have an explicit `Done` step). The other runs
stop at their last tick, at the end of the run or after the one plan they are about.

*Mutants.* Every property of a passing run has a mutant of the modelled code that violates it (a dropped
guard, an off-by-one, a missing reset). They are in the modules next to the definition, marked as such.

## 4. Fairness

- `UrbanPatrol!FairSpec`: weak fairness of `Next`; one loop that always takes its next step. `PatrolEnds`.
- `MissionFlight!FairSpec`: weak fairness of the client only; the thread is never blocked, since every
  wait polls and has a deadline. The vehicle and the connection owe nothing. `FlightEnds`. The deadline
  is only looked at when nothing can be read, so a link that always has another unrelated message would
  starve it; that rate is real time and is not modelled.
- `SitlSupervisor!Spec`: weak fairness of the supervisor's own steps; it is one thread that polls with
  deadlines. Vehicles and links owe nothing. `SupervisorEnds`.
- `SitlAgent`, `PartitionSupervisor` and `CommandPlane` have none: their properties are about safety.
- `SwarmRuntime` has none: progress is stated with bounds in ticks (`CrashDetected`, `TasksRecovered`,
  `ViewsSettle`).

## 5. Proofs

All theorems hold for any number of agents, tasks, edges, items, retries and faults and any thresholds, under
the named assumptions of the modules (types of the constants, positive thresholds, non-empty patrols).

**AutonomyFsmProofs.** `TypeCorrect`, `DetectorCorrect`, `WaitCorrect`, `AutonomyCorrect`, `LeaseCorrect`,
`MissionCorrect`, `ReportCorrect` (an action property) and `AbortCorrect`. The handler is proved part by
part: one lemma per part says what it changes, and the invariant connects the mission state with the
saved states, the outage's start and the lease in use, which the properties alone do not. `AbortCorrect` proves
`AbortStands` from `WaitState`: without a GCS an agent that waits for a neighbour is in the waiting state, or in the abort that
the loss of the mothership has written over it. Each part is then shown to keep an abort, and only
the heartbeat of the awaited neighbour to end one.

**SwarmRuntimeProofs.** `TypeCorrect`, `OwnersAlive`, `CrashesDetected`, `CrashesRedetected`, `CrashedLoseTasks`, `SelfBelief`,
`CompletionFinal`, `NobodySuspected`, `ViewsConverge`. `CrashDetected` is not inductive: the invariant adds that nothing sent by a
crashed agent is later than its crash, in flight or in a view (`Clock`), that views know no generation
that does not exist (`Gens`) and that a node's own heartbeat is fresh (`OwnFresh`). With several generations gossip may
revive a crashed agent; that every turn which reads the inbox finds it dead again and leaves it no task (`CrashesRedetected`)
follows from `Clock` alone, since the revival records no heartbeat later than the crash (`InboxDetects`). `CompletedIsFinal` needs that no node
knows a task before its injection (`Pending`). For `NoFalseSuspicion` every heartbeat of a live agent is
followed until it is recorded: as long as the links are reliable it is under way and in time, or the entry holds
it, or a later one, with the agent's own generation, which no gossip can replace (`Heard`). The entry of a live agent is
then at most `TimeoutTicks` old whenever the detector looks. That a step after which the links are still reliable lost
nothing follows from the bounds on the faults (`Budget`, `Losses`).

`ViewsConverge` says that gossip settles, for any number of agents and tasks, any generations, gossip interval and timeout,
and whatever happened before the calm. It supposes what the bound is about (`Timely`): undisturbed messages take no tick
(the in-memory network without latency), no message is later than the timeout, and the timeout is not zero. Where they do not
hold, nodes need longer. The invariant is `Settling`:
- *Who is alive* (`CalmCount`, `Beats`, `Waiting`, `Sees`). In a calm tick the heartbeat of every live agent waits for
  whoever has not read its inbox, so that whoever has read it sees every live agent with its own generation. After
  `TimeoutTicks` calm ticks no heartbeat of a crashed agent is left and all of them are given up.
- *Which generations are known* (`GensSpread`). Gossip about a later generation records a heartbeat, so a crashed agent is
  alive again until the next detection, and owners are decided by what its reader knows of it. From `TimeoutTicks` on
  nobody learns a generation of a crashed agent that is not told to all others within one interval and read one tick later. With
  one generation there is nothing to learn; otherwise the views are exact an interval and a tick later (`Start`,
  `GensAgree`).
- *Owners only grow* (`Spread`). From then on (`Base`) the owner that a node sees never falls in the order of gossip: one that is
  not alive, then the generation, then the id (`Yields`, an order by `YieldsOrder`). What one node sees is seen by all others, waits
  in their inboxes (`Due`), or is seen by a node that has not gossiped since `Base` (`Unsaid`). Nobody takes back what it sent
  (`Backed`).
- After `GossipInterval` more ticks everybody has gossiped and everything is read (`Swept`), so all see one owner (`SettledAgree`).

The proof corrected the property. An earlier bound, `TimeoutTicks + GossipInterval` for all generations, passed its run,
but its invariant was not inductive, and five nodes show why (TLC finds it when led there): of an agent that was
restarted and crashes, one late message brings the generation to a node that did not know it, which
believes the agent alive for the rest of its turn, and a second late message makes it the owner again.

**UrbanPatrolProofs.** `TypeCorrect`, `NoLockLeaks`, `SegmentExclusion`, `EntryReserved`, `SomebodyAdvances`,
`ReportedIsFlown`. The invariant
says which agents may hold, wait or lose in each phase of the tick (`Holders`, `Waiters`, `Losers`),
relates the age of a lock to the distance its holder has flown (`Travel`), so that a lease which
fits the edge cannot lapse inside it, and says that whoever is inside holds the lock (`Reserved`, `Entry`).
`Progress` keeps, through the movement phase, an agent that has moved or still will. `CompletedMeansFlown` rests on
`Covered`: every segment of the patrol was flown or is still ahead of somebody who has not handed its rest on. The slices
of network mode establish it (`SlicesCover`, with remainder and empty slices) and a handoff keeps it
(`TakeOverCovers`). The count of the report then leaves nobody over, because nobody has both completed and handed on
(`Settled`, `CountsEveryone`).

**MissionFlightProofs.** `TypeCorrect`, `MissionComplete`, `OrderKept`, `Recalls`, `RtlFinal`, and
`ContractKept`: `MissionFlight` implements `FlightContract`. The properties
speak of client and vehicle; the invariant says what is under way between them. In the first attempt a
clear and its answer are ahead of everything else, and the client cannot get to the acknowledgement
without having dropped that answer (`Clears`, `ClearAcks`, `Untouched`); an accepting answer under way is
in force (`UploadAcks`); accepted commands were obeyed and obeyed commands were sent (`Orders`); the abort
is the last message in the queue and after it the queue is empty (`Home`). For the refinement the initial
state maps to an initial state of the contract and every action, one by one, to a step of it or a stutter;
one more invariant says where a client is whose start was accepted and that take-off is only asked of an
armed vehicle (`Started`). `OrderKept`, `Recalls` and `RtlFinal` are the parts of the contract, each for itself.

**PartitionSupervisorProofs.** `TypeCorrect`, `SplitBrainOver`, `AcceptedOwned`, `RevocationJustified` (an action
property) and `CutOnRecord`. The assumption that `Leases` is finite stands for configuration lists, which
are finite; without it there need be no oldest lease. The heart is `LosersFacts`: those who keep a lease of a contested resource
are one agent at most, and that agent loses none. What a heal leaves behind stays so, because nobody
gains a lease afterwards (`NobodyGains`). `CutOnRecord` needs that every report covers the agents
alive (`Covering`) and that in a tidy configuration no fewer reports are open than links are cut (`Recorded`).

**SitlAgentProofs.** `PlanFacts` (what the compiler makes of every mission), `TypeCorrect`, `SuccessFlown`,
`ReportObeyed`, `RecallIsKept`. The invariant adds to the types (`Shape`) where the client can be with how many
results (`Course`), that nothing on the link or in the tracker claims more than the vehicle did (`Claims`: a
late acknowledgement is still one of a command that was obeyed), that whoever waits for the answer to an abort
has sent it (`Recalled`), and that without retries the recall is the last command to move the vehicle (`RecallLast`). `ReportObeyed`
excepts an upload that was retried; `retried` remembers whether it was.
`RecallIsKept` goes through the steps that can end a run while the mission is watched: the two that leave the
loop by `?` are the exceptions it names.

**SitlSupervisorProofs.** `TypeCorrect`, `CompletedFlown`, `NothingDropped`, `SingleOwner`, `ReportTrue`. None of the
four properties is inductive. The invariant has four layers:
- `Fitted`: a controller that runs has the mission its vehicle has, every report under way is of an item of that mission
  that the vehicle reached, and nothing is counted that was not flown. This is where a replacement in
  flight, with its new numbers, could go wrong.
- `Phased`, `Opening`, `Ending`: the supervisor's variables fit its phase; agents that ended have a complete result; before the
  first recovery every mission is the manifest's.
- `Owning`, `NoneLost`: a survivor keeps what the manifest gave it until somebody completed it, and no task of the
  manifest is without a place. `NoTaskDropped` follows. `Owning` is needed because a recovery starts from
  the manifest and not from the missions.
- `Within`, `Apart`: nothing is on order with two agents, or on order with one and completed by another, or completed by two.
  A recovery keeps this for one of two reasons: it is the first one, so that the missions are the manifest's and
  its lists are disjoint, or at most one survivor is left (three agents, two of them failed).
  This is the proof's account of the condition `Accountable`. That the numbers in the report suffice then follows: disjoint
  counts add up to the size of their union.

The filter and the chaining of task lists (`Keep`, `FlattenSeq`) and the sum in the report are folds. What they
compute is proved with the least position at which it would fail (`KeepFacts`, `FlattenFacts`, `CountsAddUp`),
since the library's induction theorems are beyond the installed provers.

**CommandPlaneProofs.** `RoutesCorrect`, `CyclesCorrect`, `FailuresDecided`, and the two results on the searches that
the first two rest on, `BfsPath` and `CycleExact`. The assumption is that of the types: finitely many agents and nodes,
a policy for every agent, dependencies between agents. State of the plane is little, and its invariant (`PlaneInv`)
says that a plan is what was built from the input; the work is in the loops.
- That the function of a loop exists at all is `Iteration`; what holds after every round is proved with `SetInduction`,
  an induction over a set of numbers instead of a predicate, which the provers can instantiate.
- *Breadth first* (`BfsInv`): whatever was seen can be reached (`Known`) and has a parent one hop nearer (`Parents`), the
  queue holds nodes of at most two distances, the smaller first (`Queued`, `Layered`), whatever was taken from
  it has all its neighbours seen (`Expanded`), and nothing as near as its head is left to be seen (`Complete`). An
  empty queue then leaves nothing that can be reached (`Exhausted`), and the way back along the
  parents loses one hop of distance with every step (`Trail`), so it ends at the start and is shortest.
- *Depth first* (`DfsInv`): the calls under way are for agents that depend on each other in turn, each once and none that
  is done (`Nested`); a child that was looked at is done or its call is under way (`Followed`); and what is done can
  be numbered so that the number falls along every dependency (`Ranked`). A child found on the path closes a ring
  (`ClosedRing`); at the end all are numbered, and numbers cannot fall around a ring (`DoneNoRing`). Every step looks at another pair or is
  done with another agent (`VisitCounts`), so the steps suffice.
- A replacement exists because validation asked for one for every agent with that policy (`AcceptedPolicies`), and the
  first candidate is one (`ReplacementExists`).

**Only model-checked.** What is out of the prover's reach: liveness under fairness (`PatrolEnds`, `FlightEnds`,
`SupervisorEnds`), and the properties of the runs that end in a violation. Every other property of the runs is a theorem.
The type invariant of `AutonomyFsm` is proved and not part of a run, nor are those of the modules whose runs do not name one.

## 6. Where the code disagrees with its documentation

Each has a run and an entry under `findings`.

- **A segment is entered without a lock** (`urban_replan`): an agent that loses a request and replans
  enters the first segment of its new route in the same tick, without asking for it; two losers can
  enter the same one.
- **The landing comes first** (`executor_postlude`): the executor sends the postlude, which in every SITL plan
  is the landing, as soon as the start is acknowledged; progress is looked at afterwards.

## 7. Remarks without a run

- *Late clear answers.* With `clear_existing` (the default) and `retry_count > 0` (the default is 0) a late
  answer to the MISSION_CLEAR_ALL of a timed-out attempt can be taken for the acknowledgement of the
  retried upload of one item; the flight then starts although nothing is stored. `types.rs:87` calls the report a
  "Summary returned after PX4 accepts a waypoint mission upload". `MissionInForce`, and `ReportedWasObeyed` for
  the executor's own retries, except exactly this case; without the exception TLC finds it in `flight` with one item, one
  retry and no fault.
- *Read error after the start.* A connection error while waiting for the post-start heartbeat ends the
  flight without an abort (`lifecycle.rs:87`); `FlightContract` excepts flights with connection errors.
- *Short leases.* Leases are never renewed. If an edge takes longer than a lease, a second agent enters it;
  `EdgeExclusive` therefore assumes that edges fit, and the bound is exact.
- *Handoffs to agents with an empty slice* are preferred and always fail: they have no position to
  connect the route to.
- *Nested outages* can restore a waiting state whose neighbour has long returned; it then stays.
  `mothership_lost` is emitted in every tick while GCS and mothership are both silent. `max_gcs_lost_ticks` is never read.
- *Expiry* removes completed tasks too, contrary to the comment at `task_registry.rs:99`, by which only unassigned and
  assigned ones expire. `CompletedIsFinal` allows it, at the expiry and not before.
- *An abort is lost.* The abort after a neighbour's reconnect timeout is overwritten when the GCS is lost
  (`runtime.rs:511`), and the GCS's return resumes the mission, although `autonomy.rs:58` speaks of an abort.
  `AbortStands` is therefore checked without a GCS.
- *A stale lease state.* A wait for a neighbour that began under a lease restores `ContinuingUnderLease`
  after the outage is over and the lease has ended (`runtime.rs:395`; compare `swarm_protocol.rs:113`). The
  properties about leases suppose `GcsOnly`.
- *An abort without a GCS* is undone in one case, which `AbortStands` states (section 2): `runtime.rs:423` writes it over a wait,
  and the neighbour's return restores what was saved before the wait.
- *Completed tasks and agreement.* A node that has completed a task shows no owner for it and gossips none, so the others may go on
  showing the last one they knew; `ViewsSettle` is about open tasks.

SITL supervisor and agent run:
- `DEGRADED_SUPERVISOR.md:26,60,71` excludes recursive recovery; the live supervisor recovers after every
  failure, a failed survivor's included. Line 25 gives a rejected replacement `failed_recovery`; a run can end
  with `completed_with_reallocation`. Line 21 has no recovery after a no-progress timeout; there is one.
- A released task that no survivor can do appears in no record (`NoTaskDropped` allows exactly this); a
  refused plan lists the target's own tasks as abandoned too, although it goes on flying them.
- With four agents or more a second recovery can put a task into two missions: it starts from the manifest,
  so a task that a survivor has had since the first recovery is released again and may go to another one,
  while the first keeps it (`reallocation.rs:69`). The report then adds up counts (`live_helpers.rs:148`): the task
  flown twice makes up for one that was abandoned, and the run is reported as `completed_with_reallocation`,
  which the command line takes for success, with a task nobody flew. TLC finds this with `N = 4`, one task each and one
  fault (two agents stall, the second recovery is refused for one target). `NoDoubleAssignment` and
  `ReportTruthful` therefore carry the condition `Accountable`; at the three agents of the run it is always met.
- `SITL_SETUP.md:764` (upload failure: no take-off) and `:766` (failed take-off or start: RTL) describe the
  lifecycle functions; on the executor's path take-off precedes the upload, and a refused step, a take-off or start included, ends
  the run without a recall. `RecallKept` is about the wait after the start and the telemetry loop. `--abort-after` is not looked at there. 65536 tasks compile, and the upload refuses them
  after take-off.
- Primitive missions track more waypoints than they upload (hover 2 of 1, take-off and land 2 of 0, square 6
  of 5) and so never complete; an orbit uploads 12 items per turn and tracks 2: the third report ends the
  run with an error and without a recall. Errors of the connection in the telemetry loop do the same. `RecallKept` names both exits.
- A retried start (budget at least 1) starts a vehicle that the provider has just recalled; the second half of
  `RecallKept` says that this does not happen with `sitl_agent`'s budget of 0. Telemetry that arrives while an answer is
  waited for is dropped.
- `validation_result.passed` is not looked at before execution. A fence plan without items is enabled all
  the same. `Completed` is reported by the lifecycle before anything was flown.

Partition supervisor and command plane:
- The report of a cut to the base is not closed by its own heal, since the base is not an agent; a heal
  closes the latest report that names both agents, so ticks of overlapping partitions are mixed up.
- A link that is cut and healed in one tick is cut or whole on the bus in the order of the events, but always
  whole for the supervisor.
- One holder with two equally old leases of one resource loses both without a contender.
  `swarm_protocol.rs:245` says that a reset "resets both and reassigns"; nothing reassigns.
- A child with two declared parents is routed by the first one. Outside mothership topologies a plan with
  dependencies may get a route from the builder that its own validator refuses (`bypasses_parent`).
- `AbortAgentOnly` leaves resources active with the failed agent.

## 8. Not modelled, and why

- *CBBA.* Bids are floating-point scores, `STATUS.md` calls the allocator weak for most missions, and any
  assignment it makes is one that `SwarmRuntime` allows. What is not covered: agreement of the bids. Two
  places worth knowing: an outbid task stays in the loser's bundle (`cbba.rs:154`), and a node that saw no change for a
  round ignores later bids (`cbba.rs:205`).
- *Synchronized commands* (`sync.rs`) evaluate scripted outcomes; a missing outcome counts as success there.
- *Real time*: timeouts are choices, or polls without progress; rates of messages are not modelled.
- Geometry, energy, files, reports and schemas, as listed in section 1.

## 9. Plan

The modules of the plan are there, and every safety and action property that a passing run checks is proved. What could come next
is breadth: the parts that section 8 lists, above all the agreement of the CBBA bids.

## 10. Running

    tlc -workers 2 -config flight.cfg MCMissionFlight
    tlapm MissionFlightProofs.tla

The largest runs are `swarm_faults` (2.3 million states), `swarm_settle` (1.8 million), `partition` (1.7 million) and `flight` (570,000).
