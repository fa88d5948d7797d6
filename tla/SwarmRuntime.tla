---------------------------- MODULE SwarmRuntime ----------------------------
(***************************************************************************)
(* The distributed task layer of the swarm: every agent runs an AgentNode  *)
(* (swarm-runtime/src/node) with a task registry and a membership view of  *)
(* its own, over the simulated network of swarm-comms/src/network.rs,      *)
(* driven by the tick loop of swarm-sim (runner/internal/tick_loop.rs).    *)
(*                                                                         *)
(* One tick of the loop is BeginTick (crashes, partitions, heartbeats),    *)
(* the turns of the live nodes in the order of the node list, and EndTick  *)
(* (the runner's completions and releases).  A turn is one call of         *)
(* process_inbox_and_allocate; the iterations of its loop over the gossip  *)
(* buffer are steps of their own: NodeInbox, NodeGossip for each message,  *)
(* NodeFinish.  Agents are numbered in the order of their ids.             *)
(***************************************************************************)
EXTENDS TaskRegistry, Membership, FiniteSets

CONSTANTS
    InjectAt,             \* tick of the dynamic task event, 0: initial task
    GossipInterval,       \* gossip_interval_ticks
    Generation,           \* AgentNode::generation of each node
    Delays,               \* possible delivery delays of a message, in ticks
    PromptDelay,          \* the delay of an undisturbed message
    MaxFaults,            \* bound on lost or late messages
    MaxLost,              \* bound on lost ones, 0 without packet loss
    MaxCrashes,           \* bound on FailureEvents
    MaxPartitions,        \* bound on PartitionEvents
    MaxExhausted,         \* bound on battery exhaustions
    MaxReleases,          \* bound on releases by the runner
    MaxTick               \* config.max_ticks

ASSUME RuntimeAssumption ==
    /\ NoOwner \notin Agents
    /\ InjectAt \in [Tasks -> Nat]
    /\ GossipInterval \in Nat \ {0}
    /\ Generation \in [Agents -> Nat \ {0}]
    /\ Delays \subseteq Nat /\ PromptDelay \in Delays
    /\ MaxFaults \in Nat /\ MaxLost \in Nat /\ MaxCrashes \in Nat
    /\ MaxPartitions \in Nat /\ MaxExhausted \in Nat
    /\ MaxReleases \in Nat /\ MaxTick \in Nat

VARIABLES
    tick,        \* the clock, also current_tick of the network
    turn,        \* the node whose turn it is, 0 between ticks, N + 1 at the end
    phase,       \* "inbox" or "gossip": where that turn is
    crashedAt,   \* crashed_agents: the tick of the failure, 0 for a live agent
    cut,         \* partitions of the network, as sets of two agents
    hbs,         \* heartbeats in flight
    gossips,     \* gossip messages in flight
    view,        \* coordinator.membership of each node
    reg,         \* coordinator.registry of each node
    sinceGossip, \* ticks_since_last_gossip of each node
    budget,      \* what is left of the bounds on faults, crashes, ...
    calm         \* history: ticks since the last disturbance

vars == <<tick, turn, phase, crashedAt, cut, hbs, gossips, view, reg,
          sinceGossip, budget, calm>>

-----------------------------------------------------------------------------
\* The network.

Live == {a \in Agents : crashedAt[a] = 0}

\* The links a message can take: Transport::send drops a message
\* over a cut, and the connectivity snapshot holds no crashed agent.
Links(alive, parts) ==
    {l \in alive \X alive : l[1] # l[2] /\ {l[1], l[2]} \notin parts}

Lost == -1

\* The fates of messages over the links D that are not delivered promptly:
\* lost (packet loss, no path) or delayed (latency, hops, jitter).
Fates(D) == [D -> (Delays \ {PromptDelay}) \cup {Lost}]

\* The number of messages that are lost (packet_loss_rate, a mesh with gaps).
LostIn(fate) == Cardinality({l \in DOMAIN fate : fate[l] = Lost})

Disturbable(L, b) == {D \in SUBSET L : Cardinality(D) <= b}

\* The links over which a message sent now arrives, with its delivery tick.
Arrivals(L, now, fate) ==
    {<<l, now + PromptDelay>> : l \in L \ DOMAIN fate} \cup
    {<<l, now + fate[l]>> : l \in {k \in L \cap DOMAIN fate : fate[k] # Lost}}

Ready(ms, i) == {m \in ms : m.to = i /\ m.deliver <= tick}

\* Queues are first-in first-out in the order of sending: by tick, then by
\* the turn of the sender.
Before(m, n) == m.sent < n.sent \/ (m.sent = n.sent /\ m.from < n.from)
First(ms) == CHOOSE m \in ms : \A n \in ms : ~Before(n, m)

-----------------------------------------------------------------------------
\* The parts of a node's turn.

Latest(S) == CHOOSE s \in S : \A r \in S : r <= s

\* The ticks of the heartbeats of agent a in the inbox; the node's own
\* heartbeat is recorded without the network.
SentBy(i, a) ==
    {m.sent : m \in {h \in Ready(hbs, i) : h.from = a}}
        \cup (IF a = i THEN {tick} ELSE {})

\* The view after the node's own heartbeat and those of its inbox.  Every
\* heartbeat of an agent has the agent's generation, so the latest decides.
Heartbeats(i) ==
    [a \in Agents |->
        IF SentBy(i, a) = {} THEN view[i][a]
        ELSE record_heartbeat(view[i][a], Latest(SentBy(i, a)),
                              Generation[a])]

\* Mutant: the tasks of a failed agent stay assigned to it.
process_tick_keeps(i, v, ts) ==
    [view |-> mark_dead(v, detect(v, tick)),
     reg |-> expire_tasks(insert(reg[i], ts), tick)]

\* Coordinator::process_tick: inject, detect and release, expire.
process_tick(i, v, ts) ==
    LET failed == detect(v, tick) IN
    [view |-> mark_dead(v, failed),
     reg |-> expire_tasks(release_agent_tasks(insert(reg[i], ts), failed),
                          tick)]

Injected == {t \in Tasks : InjectAt[t] # 0 /\ InjectAt[t] = tick}

\* Mutant: an assignment is taken over from a dead owner.
GossipEntryDead(v, e, a, g) ==
    IF e.owner = NoOwner THEN Assigned(e, a)
    ELSE IF a > e.owner THEN Assigned(Released(e), a) ELSE e

\* Mutant: a conflict is always decided for the local owner.
GossipEntryLocal(v, e, a, g) ==
    IF e.owner = NoOwner /\ v[a].alive THEN Assigned(e, a) ELSE e

\* What gossip of owner a, with a's generation g, does to an entry: adopt a
\* live owner, and on a conflict prefer the higher generation, then id.
GossipEntry(v, e, a, g) ==
    IF e.owner = a \/ ~v[a].alive THEN e
    ELSE IF e.owner = NoOwner THEN Assigned(e, a)
    ELSE IF \/ g > v[e.owner].generation
            \/ g = v[e.owner].generation /\ a > e.owner
    THEN Assigned(Released(e), a)
    ELSE e

\* apply_gossip_messages for one message: its assignments, then its
\* generations.
GossipRegistry(v, r, m) ==
    [t \in Tasks |-> IF m.owner[t] = NoOwner THEN r[t]
                     ELSE GossipEntry(v, r[t], m.owner[t],
                                      m.generation[m.owner[t]])]

\* Mutant: gossip about a later generation counts as a heartbeat of this tick.
GossipViewNow(v, m) ==
    [a \in Agents |-> IF m.generation[a] > v[a].generation
                      THEN record_heartbeat(v[a], tick, m.generation[a])
                      ELSE v[a]]

GossipView(v, m) ==
    [a \in Agents |-> IF m.generation[a] > v[a].generation
                      THEN record_heartbeat(v[a], 0, m.generation[a])
                      ELSE v[a]]

\* allocate_unassigned, with the allocator's decisions as a function from
\* tasks to agents; assign refuses a decision on a task that is not Unassigned.
allocate_unassigned(r, decisions) ==
    [t \in Tasks |-> IF t \in DOMAIN decisions
                     THEN Assigned(r[t], decisions[t]) ELSE r[t]]

\* unassigned(): what the allocator is offered, completed tasks included.
Free(r) ==
    {t \in Tasks : /\ r[t].status # "Absent"
                   /\ r[t].status = "Unassigned" \/ r[t].owner = NoOwner}

-----------------------------------------------------------------------------
Init ==
    /\ tick = 0 /\ turn = 0 /\ phase = "inbox"
    /\ crashedAt = [a \in Agents |-> 0]
    /\ cut = {} /\ hbs = {} /\ gossips = {}
    /\ view = [i \in Agents |->
                 [a \in Agents |-> [alive |-> TRUE, last |-> 0,
                                    generation |-> 1]]]
    /\ reg = [i \in Agents |->
                 [t \in Tasks |-> IF InjectAt[t] = 0 THEN Unassigned
                                  ELSE Absent]]
    /\ sinceGossip = [i \in Agents |-> 0]
    /\ budget = [fault |-> MaxFaults, lost |-> MaxLost,
                 crash |-> MaxCrashes, part |-> MaxPartitions, exhaust |-> MaxExhausted,
                 release |-> MaxReleases]
    /\ calm = 0

\* Mutant: the loop runs one past the end of the list.
NextTurnPast(i, crashes) ==
    CHOOSE j \in i + 1 .. N + 2 :
        /\ j = N + 2 \/ (j \in Agents /\ crashes[j] = 0)
        /\ \A k \in i + 1 .. j - 1 : k \in Agents => crashes[k] # 0

\* The next live node after i, N + 1 if there is none.
NextTurn(i, crashes) ==
    CHOOSE j \in i + 1 .. N + 1 :
        /\ j = N + 1 \/ crashes[j] = 0
        /\ \A k \in i + 1 .. j - 1 : crashes[k] # 0

\* A new tick: failures, partition events, then the heartbeats of all live
\* nodes.  crashes are the agents that fail, parts the partitions from now on.
BeginTick(crashes, parts, D, fate) ==
    /\ turn = 0 /\ tick < MaxTick
    /\ Cardinality(crashes) <= budget.crash
    /\ Cardinality(parts \ cut) <= budget.part
    /\ tick' = tick + 1
    /\ crashedAt' = [a \in Agents |-> IF a \in crashes THEN tick + 1
                                      ELSE crashedAt[a]]
    /\ cut' = parts
    /\ hbs' = hbs \cup
           {[from |-> p[1][1], to |-> p[1][2], sent |-> tick + 1,
             deliver |-> p[2]] :
                p \in Arrivals(Links(Live \ crashes, parts), tick + 1, fate)}
    /\ turn' = NextTurn(0, crashedAt') /\ phase' = "inbox"
    /\ budget' = [budget EXCEPT !.crash = @ - Cardinality(crashes),
                                !.part = @ - Cardinality(parts \ cut),
                                !.fault = @ - Cardinality(D),
                                !.lost = @ - LostIn(fate)]
    /\ calm' = IF crashes # {} \/ parts # {} \/ D # {} THEN 0 ELSE calm + 1
    /\ UNCHANGED <<gossips, view, reg, sinceGossip>>

\* First half of process_inbox_and_allocate: heartbeats, failures, expiry.
NodeInbox(i) ==
    /\ turn = i /\ phase = "inbox"
    /\ LET out == process_tick(i, Heartbeats(i), Injected) IN
       /\ view' = [view EXCEPT ![i] = out.view]
       /\ reg' = [reg EXCEPT ![i] = out.reg]
    /\ hbs' = hbs \ Ready(hbs, i)
    /\ phase' = "gossip"
    /\ UNCHANGED <<tick, turn, crashedAt, cut, gossips, sinceGossip, budget,
                   calm>>

\* The next message of the gossip buffer.
NodeGossip(i) ==
    /\ turn = i /\ phase = "gossip"
    /\ Ready(gossips, i) # {}
    /\ LET m == First(Ready(gossips, i)) IN
       /\ reg' = [reg EXCEPT ![i] = GossipRegistry(view[i], reg[i], m)]
       /\ view' = [view EXCEPT ![i] = GossipView(view[i], m)]
       /\ gossips' = gossips \ {m}
    /\ UNCHANGED <<tick, turn, phase, crashedAt, cut, hbs, sinceGossip, budget,
                   calm>>

\* maybe_send_gossip
GossipDue(i) == sinceGossip[i] + 1 >= GossipInterval
GossipLinks(i) == {l \in Links(Live, cut) : l[1] = i /\ GossipDue(i)}

\* send_gossip: owners and generations as the node sees them now.
GossipMessage(i, r, to, d) ==
    [from |-> i, to |-> to, sent |-> tick, deliver |-> d,
     owner |-> [t \in Tasks |-> r[t].owner],
     generation |-> [a \in Agents |-> view[i][a].generation]]

\* The rest of the turn: allocation, gossip, movement.  exhausted are the
\* agents whose battery runs out in the node's view.
NodeFinish(i, decisions, exhausted, D, fate) ==
    /\ turn = i /\ phase = "gossip"
    /\ Ready(gossips, i) = {}
    /\ LET r == allocate_unassigned(reg[i], decisions)
           due == GossipDue(i)
       IN /\ \A a \in exhausted : \E t \in Tasks : r[t].owner = a
          /\ sinceGossip' = [sinceGossip EXCEPT ![i] = IF due THEN 0 ELSE @ + 1]
          /\ gossips' = gossips \cup
                 {GossipMessage(i, r, p[1][2], p[2]) :
                      p \in Arrivals(GossipLinks(i), tick, fate)}
          /\ view' = [view EXCEPT ![i] = mark_dead(@, exhausted)]
          /\ reg' = [reg EXCEPT ![i] = release_agent_tasks(r, exhausted)]
          /\ budget' = [budget EXCEPT !.exhaust = @ - Cardinality(exhausted),
                                      !.fault = @ - Cardinality(D),
                                      !.lost = @ - LostIn(fate)]
          /\ calm' = IF D # {} \/ exhausted # {} \/ r # reg[i]
                     THEN 0 ELSE calm
    /\ turn' = NextTurn(i, crashedAt) /\ phase' = "inbox"
    /\ UNCHANGED <<tick, crashedAt, cut, hbs>>

\* After the turns: each live node completes the tasks of its own that it
\* has reached, and the runner releases the tasks ts (a wildfire zone whose
\* priority rose) on every live node.
EndTick(done, ts) ==
    /\ turn = N + 1
    /\ turn' = 0
    /\ reg' = [i \in Agents |->
                 IF i \in Live
                 THEN release_tasks(complete_tasks(reg[i], done[i]), ts)
                 ELSE reg[i]]
    /\ calm' = IF ts # {} THEN 0 ELSE calm
    /\ budget' = [budget EXCEPT !.release = @ - Cardinality(ts)]
    /\ UNCHANGED <<tick, phase, crashedAt, cut, hbs, gossips, view,
                   sinceGossip>>

Pairs == {{p[1], p[2]} : p \in {q \in Agents \X Agents : q[1] # q[2]}}

\* The tasks that a node may complete: the ones it holds itself.
Own(i) == {t \in Tasks : reg[i][t].owner = i}

Begin ==
    \E crashes \in SUBSET Live, parts \in SUBSET Pairs :
        /\ Cardinality(crashes) <= budget.crash
        /\ Cardinality(parts \ cut) <= budget.part
        /\ \E D \in Disturbable(Links(Live \ crashes, parts), budget.fault) :
               \E fate \in Fates(D) :
                   /\ LostIn(fate) <= budget.lost
                   /\ BeginTick(crashes, parts, D, fate)

Finish(i) ==
    \E T \in SUBSET Free(reg[i]) :
        \E decisions \in [T -> alive_agents(view[i])],
           exhausted \in Disturbable(alive_agents(view[i]), budget.exhaust),
           D \in Disturbable(GossipLinks(i), budget.fault) :
            \E fate \in Fates(D) :
                /\ LostIn(fate) <= budget.lost
                /\ NodeFinish(i, decisions, exhausted, D, fate)

End ==
    \E done \in [Agents -> SUBSET Tasks],
       ts \in Disturbable(Tasks, budget.release) :
        /\ \A i \in Agents : done[i] \subseteq Own(i)
        /\ EndTick(done, ts)

Next ==
    \/ Begin
    \/ \E i \in Agents : NodeInbox(i) \/ NodeGossip(i) \/ Finish(i)
    \/ End

Spec == Init /\ [][Next]_vars

-----------------------------------------------------------------------------
\* Properties.

Heartbeat == [from : Agents, to : Agents, sent : Nat, deliver : Nat]
Gossip == [from : Agents, to : Agents, sent : Nat, deliver : Nat,
           owner : [Tasks -> Agents \cup {NoOwner}],
           generation : [Agents -> Nat]]

TypeOK ==
    /\ tick \in Nat /\ turn \in 0 .. N + 1 /\ phase \in {"inbox", "gossip"}
    /\ crashedAt \in [Agents -> Nat]
    /\ cut \subseteq Pairs
    /\ hbs \subseteq Heartbeat /\ gossips \subseteq Gossip
    /\ view \in [Agents -> View]
    /\ reg \in [Agents -> Registry(Agents)]
    /\ sinceGossip \in [Agents -> Nat]

\* No node keeps a task with an agent that the node itself believes dead: the
\* detector, battery exhaustion, gossip and the allocator never leave work
\* where nobody will do it (coordinator.rs, node/gossip.rs).
OwnerBelievedAlive ==
    \A i \in Agents, t \in Tasks :
        reg[i][t].owner # NoOwner => view[i][reg[i][t].owner].alive

\* All nodes run with the generation their peers start from (no restarts).
OneGeneration == \A a \in Agents : Generation[a] = 1

\* Node i has read its inbox in the current tick.
HasRead(i) == turn > i \/ (turn = i /\ phase = "gossip") \/ turn = 0

\* From TimeoutTicks ticks after a crash on, every live node that has read
\* its inbox believes the crashed agent dead, whatever heartbeats of it are
\* still under way or overtake each other (failure.rs, membership.rs).
CrashDetected ==
    OneGeneration =>
        \A a \in Agents, i \in Live :
            /\ crashedAt[a] # 0
            /\ tick >= crashedAt[a] + TimeoutTicks
            /\ HasRead(i)
            => ~view[i][a].alive

\* Whatever the generations: gossip about a later generation than a node knows
\* makes a crashed agent alive again (gossip.rs:76), but only for the rest of the
\* turn.  Each time the node reads its inbox, from TimeoutTicks ticks after the
\* crash on, it ends up believing it dead and holding no task of it.
CrashRedetected ==
    [][\A i \in Live, a \in Agents :
           /\ turn = i /\ phase = "inbox" /\ phase' = "gossip"
           /\ crashedAt[a] # 0 /\ tick >= crashedAt[a] + TimeoutTicks
           => /\ ~view'[i][a].alive
              /\ \A t \in Tasks : reg'[i][t].owner # a]_vars

\* With CrashDetected and OwnerBelievedAlive: the tasks of a crashed agent
\* are back with the others after TimeoutTicks ticks.
TasksRecovered ==
    OneGeneration =>
        \A a \in Agents, i \in Live, t \in Tasks :
            /\ crashedAt[a] # 0
            /\ tick >= crashedAt[a] + TimeoutTicks
            /\ HasRead(i)
            => reg[i][t].owner # a

\* A live node that has read its inbox believes itself alive: no gossip about
\* its generation makes it drop its own heartbeat (runtime.rs, the node's own
\* record_heartbeat).  Battery exhaustion is the exception.
SelfAlive ==
    MaxExhausted = 0 =>
        \A i \in Live : HasRead(i) => view[i][i].alive

\* So far no message was lost or cut off, no battery was exhausted, and no
\* message is later than the timeout.
Reliable ==
    /\ budget.lost = MaxLost /\ budget.part = MaxPartitions
    /\ budget.exhaust = MaxExhausted
    /\ \A d \in Delays : d <= TimeoutTicks

\* As long as the links are reliable no live node suspects a live one, up to a delay of
\* exactly timeout_ticks (failure.rs).
NoFalseSuspicion ==
    Reliable => \A i, a \in Live : view[i][a].alive

\* The owners that the live nodes see agree.
ViewsAgree ==
    \A i, j \in Live, t \in Tasks :
        (\A k \in Agents : reg[k][t].status # "Completed") =>
            reg[i][t].owner = reg[j][t].owner

\* Undisturbed messages take no tick, none is later than the timeout, and the
\* timeout is at least one.
Timely ==
    /\ PromptDelay = 0 /\ TimeoutTicks # 0
    /\ \A d \in Delays : d <= TimeoutTicks

\* TimeoutTicks ticks until everyone has heard from the live and given up the
\* crashed, GossipInterval ticks until everyone has told its owners.  Gossip
\* about a later generation makes a crashed agent alive for the rest of the
\* turn; such gossip needs another interval and a tick to end first.
SettleTicks ==
    TimeoutTicks + GossipInterval
        + (IF OneGeneration THEN 0 ELSE GossipInterval + 1)

\* Gossip settles: after SettleTicks ticks without a crash, a cut, a lost or
\* late message, a release or a new allocation, all live nodes agree on the
\* owner of every task that nobody completed (node/gossip.rs;
\* convergence_ticks of tick_loop.rs).
ViewsSettle ==
    (Timely /\ turn = 0 /\ calm >= SettleTicks) => ViewsAgree

\* A completed task is never given out again by the node that completed it,
\* although unassigned() keeps offering it to the allocator, and whatever gossip
\* and runner do (task_registry.rs).  A node forgets it at its expiry and not
\* before: expire_tasks spares only tasks in progress, contrary to its comment
\* (task_registry.rs:99).
CompletedIsFinal ==
    [][\A i \in Agents, t \in Tasks :
           reg[i][t].status = "Completed" =>
               \/ reg'[i][t].status = "Completed"
               \/ reg'[i][t].status = "Absent" /\ ExpiresAt[t] # 0 /\ ExpiresAt[t] <= tick]_vars

=============================================================================
