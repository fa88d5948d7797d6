----------------------------- MODULE AutonomyFsm -----------------------------
(***************************************************************************)
(* The autonomy state machine of one agent: the second half of             *)
(* AgentNode::process_inbox_and_allocate (swarm-runtime/src/node/          *)
(* runtime.rs), which turns the heartbeats received in a tick into the     *)
(* agent's mission state.  One step of the code is one call with the       *)
(* current tick; here it is the action Tick(hb), where hb is the set of    *)
(* senders whose heartbeat was in the inbox.  The handler's five parts run *)
(* in the code's order, each as an operator from node record to node       *)
(* record.                                                                 *)
(*                                                                         *)
(* An Option<u64> that is read as unwrap_or(0)-like ("never heard" counts  *)
(* the ticks from 0) starts at 0; the others use NoTick.                   *)
(***************************************************************************)
EXTENDS Integers, Sequences, FiniteSets

CONSTANTS
    PeerIds,                \* peer_ids, in the order of the Vec
    GcsId, MothershipId,    \* NoAgent when the Option is None
    NoAgent,
    GcsLostPolicy,          \* one of GcsPolicies
    AfterTicks,             \* ReturnToLaunch { after_ticks }
    GcsHeartbeatTimeout,    \* gcs_heartbeat_timeout_ticks
    MothershipLostPolicy,   \* one of MothershipPolicies
    StagingTicks,           \* WaitAtStaging { max_ticks }
    NeighborLostPolicy,     \* one of NeighborPolicies
    ReconnectTicks,         \* WaitForReconnect { max_ticks }
    PeerHeartbeatTimeout,   \* peer_heartbeat_timeout_ticks
    InitialLeases,          \* active_leases at start, in the order of the Vec
    InitialMission,         \* mission_state at start
    MaxTick                 \* bound on the clock

Peers == {PeerIds[i] : i \in DOMAIN PeerIds}
Senders == (Peers \cup {GcsId, MothershipId}) \ {NoAgent}

GcsPolicies == {"continue_mission", "hover_in_place", "return_to_launch",
                "abort_immediate"}
MothershipPolicies == {"wait_at_staging", "proceed_autonomously",
                       "return_to_launch"}
NeighborPolicies == {"release_locks_and_continue", "wait_for_reconnect",
                     "abort_mission"}

NoTick == -1

\* The lease records of ActiveLeaseRecord that the machine reads.
LeaseRecord == [lease_id : STRING, expiry_tick : Nat]
Leases == {InitialLeases[i] : i \in DOMAIN InitialLeases}

\* AgentMissionState: the variant, the tick it began at and the tick it is
\* good until (lease expiry, end of the wait); cause is the abort reason.
MissionKinds == {"None", "Idle", "ExecutingSegment", "GcsLost",
                 "ContinuingUnderLease", "WaitingForNeighborReconnect",
                 "Aborting"}
Causes == {"none", "mothership_lost", "neighbor_lost",
           "neighbor_reconnect_timeout"}
Mission == [kind : MissionKinds, since : Nat, until : Nat, cause : Causes]

Plain(k) == [kind |-> k, since |-> 0, until |-> 0, cause |-> "none"]
NoMission == Plain("None")
Idle == Plain("Idle")
GcsLost(since) == [kind |-> "GcsLost", since |-> since, until |-> 0,
                   cause |-> "none"]
ContinuingUnderLease(l) == [kind |-> "ContinuingUnderLease", since |-> 0,
                            until |-> l.expiry_tick, cause |-> "none"]
Waiting(since, until) == [kind |-> "WaitingForNeighborReconnect",
                          since |-> since, until |-> until, cause |-> "none"]
Aborting(cause) == [kind |-> "Aborting", since |-> 0, until |-> 0,
                    cause |-> cause]

ASSUME AgentAssumption ==
    /\ PeerIds \in Seq(Peers)
    /\ NoAgent \notin Peers

ASSUME PolicyAssumption ==
    /\ GcsLostPolicy \in GcsPolicies
    /\ MothershipLostPolicy \in MothershipPolicies
    /\ NeighborLostPolicy \in NeighborPolicies

ASSUME TickAssumption ==
    /\ AfterTicks \in Nat \ {0} /\ GcsHeartbeatTimeout \in Nat \ {0}
    /\ StagingTicks \in Nat \ {0} /\ ReconnectTicks \in Nat \ {0}
    /\ PeerHeartbeatTimeout \in Nat \ {0}
    /\ MaxTick \in Nat

ASSUME StartAssumption ==
    /\ InitialLeases \in Seq(LeaseRecord)
    /\ InitialMission \in {Idle, Plain("ExecutingSegment")}

VARIABLES
    tick,      \* current_tick of the last call
    node,      \* the autonomy fields of AgentNode and the tick's output
    leases     \* the subset of the initial leases still in active_leases

vars == <<tick, node, leases>>

-----------------------------------------------------------------------------
\* Timeouts.

\* gcs_timeout
gcs_timeout ==
    IF GcsLostPolicy = "return_to_launch" THEN AfterTicks
    ELSE IF GcsLostPolicy = "abort_immediate" THEN 1
    ELSE GcsHeartbeatTimeout

\* mothership_timeout, with the u64::MAX of ProceedAutonomously left to
\* MothershipStep, which has no effect under that policy.
mothership_timeout ==
    IF MothershipLostPolicy = "return_to_launch" THEN 1 ELSE StagingTicks

-----------------------------------------------------------------------------
\* The parts of the handler, in the order in which the code runs them.

\* The node at the start of a call: the output fields are fresh.
FreshOutput(n) ==
    [n EXCEPT !.events = {}, !.newlyLost = {}, !.recovered = 0]

\* Mutant: the heartbeat does not clear the "declared lost" flag.
PeerHeartbeatsKeepLost(n, hb, t) ==
    [n EXCEPT !.lastPeer = [p \in Peers |-> IF p \in hb THEN t ELSE @[p]]]

\* Heartbeats of peers: refresh the tracker, forget the loss, and end the
\* wait for a peer that came back by restoring the state before the wait.
PeerHeartbeats(n, hb, t) ==
    LET heard == (hb \cap Peers) \ {GcsId, MothershipId}
        back == n.waitingFor \in heard
    IN [n EXCEPT
          !.lastPeer = [p \in Peers |-> IF p \in heard THEN t ELSE @[p]],
          !.lostPeers = @ \ heard,
          !.waitingFor = IF back THEN NoAgent ELSE @,
          !.mission = IF ~back THEN @
                      ELSE IF n.preWait = NoMission THEN Idle ELSE n.preWait,
          !.preWait = IF back THEN NoMission ELSE @]

\* Mutant: the mothership's return resumes the mission.
MothershipStepResumes(n, hb, t) ==
    IF MothershipId \in hb
    THEN [n EXCEPT !.lastMothership = t, !.mission = Idle]
    ELSE IF t - n.lastMothership >= mothership_timeout
    THEN [n EXCEPT !.mission = Aborting("mothership_lost")]
    ELSE n

\* Mothership silence aborts the mission unless it is already aborting.
MothershipStep(n, hb, t) ==
    IF MothershipId = NoAgent THEN n
    ELSE IF MothershipId \in hb THEN [n EXCEPT !.lastMothership = t]
    ELSE IF /\ MothershipLostPolicy # "proceed_autonomously"
            /\ t - n.lastMothership >= mothership_timeout
            /\ n.mission.kind # "Aborting"
    THEN [n EXCEPT !.mission = Aborting("mothership_lost"),
                   !.events = @ \cup {"mothership_lost"}]
    ELSE n

Autonomous(m) == m.kind \in {"GcsLost", "ContinuingUnderLease"}

\* Mutant: a reconnect resets the mission instead of restoring it.
GcsHeardResets(n, t) ==
    IF ~Autonomous(n.mission) THEN [n EXCEPT !.lastGcs = t]
    ELSE [n EXCEPT !.lastGcs = t, !.mission = Idle, !.preGcs = NoMission,
                   !.gcsLostSince = NoTick, !.leaseExpiry = NoTick]

\* The GCS was heard: leave the autonomous states and report.
GcsHeard(n, t) ==
    LET since == IF n.gcsLostSince = NoTick THEN t ELSE n.gcsLostSince IN
    IF ~Autonomous(n.mission) THEN [n EXCEPT !.lastGcs = t]
    ELSE [n EXCEPT !.lastGcs = t,
                   !.mission = IF n.preGcs = NoMission THEN Idle ELSE n.preGcs,
                   !.preGcs = NoMission,
                   !.gcsLostSince = NoTick,
                   !.leaseExpiry = NoTick,
                   !.events = @ \cup {"gcs_reconnected"},
                   !.recovered = t - since]

ValidLeases(t, ls) == {i \in DOMAIN InitialLeases :
                          /\ InitialLeases[i] \in ls
                          /\ t < InitialLeases[i].expiry_tick}

\* The first lease of active_leases that is valid at tick t.
FirstValidLease(t, ls) ==
    InitialLeases[CHOOSE i \in ValidLeases(t, ls) :
                      \A j \in ValidLeases(t, ls) : i <= j]

\* GCS loss is declared in a state that is not autonomous yet: continue under
\* a valid lease, or engage the policy.
DeclareGcsLost(n, t, ls) ==
    LET m == [n EXCEPT !.gcsLostSince = t,
                       !.preGcs = IF @ = NoMission THEN n.mission ELSE @]
    IN IF ValidLeases(t, ls) # {}
       THEN [m EXCEPT
               !.mission = ContinuingUnderLease(FirstValidLease(t, ls)),
               !.leaseExpiry = FirstValidLease(t, ls).expiry_tick,
               !.events = @ \cup {"continuing_under_lease"}]
       ELSE [m EXCEPT !.mission = GcsLost(t),
                      !.events = @ \cup {"gcs_lost"}]

\* Mutant: the outage starts over when the lease lapses.
LeaseLapsedRestarts(n, t) ==
    [n EXCEPT !.mission = GcsLost(t), !.gcsLostSince = t,
              !.leaseExpiry = NoTick]

\* The lease the agent continued under has run out.
LeaseLapsed(n, t) ==
    [n EXCEPT !.mission = GcsLost(IF n.gcsLostSince = NoTick THEN t
                                  ELSE n.gcsLostSince),
              !.leaseExpiry = NoTick,
              !.events = @ \cup {"lease_expired"}]

\* Mutant: the lease still holds at its expiry tick.
LeaseHoldsAtExpiry(n, t) == n.leaseExpiry # NoTick /\ t <= n.leaseExpiry

LeaseHolds(n, t) == n.leaseExpiry # NoTick /\ t < n.leaseExpiry

\* Mutant: loss is declared one tick late.
GcsStepLate(n, hb, t, ls) ==
    IF GcsId \in hb THEN GcsHeard(n, t)
    ELSE IF t - n.lastGcs <= gcs_timeout THEN n
    ELSE IF Autonomous(n.mission) THEN n
    ELSE DeclareGcsLost(n, t, ls)

\* The GCS part of the handler.
GcsStep(n, hb, t, ls) ==
    IF GcsId = NoAgent THEN n
    ELSE IF GcsId \in hb THEN GcsHeard(n, t)
    ELSE IF t - n.lastGcs < gcs_timeout THEN n
    ELSE IF n.mission.kind = "GcsLost" THEN n
    ELSE IF n.mission.kind = "ContinuingUnderLease"
         THEN IF LeaseHolds(n, t) THEN n ELSE LeaseLapsed(n, t)
    ELSE DeclareGcsLost(n, t, ls)

\* Mutant: the wait ends one tick after its limit.
WaitTimeoutLate(n, t) ==
    IF n.waitingFor # NoAgent /\ t > n.waitUntil
    THEN [n EXCEPT !.waitingFor = NoAgent, !.preWait = NoMission,
                   !.mission = Aborting("neighbor_reconnect_timeout")]
    ELSE n

\* The wait for a neighbour has lasted until its limit.
WaitTimeout(n, t) ==
    IF n.waitingFor # NoAgent /\ t >= n.waitUntil
    THEN [n EXCEPT !.waitingFor = NoAgent,
                   !.preWait = NoMission,
                   !.mission = Aborting("neighbor_reconnect_timeout")]
    ELSE n

Silent(n, t) == {p \in Peers : t - n.lastPeer[p] >= PeerHeartbeatTimeout}

\* The member of S that comes first in peer_ids.
FirstPeer(S) ==
    PeerIds[CHOOSE i \in DOMAIN PeerIds :
                /\ PeerIds[i] \in S
                /\ \A j \in DOMAIN PeerIds : PeerIds[j] \in S => i <= j]

\* Declare the silent peers lost and apply the neighbour policy to them in
\* the order of peer_ids: only the first can start a wait.
PeerTimeouts(n, t) ==
    LET new == Silent(n, t) \ n.lostPeers
        m == [n EXCEPT !.lostPeers = @ \cup new, !.newlyLost = new]
        first == FirstPeer(new)
    IN IF new # {} /\ NeighborLostPolicy = "abort_mission"
       THEN [m EXCEPT !.mission = Aborting("neighbor_lost")]
       ELSE IF /\ new # {}
               /\ NeighborLostPolicy = "wait_for_reconnect"
               /\ n.waitingFor = NoAgent
       THEN [m EXCEPT !.preWait = n.mission,
                      !.waitingFor = first,
                      !.waitUntil = t + ReconnectTicks,
                      !.mission = Waiting(t, t + ReconnectTicks)]
       ELSE m

-----------------------------------------------------------------------------
Init ==
    /\ tick = 0
    /\ leases = Leases
    /\ node = [mission |-> InitialMission,
               lastGcs |-> 0, lastMothership |-> 0,
               lastPeer |-> [p \in Peers |-> 0],
               lostPeers |-> {},
               gcsLostSince |-> NoTick, leaseExpiry |-> NoTick,
               preGcs |-> NoMission, preWait |-> NoMission,
               waitingFor |-> NoAgent, waitUntil |-> 0,
               events |-> {}, newlyLost |-> {}, recovered |-> 0]

\* The FSM half of process_inbox_and_allocate for the next tick, with
\* heartbeats from hb in the inbox.
Handle(n, hb, t, ls) ==
    LET n1 == PeerHeartbeats(FreshOutput(n), hb, t)
        n2 == MothershipStep(n1, hb, t)
        n3 == GcsStep(n2, hb, t, ls)
        n4 == WaitTimeout(n3, t)
    IN PeerTimeouts(n4, t)

Tick(hb) ==
    /\ tick < MaxTick
    /\ tick' = tick + 1
    /\ node' = Handle(node, hb, tick + 1, leases)
    /\ UNCHANGED leases

\* Between two ticks the partition supervisor withdraws a lease from
\* active_leases (the loser of a heal conflict, or of a supervisor reset).
RevokeLease(l) ==
    /\ l \in leases
    /\ leases' = leases \ {l}
    /\ UNCHANGED <<tick, node>>

Next ==
    \/ \E hb \in SUBSET Senders : Tick(hb)
    \/ \E l \in Leases : RevokeLease(l)

Spec == Init /\ [][Next]_vars

-----------------------------------------------------------------------------
\* Properties.

EventNames == {"mothership_lost", "gcs_lost", "gcs_reconnected",
               "lease_expired", "continuing_under_lease"}

NodeType == [mission : Mission, preGcs : Mission, preWait : Mission,
             lastGcs : Nat, lastMothership : Nat, lastPeer : [Peers -> Nat],
             lostPeers : SUBSET Peers, newlyLost : SUBSET Peers,
             gcsLostSince : Nat \cup {NoTick}, leaseExpiry : Nat \cup {NoTick},
             waitingFor : Peers \cup {NoAgent}, waitUntil : Nat,
             events : SUBSET EventNames, recovered : Int]

\* The state is well typed: no optional tick leaks into a mission state
\* (runtime.rs, the fields of AgentNode).
TypeOK == tick \in Nat /\ leases \subseteq Leases /\ node \in NodeType

\* The neighbour detector is exact after every tick: a peer is declared lost
\* if and only if its last heartbeat is PeerHeartbeatTimeout ticks old.
\* (lost_peers_detected against last_peer_heartbeat_ticks, runtime.rs.)
DetectorExact == node.lostPeers = Silent(node, tick)

\* A wait for a neighbour is never forgotten past its limit, and the agent
\* never waits for a neighbour that is not lost.
\* (waiting_for_neighbor_reconnect, runtime.rs.)
WaitIsArmed ==
    node.waitingFor # NoAgent =>
        node.waitingFor \in node.lostPeers /\ tick < node.waitUntil

\* Only the GCS drives the mission state: the mothership and the neighbours
\* are watched but their loss does not change it.
GcsOnly ==
    /\ GcsId # NoAgent
    /\ MothershipId = NoAgent \/ MothershipLostPolicy = "proceed_autonomously"
    /\ NeighborLostPolicy = "release_locks_and_continue"

GcsSilent == tick - node.lastGcs >= gcs_timeout

\* The agent is autonomous exactly while the GCS has been silent for the
\* policy's threshold.
AutonomousIffGcsSilent == GcsOnly => (Autonomous(node.mission) <=> GcsSilent)

\* The lease an agent continues under has not expired, and it is the one
\* whose expiry the agent watches: authority ends with the lease although
\* nobody can reach the agent.
LeaseAuthority ==
    (GcsOnly /\ node.mission.kind = "ContinuingUnderLease") =>
        /\ tick < node.mission.until
        /\ node.leaseExpiry = node.mission.until

\* Through any sequence of outages, leases and lapses the mission the agent
\* was on is either current or saved, so that every reconnect restores it.
MissionPreserved ==
    GcsOnly => IF Autonomous(node.mission)
               THEN node.preGcs = InitialMission
               ELSE node.mission = InitialMission /\ node.preGcs = NoMission

\* The reconnect report counts the ticks since the loss was declared, also
\* when a lease carried the agent through a part of the outage.
OutageReported ==
    [][(GcsOnly /\ tick' # tick /\ "gcs_reconnected" \in node'.events) =>
           node'.recovered = tick' - node.lastGcs - gcs_timeout]_vars

\* The mission is aborted, or it will be when the wait in hand is over.
Aborted(n) ==
    \/ n.mission.kind = "Aborting"
    \/ n.waitingFor # NoAgent /\ n.preWait.kind = "Aborting"

(***************************************************************************)
(* Without a GCS an abort stands, whatever comes back and whatever is      *)
(* waited for, with one exception that is in the code: a mothership lost   *)
(* during a wait for a neighbour aborts the mission (runtime.rs:423), and  *)
(* the return of that neighbour restores the mission saved before the wait *)
(* over the abort (runtime.rs:393).  Even then the abort is made again in  *)
(* the same tick unless the mothership has been heard in the meantime.     *)
(***************************************************************************)
AbortStands ==
    [][(GcsId = NoAgent /\ Aborted(node) /\ ~Aborted(node')) =>
           /\ node.mission = Aborting("mothership_lost")
           /\ node.waitingFor # NoAgent /\ node.preWait.kind # "Aborting"
           /\ node'.lastPeer[node.waitingFor] = tick'
           /\ tick' - node'.lastMothership < mothership_timeout]_vars

=============================================================================
