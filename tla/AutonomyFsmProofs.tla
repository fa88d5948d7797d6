--------------------------- MODULE AutonomyFsmProofs ---------------------------
(***************************************************************************)
(* Proofs about AutonomyFsm for every number of peers, every policy and    *)
(* every timeout.                                                          *)
(*                                                                         *)
(* Each part of the handler gets a lemma on what it does to a well-typed   *)
(* node record; the theorems compose them.                                 *)
(***************************************************************************)
EXTENDS AutonomyFsm, WellFoundedInduction, TLAPS

\* A non-empty set of natural numbers has a least element.
LEMMA LeastElement ==
    ASSUME NEW S, S \subseteq Nat, S # {}
    PROVE  \E i \in S : \A j \in S : i <= j
  <1>1. PICK m \in S : ~ (\E y \in S : <<y, m>> \in OpToRel(<, Nat))
    BY NatLessThanWellFounded, WFMin, Zenon
  <1>2. \A y \in S : ~ (y < m)
    BY <1>1 DEF OpToRel
  <1> QED
    BY <1>2

\* Constants of the handler have the types the parts need.
LEMMA TimeoutTypes ==
    gcs_timeout \in Nat \ {0} /\ mothership_timeout \in Nat \ {0}
  BY PolicyAssumption, TickAssumption
     DEF gcs_timeout, mothership_timeout

\* Every mission constructor yields a mission.
LEMMA MissionTypes ==
    /\ Idle \in Mission /\ NoMission \in Mission /\ InitialMission \in Mission
    /\ \A t \in Nat : GcsLost(t) \in Mission
    /\ \A s, u \in Nat : Waiting(s, u) \in Mission
    /\ \A c \in Causes : Aborting(c) \in Mission
    /\ \A l \in LeaseRecord : ContinuingUnderLease(l) \in Mission
  BY StartAssumption
     DEF Idle, NoMission, Plain, GcsLost, Waiting, Aborting, LeaseRecord,
         ContinuingUnderLease, Mission, MissionKinds, Causes

\* The lease FirstValidLease picks is one of the initial leases, valid at t.
LEMMA FirstValidLeaseProperty ==
    ASSUME NEW t \in Nat, NEW ls, ValidLeases(t, ls) # {}
    PROVE  /\ FirstValidLease(t, ls) \in LeaseRecord
           /\ t < FirstValidLease(t, ls).expiry_tick
  <1> DEFINE V == ValidLeases(t, ls)
             least(i) == \A j \in V : i <= j
  <1>1. V \subseteq Nat
    BY StartAssumption DEF ValidLeases
  <1>2. \E i \in V : least(i)
    BY <1>1, LeastElement
  <1>3. PICK k \in V : k = CHOOSE i \in V : least(i)
    BY <1>2
  <1>4. FirstValidLease(t, ls) = InitialLeases[k]
    BY <1>3 DEF FirstValidLease
  <1> QED
    BY <1>4, StartAssumption DEF ValidLeases

\* The peer FirstPeer picks is a member of the set it is given.
LEMMA FirstPeerProperty ==
    ASSUME NEW S, S \subseteq Peers, S # {}
    PROVE  FirstPeer(S) \in S
  <1> DEFINE I == {i \in DOMAIN PeerIds : PeerIds[i] \in S}
             first(i) == /\ PeerIds[i] \in S
                         /\ \A j \in DOMAIN PeerIds : PeerIds[j] \in S => i <= j
  <1>1. I \subseteq Nat /\ I # {}
    BY AgentAssumption DEF Peers
  <1>2. \E i \in DOMAIN PeerIds : first(i)
    BY <1>1, LeastElement
  <1>3. PICK k \in DOMAIN PeerIds :
            first(k) /\ k = CHOOSE i \in DOMAIN PeerIds : first(i)
    BY <1>2
  <1> QED
    BY <1>3 DEF FirstPeer

-----------------------------------------------------------------------------
\* What each part of the handler does to a well-typed node record.

LEMMA FreshOutputProperty ==
    ASSUME NEW n \in NodeType
    PROVE  LET m == FreshOutput(n) IN
           /\ m \in NodeType /\ m.events = {}
           /\ m.mission = n.mission /\ m.lastGcs = n.lastGcs
           /\ m.preGcs = n.preGcs /\ m.gcsLostSince = n.gcsLostSince
           /\ m.leaseExpiry = n.leaseExpiry /\ m.lastPeer = n.lastPeer
           /\ m.lostPeers = n.lostPeers /\ m.waitingFor = n.waitingFor
           /\ m.waitUntil = n.waitUntil
  <1>1. FreshOutput(n) \in NodeType
    <2>1. {} \in SUBSET EventNames /\ {} \in SUBSET Peers /\ 0 \in Int
      OBVIOUS
    <2> QED
      BY <2>1 DEF FreshOutput, NodeType
  <1> QED
    BY <1>1 DEF FreshOutput, NodeType

Heard(hb) == (hb \cap Peers) \ {GcsId, MothershipId}

LEMMA PeerHeartbeatsProperty ==
    ASSUME NEW n \in NodeType, NEW t \in Nat, NEW hb \in SUBSET Senders
    PROVE  LET m == PeerHeartbeats(n, hb, t) IN
           /\ m \in NodeType /\ m.events = n.events
           /\ m.lastGcs = n.lastGcs
           /\ m.preGcs = n.preGcs /\ m.gcsLostSince = n.gcsLostSince
           /\ m.leaseExpiry = n.leaseExpiry /\ m.waitUntil = n.waitUntil
           /\ m.lostPeers = n.lostPeers \ Heard(hb)
           /\ m.lastPeer = [p \in Peers |-> IF p \in Heard(hb) THEN t
                                            ELSE n.lastPeer[p]]
           /\ m.waitingFor = IF n.waitingFor \in Heard(hb) THEN NoAgent
                             ELSE n.waitingFor
           /\ n.waitingFor \notin Heard(hb) => m.mission = n.mission
  <1> DEFINE m == PeerHeartbeats(n, hb, t)
             last == [p \in Peers |-> IF p \in Heard(hb) THEN t ELSE n.lastPeer[p]]
             back == n.waitingFor \in Heard(hb)
             mission == IF ~back THEN n.mission
                        ELSE IF n.preWait = NoMission THEN Idle ELSE n.preWait
             waiting == IF back THEN NoAgent ELSE n.waitingFor
             preWait == IF back THEN NoMission ELSE n.preWait
  <1>1. last \in [Peers -> Nat]
    BY DEF NodeType
  <1>2. /\ mission \in Mission /\ preWait \in Mission
        /\ waiting \in Peers \cup {NoAgent} /\ n.lostPeers \ Heard(hb) \subseteq Peers
    BY MissionTypes DEF NodeType
  <1>3. m = [n EXCEPT !.lastPeer = last, !.lostPeers = n.lostPeers \ Heard(hb),
                      !.waitingFor = waiting, !.mission = mission, !.preWait = preWait]
    BY Zenon DEF PeerHeartbeats, Heard
  <1> HIDE DEF m, last, mission, waiting, preWait
  <1>4. m \in NodeType
    BY <1>1, <1>2, <1>3 DEF NodeType
  <1>5. /\ m.lastPeer = last /\ m.lostPeers = n.lostPeers \ Heard(hb)
        /\ m.waitingFor = waiting /\ m.mission = mission
        /\ m.events = n.events /\ m.lastGcs = n.lastGcs
        /\ m.preGcs = n.preGcs /\ m.gcsLostSince = n.gcsLostSince
        /\ m.leaseExpiry = n.leaseExpiry /\ m.waitUntil = n.waitUntil
    BY <1>3 DEF NodeType
  <1> QED
    BY <1>4, <1>5 DEF m, last, mission, waiting

\* The same part when no wait ends, without the trackers.
LEMMA PeerHeartbeatsQuiet ==
    ASSUME NEW n \in NodeType, NEW t \in Nat, NEW hb \in SUBSET Senders,
           n.waitingFor \notin Heard(hb)
    PROVE  LET m == PeerHeartbeats(n, hb, t) IN
           /\ m \in NodeType /\ m.events = n.events
           /\ m.lastGcs = n.lastGcs /\ m.mission = n.mission
           /\ m.preGcs = n.preGcs /\ m.gcsLostSince = n.gcsLostSince
           /\ m.leaseExpiry = n.leaseExpiry /\ m.waitingFor = n.waitingFor
  BY MissionTypes DEF PeerHeartbeats, NodeType, Heard

LEMMA MothershipStepProperty ==
    ASSUME NEW n \in NodeType, NEW t \in Nat, NEW hb \in SUBSET Senders
    PROVE  LET m == MothershipStep(n, hb, t) IN
           /\ m \in NodeType
           /\ m.lastGcs = n.lastGcs
           /\ m.preGcs = n.preGcs /\ m.gcsLostSince = n.gcsLostSince
           /\ m.leaseExpiry = n.leaseExpiry /\ m.waitUntil = n.waitUntil
           /\ m.lostPeers = n.lostPeers /\ m.lastPeer = n.lastPeer
           /\ m.waitingFor = n.waitingFor
           /\ "gcs_reconnected" \in m.events <=> "gcs_reconnected" \in n.events
           /\ n.mission.kind = "Aborting" => m.mission.kind = "Aborting"
           /\ GcsOnly => m.mission = n.mission
  <1>1. Aborting("mothership_lost") \in Mission
    BY MissionTypes DEF Causes
  <1>2. MothershipStep(n, hb, t) \in NodeType
    BY <1>1 DEF MothershipStep, NodeType, EventNames
  <1> QED
    BY <1>2 DEF MothershipStep, NodeType, GcsOnly, Aborting

LEMMA GcsHeardType ==
    ASSUME NEW n \in NodeType, NEW t \in Nat
    PROVE  GcsHeard(n, t) \in NodeType
  <1> DEFINE since == IF n.gcsLostSince = NoTick THEN t ELSE n.gcsLostSince
             restored == IF n.preGcs = NoMission THEN Idle ELSE n.preGcs
             events == n.events \cup {"gcs_reconnected"}
  <1>1. t - since \in Int /\ NoTick \in Nat \cup {NoTick}
    BY DEF NodeType, NoTick
  <1>2. restored \in Mission /\ NoMission \in Mission
    BY MissionTypes DEF NodeType
  <1>3. events \in SUBSET EventNames
    BY DEF NodeType, EventNames
  <1> QED
    BY <1>1, <1>2, <1>3 DEF GcsHeard, NodeType

LEMMA DeclareGcsLostType ==
    ASSUME NEW n \in NodeType, NEW t \in Nat, NEW ls
    PROVE  DeclareGcsLost(n, t, ls) \in NodeType
  <1>1. CASE ValidLeases(t, ls) = {}
    BY <1>1, MissionTypes DEF DeclareGcsLost, NodeType, EventNames
  <1>2. CASE ValidLeases(t, ls) # {}
    <2>1. FirstValidLease(t, ls) \in LeaseRecord
      BY <1>2, FirstValidLeaseProperty
    <2>2. /\ FirstValidLease(t, ls).expiry_tick \in Nat
          /\ ContinuingUnderLease(FirstValidLease(t, ls)) \in Mission
      BY <2>1, MissionTypes DEF LeaseRecord
    <2> QED
      BY <1>2, <2>2 DEF DeclareGcsLost, NodeType, EventNames
  <1> QED
    BY <1>1, <1>2

LEMMA LeaseLapsedType ==
    ASSUME NEW n \in NodeType, NEW t \in Nat
    PROVE  LeaseLapsed(n, t) \in NodeType
  BY MissionTypes DEF LeaseLapsed, NodeType, EventNames, NoTick

\* The GCS part touches neither the neighbour tracker nor the wait.
LEMMA GcsStepProperty ==
    ASSUME NEW n \in NodeType, NEW t \in Nat, NEW hb \in SUBSET Senders, NEW ls
    PROVE  LET m == GcsStep(n, hb, t, ls) IN
           /\ m \in NodeType
           /\ m.waitUntil = n.waitUntil /\ m.waitingFor = n.waitingFor
           /\ m.lostPeers = n.lostPeers /\ m.lastPeer = n.lastPeer
           /\ GcsId = NoAgent => m = n
  <1>1. GcsHeard(n, t).waitUntil = n.waitUntil
        /\ GcsHeard(n, t).waitingFor = n.waitingFor
        /\ GcsHeard(n, t).lostPeers = n.lostPeers
        /\ GcsHeard(n, t).lastPeer = n.lastPeer
    BY DEF GcsHeard, NodeType
  <1>2. LeaseLapsed(n, t).waitUntil = n.waitUntil
        /\ LeaseLapsed(n, t).waitingFor = n.waitingFor
        /\ LeaseLapsed(n, t).lostPeers = n.lostPeers
        /\ LeaseLapsed(n, t).lastPeer = n.lastPeer
    BY DEF LeaseLapsed, NodeType
  <1>3. DeclareGcsLost(n, t, ls).waitUntil = n.waitUntil
        /\ DeclareGcsLost(n, t, ls).waitingFor = n.waitingFor
        /\ DeclareGcsLost(n, t, ls).lostPeers = n.lostPeers
        /\ DeclareGcsLost(n, t, ls).lastPeer = n.lastPeer
    BY DEF DeclareGcsLost, NodeType
  <1> QED
    BY <1>1, <1>2, <1>3, GcsHeardType, LeaseLapsedType, DeclareGcsLostType
       DEF GcsStep

LEMMA WaitTimeoutProperty ==
    ASSUME NEW n \in NodeType, NEW t \in Nat
    PROVE  LET m == WaitTimeout(n, t) IN
           /\ m \in NodeType /\ m.events = n.events
           /\ m.lastGcs = n.lastGcs /\ m.recovered = n.recovered
           /\ m.preGcs = n.preGcs /\ m.gcsLostSince = n.gcsLostSince
           /\ m.leaseExpiry = n.leaseExpiry /\ m.waitUntil = n.waitUntil
           /\ m.lostPeers = n.lostPeers /\ m.lastPeer = n.lastPeer
           /\ m.waitingFor # NoAgent =>
                  m.waitingFor = n.waitingFor /\ t < n.waitUntil
           /\ n.waitingFor = NoAgent => m = n
           /\ n.mission.kind = "Aborting" => m.mission.kind = "Aborting"
  <1>1. Aborting("neighbor_reconnect_timeout") \in Mission /\ NoMission \in Mission
    BY MissionTypes DEF Causes
  <1>2. WaitTimeout(n, t) \in NodeType
    BY <1>1 DEF WaitTimeout, NodeType
  <1> QED
    BY <1>2 DEF WaitTimeout, NodeType, Aborting

LEMMA PeerTimeoutsProperty ==
    ASSUME NEW n \in NodeType, NEW t \in Nat
    PROVE  LET m == PeerTimeouts(n, t) IN
           /\ m \in NodeType /\ m.events = n.events
           /\ m.lastGcs = n.lastGcs /\ m.recovered = n.recovered
           /\ m.preGcs = n.preGcs /\ m.gcsLostSince = n.gcsLostSince
           /\ m.leaseExpiry = n.leaseExpiry /\ m.lastPeer = n.lastPeer
           /\ m.lostPeers = n.lostPeers \cup Silent(n, t)
           /\ \/ m.waitingFor = n.waitingFor /\ m.waitUntil = n.waitUntil
              \/ m.waitingFor \in m.lostPeers /\ t < m.waitUntil
           /\ NeighborLostPolicy = "release_locks_and_continue" =>
                  m.mission = n.mission /\ m.waitingFor = n.waitingFor
           /\ (/\ NeighborLostPolicy # "wait_for_reconnect"
               /\ n.mission.kind = "Aborting") => m.mission.kind = "Aborting"
           /\ NeighborLostPolicy # "wait_for_reconnect" =>
                  m.waitingFor = n.waitingFor
  <1> DEFINE new == Silent(n, t) \ n.lostPeers
             m0 == [n EXCEPT !.lostPeers = @ \cup new, !.newlyLost = new]
  <1>1. new \subseteq Peers /\ n.lostPeers \cup new = n.lostPeers \cup Silent(n, t)
    BY DEF Silent
  <1>2. m0 \in NodeType
    BY <1>1 DEF NodeType
  <1>3. new # {} => FirstPeer(new) \in new
    BY <1>1, FirstPeerProperty
  <1>4. /\ t + ReconnectTicks \in Nat /\ t < t + ReconnectTicks
        /\ Waiting(t, t + ReconnectTicks) \in Mission
        /\ Aborting("neighbor_lost") \in Mission
    BY TickAssumption, MissionTypes DEF Causes
  <1> DEFINE m == PeerTimeouts(n, t)
             aborts == new # {} /\ NeighborLostPolicy = "abort_mission"
             waits == /\ new # {} /\ NeighborLostPolicy = "wait_for_reconnect"
                      /\ n.waitingFor = NoAgent
  <1>5. m = IF aborts THEN [m0 EXCEPT !.mission = Aborting("neighbor_lost")]
            ELSE IF waits
            THEN [m0 EXCEPT !.preWait = n.mission, !.waitingFor = FirstPeer(new),
                            !.waitUntil = t + ReconnectTicks,
                            !.mission = Waiting(t, t + ReconnectTicks)]
            ELSE m0
    BY Zenon DEF PeerTimeouts
  <1>6. /\ m0.lostPeers = n.lostPeers \cup Silent(n, t) /\ m0.events = n.events
        /\ m0.lastGcs = n.lastGcs /\ m0.recovered = n.recovered
        /\ m0.preGcs = n.preGcs /\ m0.gcsLostSince = n.gcsLostSince
        /\ m0.leaseExpiry = n.leaseExpiry /\ m0.lastPeer = n.lastPeer
        /\ m0.waitingFor = n.waitingFor /\ m0.waitUntil = n.waitUntil
        /\ m0.mission = n.mission
    BY <1>1 DEF NodeType
  <1> HIDE DEF m, m0
  <1>7. CASE aborts
    <2>1. m = [m0 EXCEPT !.mission = Aborting("neighbor_lost")]
      BY <1>5, <1>7
    <2>2. m \in NodeType
      BY <1>2, <1>4, <2>1 DEF NodeType
    <2>3. Aborting("neighbor_lost").kind = "Aborting"
      BY DEF Aborting
    <2> QED
      BY <1>2, <1>6, <1>7, <2>1, <2>2, <2>3 DEF NodeType, m
  <1>8. CASE waits /\ ~aborts
    <2>1. m = [m0 EXCEPT !.preWait = n.mission, !.waitingFor = FirstPeer(new),
                         !.waitUntil = t + ReconnectTicks,
                         !.mission = Waiting(t, t + ReconnectTicks)]
      BY <1>5, <1>8
    <2>2. FirstPeer(new) \in n.lostPeers \cup Silent(n, t) /\ FirstPeer(new) \in Peers
      BY <1>1, <1>3, <1>8
    <2>3. n.mission \in Mission
      BY DEF NodeType
    <2> HIDE DEF new
    <2>4. m \in NodeType
      BY <1>2, <1>4, <2>1, <2>2, <2>3 DEF NodeType
    <2> QED
      BY <1>2, <1>4, <1>6, <1>8, <2>1, <2>2, <2>4 DEF NodeType, m
  <1>9. CASE ~aborts /\ ~waits
    <2>1. m = m0
      BY <1>5, <1>9
    <2> QED
      BY <1>2, <1>6, <2>1 DEF m
  <1> QED
    BY <1>7, <1>8, <1>9

-----------------------------------------------------------------------------
\* The whole handler.

\* What a call makes of the neighbour tracker and of the wait.
LEMMA HandleProperty ==
    ASSUME NEW n \in NodeType, NEW t \in Nat, NEW hb \in SUBSET Senders, NEW ls
    PROVE  LET m == Handle(n, hb, t, ls) IN
           /\ m \in NodeType
           /\ \A p \in Peers : m.lastPeer[p] = IF p \in Heard(hb) THEN t
                                              ELSE n.lastPeer[p]
           /\ m.lostPeers = (n.lostPeers \ Heard(hb)) \cup Silent(m, t)
           /\ m.waitingFor # NoAgent =>
                \/ /\ m.waitingFor = n.waitingFor /\ m.waitUntil = n.waitUntil
                   /\ m.waitingFor \notin Heard(hb) /\ t < m.waitUntil
                \/ m.waitingFor \in m.lostPeers /\ t < m.waitUntil
  <1> DEFINE n0 == FreshOutput(n)
             n1 == PeerHeartbeats(n0, hb, t)
             n2 == MothershipStep(n1, hb, t)
             n3 == GcsStep(n2, hb, t, ls)
             n4 == WaitTimeout(n3, t)
             m == PeerTimeouts(n4, t)
  <1>0. Handle(n, hb, t, ls) = m
    BY DEF Handle
  <1> HIDE DEF m
  <1>a. n0 \in NodeType /\ n0.lostPeers = n.lostPeers
        /\ n0.lastPeer = n.lastPeer /\ n0.waitingFor = n.waitingFor
        /\ n0.waitUntil = n.waitUntil
    BY FreshOutputProperty
  <1>1. /\ n1 \in NodeType /\ n1.waitUntil = n.waitUntil
        /\ n1.lostPeers = n.lostPeers \ Heard(hb)
        /\ n1.lastPeer = [p \in Peers |-> IF p \in Heard(hb) THEN t
                                          ELSE n.lastPeer[p]]
        /\ n1.waitingFor = IF n.waitingFor \in Heard(hb) THEN NoAgent
                           ELSE n.waitingFor
    <2> HIDE DEF n0
    <2> QED
      BY <1>a, PeerHeartbeatsProperty
  <1>2. /\ n2 \in NodeType /\ n2.waitUntil = n1.waitUntil
        /\ n2.waitingFor = n1.waitingFor
        /\ n2.lostPeers = n1.lostPeers /\ n2.lastPeer = n1.lastPeer
    <2> HIDE DEF n1
    <2> QED
      BY <1>1, MothershipStepProperty
  <1>3. /\ n3 \in NodeType /\ n3.waitUntil = n2.waitUntil
        /\ n3.waitingFor = n2.waitingFor
        /\ n3.lostPeers = n2.lostPeers /\ n3.lastPeer = n2.lastPeer
    <2> HIDE DEF n2
    <2> QED
      BY <1>2, GcsStepProperty
  <1>4. /\ n4 \in NodeType /\ n4.waitUntil = n3.waitUntil
        /\ n4.lostPeers = n3.lostPeers /\ n4.lastPeer = n3.lastPeer
        /\ n4.waitingFor # NoAgent =>
               n4.waitingFor = n3.waitingFor /\ t < n3.waitUntil
    <2> HIDE DEF n3
    <2> QED
      BY <1>3, WaitTimeoutProperty
  <1>5. /\ m \in NodeType /\ m.lastPeer = n4.lastPeer
        /\ m.lostPeers = n4.lostPeers \cup Silent(n4, t)
        /\ \/ m.waitingFor = n4.waitingFor /\ m.waitUntil = n4.waitUntil
           \/ m.waitingFor \in m.lostPeers /\ t < m.waitUntil
    <2> HIDE DEF n4
    <2> QED
      BY <1>4, PeerTimeoutsProperty DEF m
  <1> HIDE DEF n0, n1, n2, n3, n4
  <1>6. /\ Silent(m, t) = Silent(n4, t)
        /\ \A p \in Peers : m.lastPeer[p] = IF p \in Heard(hb) THEN t
                                           ELSE n.lastPeer[p]
    BY <1>1, <1>2, <1>3, <1>4, <1>5 DEF Silent
  <1>7. m.waitingFor # NoAgent =>
           \/ /\ m.waitingFor = n.waitingFor /\ m.waitUntil = n.waitUntil
              /\ m.waitingFor \notin Heard(hb) /\ t < m.waitUntil
           \/ m.waitingFor \in m.lostPeers /\ t < m.waitUntil
    BY <1>1, <1>2, <1>3, <1>4, <1>5, Zenon
  <1> QED
    BY <1>0, <1>1, <1>2, <1>3, <1>4, <1>5, <1>6, <1>7, Zenon

\* The same for a step of the specification.
LEMMA TickProperty ==
    ASSUME TypeOK, NEW hb \in SUBSET Senders, Tick(hb)
    PROVE  /\ tick \in Nat /\ tick' = tick + 1 /\ node \in NodeType
           /\ node' \in NodeType
           /\ \A p \in Peers : node'.lastPeer[p] =
                  IF p \in Heard(hb) THEN tick' ELSE node.lastPeer[p]
           /\ node'.lostPeers = (node.lostPeers \ Heard(hb))
                                    \cup Silent(node', tick')
           /\ node'.waitingFor # NoAgent =>
                \/ /\ node'.waitingFor = node.waitingFor
                   /\ node'.waitingFor \notin Heard(hb)
                   /\ tick' < node'.waitUntil
                \/ node'.waitingFor \in node'.lostPeers
                   /\ tick' < node'.waitUntil
  <1> DEFINE t == tick + 1
             m == Handle(node, hb, t, leases)
  <1>1. /\ tick \in Nat /\ t \in Nat /\ tick' = t /\ node \in NodeType
        /\ node' = m
    BY DEF TypeOK, Tick
  <1>2. /\ m \in NodeType
        /\ \A p \in Peers : m.lastPeer[p] = IF p \in Heard(hb) THEN t
                                           ELSE node.lastPeer[p]
        /\ m.lostPeers = (node.lostPeers \ Heard(hb)) \cup Silent(m, t)
        /\ m.waitingFor # NoAgent =>
             \/ /\ m.waitingFor = node.waitingFor /\ m.waitUntil = node.waitUntil
                /\ m.waitingFor \notin Heard(hb) /\ t < m.waitUntil
             \/ m.waitingFor \in m.lostPeers /\ t < m.waitUntil
    <2> HIDE DEF t
    <2> QED
      BY <1>1, HandleProperty
  <1> HIDE DEF m
  <1> QED
    BY <1>1, <1>2

\* AutonomyFsm is type correct.
THEOREM TypeCorrect == Spec => []TypeOK
  <1>1. Init => TypeOK
    BY MissionTypes DEF Init, TypeOK, NodeType, NoTick
  <1>2. TypeOK /\ [Next]_vars => TypeOK'
    <2> SUFFICES ASSUME TypeOK, [Next]_vars PROVE TypeOK'
      OBVIOUS
    <2>1. ASSUME NEW hb \in SUBSET Senders, Tick(hb) PROVE TypeOK'
      BY <2>1, TickProperty DEF Tick, TypeOK
    <2>2. ASSUME NEW l \in Leases, RevokeLease(l) PROVE TypeOK'
      BY <2>2 DEF TypeOK, RevokeLease
    <2>3. CASE UNCHANGED vars
      BY <2>3 DEF TypeOK, vars
    <2> QED
      BY <2>1, <2>2, <2>3 DEF Next
  <1> QED
    BY <1>1, <1>2, PTL DEF Spec

\* The neighbour detector is exact, for all peers, timeouts and policies.
THEOREM DetectorCorrect == Spec => []DetectorExact
  <1>1. Init => DetectorExact
    BY TickAssumption DEF Init, DetectorExact, Silent
  <1>2. TypeOK /\ DetectorExact /\ [Next]_vars => DetectorExact'
    <2> SUFFICES ASSUME TypeOK, DetectorExact, [Next]_vars PROVE DetectorExact'
      OBVIOUS
    <2>1. ASSUME NEW hb \in SUBSET Senders, Tick(hb) PROVE DetectorExact'
      <3>1. /\ tick \in Nat /\ tick' = tick + 1 /\ node \in NodeType
            /\ \A p \in Peers : node'.lastPeer[p] =
                  IF p \in Heard(hb) THEN tick' ELSE node.lastPeer[p]
            /\ node'.lostPeers = (node.lostPeers \ Heard(hb))
                                     \cup Silent(node', tick')
        BY <2>1, TickProperty
      <3>2. node.lostPeers \ Heard(hb) \subseteq Silent(node', tick')
        BY <3>1, TickAssumption DEF DetectorExact, Silent, NodeType
      <3> QED
        BY <3>1, <3>2 DEF DetectorExact
    <2>2. ASSUME NEW l \in Leases, RevokeLease(l) PROVE DetectorExact'
      BY <2>2 DEF RevokeLease, DetectorExact, Silent
    <2>3. CASE UNCHANGED vars
      BY <2>3 DEF vars, DetectorExact, Silent
    <2> QED
      BY <2>1, <2>2, <2>3 DEF Next
  <1> QED
    BY <1>1, <1>2, TypeCorrect, PTL DEF Spec

\* Every armed wait is for a lost neighbour and within its limit.
THEOREM WaitCorrect == Spec => []WaitIsArmed
  <1>1. Init => WaitIsArmed
    BY DEF Init, WaitIsArmed
  <1>2. TypeOK /\ WaitIsArmed /\ [Next]_vars => WaitIsArmed'
    <2> SUFFICES ASSUME TypeOK, WaitIsArmed, [Next]_vars PROVE WaitIsArmed'
      OBVIOUS
    <2>1. ASSUME NEW hb \in SUBSET Senders, Tick(hb) PROVE WaitIsArmed'
      BY <2>1, TickProperty DEF WaitIsArmed
    <2>2. ASSUME NEW l \in Leases, RevokeLease(l) PROVE WaitIsArmed'
      BY <2>2 DEF RevokeLease, WaitIsArmed
    <2>3. CASE UNCHANGED vars
      BY <2>3 DEF vars, WaitIsArmed
    <2> QED
      BY <2>1, <2>2, <2>3 DEF Next
  <1> QED
    BY <1>1, <1>2, TypeCorrect, PTL DEF Spec

-----------------------------------------------------------------------------
\* The GCS properties.  None of them is inductive alone: that the reported
\* outage has the right length, for instance, needs that gcs_lost_since_tick
\* is the tick of detection in every autonomous state, and that the autonomous
\* states are exactly those of a silent GCS.  GcsOK is the conjunction.

GcsOK(n, t) ==
    /\ n.lastGcs <= t
    /\ n.waitingFor = NoAgent
    /\ Autonomous(n.mission) <=> t - n.lastGcs >= gcs_timeout
    /\ Autonomous(n.mission) =>
           /\ n.preGcs = InitialMission
           /\ n.gcsLostSince = n.lastGcs + gcs_timeout
    /\ ~Autonomous(n.mission) =>
           n.mission = InitialMission /\ n.preGcs = NoMission
    /\ n.mission.kind = "ContinuingUnderLease" =>
           t < n.mission.until /\ n.leaseExpiry = n.mission.until

\* The mission kinds that matter to the GCS part are distinct.
LEMMA MissionKindFacts ==
    /\ InitialMission # NoMission /\ ~Autonomous(InitialMission)
    /\ InitialMission.kind # "GcsLost"
    /\ InitialMission.kind # "ContinuingUnderLease"
    /\ \A t \in Nat : GcsLost(t).kind = "GcsLost"
    /\ \A l \in LeaseRecord :
          /\ ContinuingUnderLease(l).kind = "ContinuingUnderLease"
          /\ ContinuingUnderLease(l).until = l.expiry_tick
  BY StartAssumption
     DEF Idle, NoMission, Plain, Autonomous, GcsLost, ContinuingUnderLease

\* The GCS part takes GcsOK from the previous tick to this one.
LEMMA GcsStepKeepsGcsOK ==
    ASSUME NEW n \in NodeType, NEW t \in Nat, NEW hb \in SUBSET Senders, NEW ls,
           GcsId # NoAgent, GcsOK(n, t - 1), t - 1 \in Nat,
           "gcs_reconnected" \notin n.events
    PROVE  LET m == GcsStep(n, hb, t, ls) IN
           /\ GcsOK(m, t)
           /\ "gcs_reconnected" \in m.events =>
                  m.recovered = t - n.lastGcs - gcs_timeout
  <1> USE TimeoutTypes, MissionKindFacts
  <1> DEFINE m == GcsStep(n, hb, t, ls)
             Goal == /\ GcsOK(m, t)
                     /\ "gcs_reconnected" \in m.events =>
                            m.recovered = t - n.lastGcs - gcs_timeout
  <1> SUFFICES Goal
    OBVIOUS
  <1>0. /\ n.lastGcs \in Nat /\ n.gcsLostSince \in Nat \cup {NoTick}
        /\ n.leaseExpiry \in Nat \cup {NoTick}
    BY DEF NodeType
  <1>1. CASE GcsId \in hb
    <2>1. m = GcsHeard(n, t)
      BY <1>1 DEF GcsStep
    <2>2. CASE Autonomous(n.mission)
      <3>1. /\ m.lastGcs = t /\ m.mission = InitialMission
            /\ m.preGcs = NoMission /\ m.waitingFor = NoAgent
            /\ m.recovered = t - n.gcsLostSince
        BY <2>1, <2>2, <1>0 DEF GcsHeard, GcsOK, NodeType, NoTick
      <3> HIDE DEF m
      <3> QED
        BY <3>1, <2>2, <1>0 DEF GcsOK
    <2>3. CASE ~Autonomous(n.mission)
      <3>1. /\ m.lastGcs = t /\ m.mission = n.mission /\ m.events = n.events
            /\ m.preGcs = n.preGcs /\ m.waitingFor = NoAgent
        BY <2>1, <2>3 DEF GcsHeard, GcsOK, NodeType
      <3> HIDE DEF m
      <3> QED
        BY <3>1, <2>3, <1>0 DEF GcsOK
    <2> QED
      BY <2>2, <2>3
  <1>2. CASE GcsId \notin hb /\ t - n.lastGcs < gcs_timeout
    <2>1. m = n
      BY <1>2 DEF GcsStep
    <2> HIDE DEF m
    <2>2. ~Autonomous(n.mission) /\ n.mission = InitialMission
      BY <1>2, <1>0 DEF GcsOK
    <2> QED
      BY <2>1, <2>2, <1>2, <1>0 DEF GcsOK
  <1>3. CASE GcsId \notin hb /\ ~(t - n.lastGcs < gcs_timeout)
    <2>1. CASE n.mission.kind = "GcsLost"
      <3>1. m = n
        BY <1>3, <2>1 DEF GcsStep
      <3> HIDE DEF m
      <3> QED
        BY <3>1, <2>1, <1>3, <1>0 DEF GcsOK, Autonomous
    <2>2. CASE n.mission.kind = "ContinuingUnderLease" /\ LeaseHolds(n, t)
      <3>1. m = n
        BY <1>3, <2>2 DEF GcsStep
      <3> HIDE DEF m
      <3> QED
        BY <3>1, <2>2, <1>3, <1>0 DEF GcsOK, Autonomous, LeaseHolds
    <2>3. CASE n.mission.kind = "ContinuingUnderLease" /\ ~LeaseHolds(n, t)
      <3>1. m = LeaseLapsed(n, t)
        BY <1>3, <2>3 DEF GcsStep
      <3>2. /\ m.mission = GcsLost(n.gcsLostSince) /\ m.lastGcs = n.lastGcs
            /\ m.preGcs = n.preGcs /\ m.gcsLostSince = n.gcsLostSince
            /\ m.waitingFor = NoAgent
            /\ "gcs_reconnected" \notin m.events
            /\ n.gcsLostSince \in Nat
        BY <3>1, <2>3, <1>0
           DEF LeaseLapsed, GcsOK, NodeType, Autonomous, NoTick
      <3> HIDE DEF m
      <3> QED
        BY <3>2, <2>3, <1>3, <1>0 DEF GcsOK, Autonomous
    <2>4. CASE n.mission.kind \notin {"GcsLost", "ContinuingUnderLease"}
      <3>1. m = DeclareGcsLost(n, t, ls)
        BY <1>3, <2>4 DEF GcsStep
      <3>2. /\ ~Autonomous(n.mission) /\ n.mission = InitialMission
            /\ n.preGcs = NoMission /\ t = n.lastGcs + gcs_timeout
        BY <2>4, <1>3, <1>0 DEF GcsOK, Autonomous
      <3>3. /\ m.lastGcs = n.lastGcs /\ m.waitingFor = NoAgent
            /\ m.preGcs = InitialMission /\ m.gcsLostSince = t
            /\ "gcs_reconnected" \notin m.events
        BY <3>1, <3>2 DEF DeclareGcsLost, GcsOK, NodeType
      <3>4. CASE ValidLeases(t, ls) = {}
        <4>1. m.mission = GcsLost(t)
          BY <3>1, <3>4 DEF DeclareGcsLost, NodeType
        <4> HIDE DEF m
        <4> QED
          BY <4>1, <3>2, <3>3, <1>0 DEF GcsOK, Autonomous
      <3>5. CASE ValidLeases(t, ls) # {}
        <4> DEFINE l == FirstValidLease(t, ls)
        <4>1. l \in LeaseRecord /\ t < l.expiry_tick
          BY <3>5, FirstValidLeaseProperty
        <4>2. m.mission = ContinuingUnderLease(l) /\ m.leaseExpiry = l.expiry_tick
          BY <3>1, <3>5 DEF DeclareGcsLost, NodeType
        <4> HIDE DEF m, l
        <4> QED
          BY <4>1, <4>2, <3>2, <3>3, <1>0 DEF GcsOK, Autonomous
      <3> QED
        BY <3>4, <3>5
    <2> QED
      BY <2>1, <2>2, <2>3, <2>4
  <1> QED
    BY <1>1, <1>2, <1>3

\* So does the whole handler, when only the GCS drives the mission state.
LEMMA HandleKeepsGcsOK ==
    ASSUME NEW n \in NodeType, NEW t \in Nat, NEW hb \in SUBSET Senders, NEW ls,
           GcsOnly, GcsOK(n, t - 1), t - 1 \in Nat
    PROVE  LET m == Handle(n, hb, t, ls) IN
           /\ GcsOK(m, t)
           /\ "gcs_reconnected" \in m.events =>
                  m.recovered = t - n.lastGcs - gcs_timeout
  <1> DEFINE n0 == FreshOutput(n)
             n1 == PeerHeartbeats(n0, hb, t)
             n2 == MothershipStep(n1, hb, t)
             n3 == GcsStep(n2, hb, t, ls)
             n4 == WaitTimeout(n3, t)
             m == PeerTimeouts(n4, t)
             same(x) == /\ x.lastGcs = n.lastGcs /\ x.mission = n.mission
                        /\ x.preGcs = n.preGcs /\ x.waitingFor = n.waitingFor
                        /\ x.gcsLostSince = n.gcsLostSince
                        /\ x.leaseExpiry = n.leaseExpiry
  <1>0. Handle(n, hb, t, ls) = m
    BY DEF Handle
  <1> HIDE DEF m
  <1>1. n0 \in NodeType /\ n0.events = {} /\ same(n0)
    BY FreshOutputProperty
  <1>2. n1 \in NodeType /\ n1.events = {} /\ same(n1)
    <2>1. n.waitingFor = NoAgent /\ NoAgent \notin Heard(hb)
      BY AgentAssumption DEF GcsOK, Heard
    <2> HIDE DEF n0
    <2>2. n0.waitingFor \notin Heard(hb)
      BY <1>1, <2>1
    <2> QED
      BY <1>1, <2>2, PeerHeartbeatsQuiet
  <1>3. n2 \in NodeType /\ "gcs_reconnected" \notin n2.events /\ same(n2)
    <2> HIDE DEF n1
    <2> QED
      BY <1>2, MothershipStepProperty
  <1>4. /\ n3 \in NodeType /\ GcsOK(n3, t)
        /\ "gcs_reconnected" \in n3.events =>
               n3.recovered = t - n.lastGcs - gcs_timeout
    <2> HIDE DEF n2
    <2>1. GcsOK(n2, t - 1)
      BY <1>3 DEF GcsOK
    <2> QED
      BY <1>3, <2>1, GcsStepProperty, GcsStepKeepsGcsOK DEF GcsOnly
  <1> HIDE DEF n3
  <1>5. n4 = n3
    BY <1>4, WaitTimeoutProperty DEF GcsOK
  <1> HIDE DEF n4
  <1>6. /\ m.mission = n3.mission /\ m.waitingFor = n3.waitingFor
        /\ m.lastGcs = n3.lastGcs /\ m.recovered = n3.recovered
        /\ m.preGcs = n3.preGcs /\ m.gcsLostSince = n3.gcsLostSince
        /\ m.leaseExpiry = n3.leaseExpiry /\ m.events = n3.events
    BY <1>4, <1>5, PeerTimeoutsProperty DEF GcsOnly, m
  <1>7. GcsOK(m, t)
    BY <1>4, <1>6 DEF GcsOK
  <1> QED
    BY <1>0, <1>4, <1>6, <1>7

GcsInv == GcsOnly => GcsOK(node, tick)

LEMMA GcsInvInit == Init => GcsInv
  BY TimeoutTypes, MissionKindFacts
     DEF Init, GcsInv, GcsOK, Autonomous

LEMMA GcsInvStep ==
    ASSUME TypeOK, GcsInv, [Next]_vars
    PROVE  GcsInv'
  <1>1. ASSUME NEW hb \in SUBSET Senders, Tick(hb), GcsOnly
        PROVE  GcsOK(node, tick)'
    <2> DEFINE t == tick + 1
               m == Handle(node, hb, t, leases)
    <2>1. /\ t \in Nat /\ t - 1 = tick /\ tick' = t /\ node \in NodeType
          /\ node' = m /\ tick \in Nat
      BY <1>1 DEF TypeOK, Tick
    <2>2. GcsOK(m, t)
      <3> HIDE DEF t
      <3> QED
        BY <1>1, <2>1, HandleKeepsGcsOK DEF GcsInv
    <2> HIDE DEF m
    <2> QED
      BY <2>1, <2>2 DEF GcsOK
  <1>2. ASSUME NEW l \in Leases, RevokeLease(l) PROVE GcsInv'
    BY <1>2 DEF RevokeLease, GcsInv, GcsOK
  <1>3. CASE UNCHANGED vars
    BY <1>3 DEF vars, GcsInv, GcsOK
  <1> QED
    BY <1>1, <1>2, <1>3 DEF Next, GcsInv

LEMMA GcsInvariant == Spec => []GcsInv
  BY GcsInvInit, GcsInvStep, TypeCorrect, PTL DEF Spec

\* An agent is autonomous exactly while the GCS is silent (runtime.rs, the GCS
\* part), for every policy threshold.
THEOREM AutonomyCorrect == Spec => []AutonomousIffGcsSilent
  <1>1. GcsInv => AutonomousIffGcsSilent
    BY DEF GcsInv, GcsOK, AutonomousIffGcsSilent, GcsSilent
  <1> QED
    BY <1>1, GcsInvariant, PTL

\* An agent never continues under an expired lease (runtime.rs, the GCS part),
\* for all lease lists and revocations.
THEOREM LeaseCorrect == Spec => []LeaseAuthority
  <1>1. GcsInv => LeaseAuthority
    BY DEF GcsInv, GcsOK, LeaseAuthority
  <1> QED
    BY <1>1, GcsInvariant, PTL

\* The mission is never lost through GCS outages
\* (pre_gcs_loss_mission_state, runtime.rs).
THEOREM MissionCorrect == Spec => []MissionPreserved
  <1>1. GcsInv => MissionPreserved
    BY DEF GcsInv, GcsOK, MissionPreserved
  <1> QED
    BY <1>1, GcsInvariant, PTL

\* The reconnect report has the length of the outage
\* (gcs_recovered_lost_ticks, runtime.rs).
THEOREM ReportCorrect == Spec => OutageReported
  <1> DEFINE Report == (GcsOnly /\ tick' # tick
                          /\ "gcs_reconnected" \in node'.events) =>
                       node'.recovered = tick' - node.lastGcs - gcs_timeout
  <1>1. TypeOK /\ GcsInv /\ [Next]_vars => [Report]_vars
    <2> SUFFICES ASSUME TypeOK, GcsInv, Next, GcsOnly, tick' # tick,
                        "gcs_reconnected" \in node'.events
                 PROVE  node'.recovered = tick' - node.lastGcs - gcs_timeout
      OBVIOUS
    <2>1. PICK hb \in SUBSET Senders : Tick(hb)
      BY DEF Next, RevokeLease
    <2> DEFINE t == tick + 1
               m == Handle(node, hb, t, leases)
    <2>2. /\ t \in Nat /\ t - 1 = tick /\ tick' = t /\ node \in NodeType
          /\ node' = m /\ tick \in Nat
      BY <2>1 DEF TypeOK, Tick
    <2>3. "gcs_reconnected" \in m.events =>
              m.recovered = t - node.lastGcs - gcs_timeout
      <3> HIDE DEF t
      <3> QED
        BY <2>2, HandleKeepsGcsOK DEF GcsInv
    <2> HIDE DEF m
    <2> QED
      BY <2>2, <2>3
  <1> QED
    BY <1>1, TypeCorrect, GcsInvariant, PTL DEF Spec, OutageReported

-----------------------------------------------------------------------------
\* What each part of the handler does to an abort.  WaitState says which
\* mission states a wait can be in when no GCS interferes: the waiting state
\* itself, or the abort of a mothership lost meanwhile.

WaitState(n) ==
    n.waitingFor # NoAgent =>
        /\ NeighborLostPolicy = "wait_for_reconnect"
        /\ \/ n.mission.kind = "WaitingForNeighborReconnect"
           \/ /\ n.mission = Aborting("mothership_lost")
              /\ MothershipId # NoAgent
              /\ MothershipLostPolicy # "proceed_autonomously"

LEMMA AbortKinds ==
    /\ NoMission.kind # "Aborting" /\ \A c : Aborting(c).kind = "Aborting"
    /\ \A s, u : Waiting(s, u).kind = "WaitingForNeighborReconnect"
  BY DEF NoMission, Plain, Aborting, Waiting

\* The end of a wait is the only part that can drop an abort, and it drops one
\* that was entered during the wait.
LEMMA PeerHeartbeatsAbort ==
    ASSUME NEW n \in NodeType, NEW t \in Nat, NEW hb \in SUBSET Senders,
           WaitState(n)
    PROVE  LET m == PeerHeartbeats(n, hb, t) IN
           /\ WaitState(m) /\ m.lastMothership = n.lastMothership
           /\ Aborted(n) =>
                \/ Aborted(m)
                \/ /\ n.waitingFor \in Heard(hb) /\ n.waitingFor # NoAgent
                   /\ n.preWait.kind # "Aborting"
                   /\ n.mission = Aborting("mothership_lost")
                   /\ MothershipId # NoAgent
                   /\ MothershipLostPolicy # "proceed_autonomously"
  <1> DEFINE m == PeerHeartbeats(n, hb, t)
  <1>1. m.lastMothership = n.lastMothership
    BY DEF PeerHeartbeats, NodeType
  <1>2. CASE n.waitingFor \in Heard(hb)
    <2>1. n.waitingFor # NoAgent
      BY <1>2, AgentAssumption DEF Heard
    <2>2. m.waitingFor = NoAgent
      BY <1>2 DEF PeerHeartbeats, NodeType, Heard
    <2>3. n.preWait.kind = "Aborting" => m.mission.kind = "Aborting"
      BY <1>2, AbortKinds DEF PeerHeartbeats, NodeType, Heard
    <2>4. Aborted(n) /\ n.preWait.kind # "Aborting" =>
              n.mission = Aborting("mothership_lost") /\ MothershipId # NoAgent
              /\ MothershipLostPolicy # "proceed_autonomously"
      BY <2>1 DEF WaitState, Aborted
    <2> HIDE DEF m
    <2> QED
      BY <1>1, <1>2, <2>1, <2>2, <2>3, <2>4 DEF m, WaitState, Aborted
  <1>3. CASE n.waitingFor \notin Heard(hb)
    <2>1. /\ m.waitingFor = n.waitingFor /\ m.mission = n.mission
          /\ m.preWait = n.preWait
      BY <1>3 DEF PeerHeartbeats, NodeType, Heard
    <2> HIDE DEF m
    <2> QED
      BY <1>1, <2>1 DEF m, WaitState, Aborted
  <1> QED
    BY <1>2, <1>3

\* A mothership that stays silent renews the abort.
LEMMA MothershipStepAbort ==
    ASSUME NEW n \in NodeType, NEW t \in Nat, NEW hb \in SUBSET Senders,
           WaitState(n)
    PROVE  LET m == MothershipStep(n, hb, t) IN
           /\ WaitState(m)
           /\ Aborted(n) => Aborted(m)
           /\ (/\ MothershipId # NoAgent
               /\ MothershipLostPolicy # "proceed_autonomously"
               /\ ~Aborted(m)) => t - m.lastMothership < mothership_timeout
  <1> DEFINE m == MothershipStep(n, hb, t)
  <1>1. CASE m = n /\ ~(/\ MothershipId # NoAgent
                        /\ MothershipLostPolicy # "proceed_autonomously"
                        /\ n.mission.kind # "Aborting"
                        /\ t - n.lastMothership >= mothership_timeout)
    <2>1. n.lastMothership \in Nat
      BY DEF NodeType
    <2> HIDE DEF m
    <2> QED
      BY <1>1, <2>1, TimeoutTypes DEF m, Aborted
  <1>2. CASE m = [n EXCEPT !.lastMothership = t]
    <2>1. /\ m.waitingFor = n.waitingFor /\ m.mission = n.mission
          /\ m.preWait = n.preWait /\ m.lastMothership = t
      BY <1>2 DEF NodeType
    <2> HIDE DEF m
    <2> QED
      BY <2>1, TimeoutTypes DEF m, Aborted, WaitState
  <1>3. CASE /\ MothershipId # NoAgent
             /\ MothershipLostPolicy # "proceed_autonomously"
             /\ m = [n EXCEPT !.mission = Aborting("mothership_lost"),
                              !.events = @ \cup {"mothership_lost"}]
    <2>1. m.waitingFor = n.waitingFor /\ m.mission = Aborting("mothership_lost")
      BY <1>3 DEF NodeType
    <2> HIDE DEF m
    <2> QED
      BY <1>3, <2>1, AbortKinds DEF m, Aborted, WaitState
  <1> QED
    BY <1>1, <1>2, <1>3, Zenon DEF MothershipStep

LEMMA WaitTimeoutAbort ==
    ASSUME NEW n \in NodeType, NEW t \in Nat, WaitState(n)
    PROVE  LET m == WaitTimeout(n, t) IN
           /\ WaitState(m) /\ m.lastMothership = n.lastMothership
           /\ Aborted(n) => Aborted(m)
  BY AbortKinds DEF WaitTimeout, NodeType, Aborted, WaitState

LEMMA PeerTimeoutsAbort ==
    ASSUME NEW n \in NodeType, NEW t \in Nat, WaitState(n)
    PROVE  LET m == PeerTimeouts(n, t) IN
           /\ WaitState(m) /\ m.lastMothership = n.lastMothership
           /\ Aborted(n) => Aborted(m)
  <1> DEFINE new == Silent(n, t) \ n.lostPeers
  <1>1. new # {} => FirstPeer(new) # NoAgent
    BY FirstPeerProperty, AgentAssumption DEF Silent
  <1> QED
    BY <1>1, AbortKinds
       DEF PeerTimeouts, NodeType, Aborted, WaitState

\* When the handler drops an abort although there is no GCS.
AbortUndone(n, m, t) ==
    /\ n.mission = Aborting("mothership_lost")
    /\ n.waitingFor # NoAgent /\ n.preWait.kind # "Aborting"
    /\ m.lastPeer[n.waitingFor] = t
    /\ t - m.lastMothership < mothership_timeout

LEMMA HandleAbort ==
    ASSUME NEW n \in NodeType, NEW t \in Nat, NEW hb \in SUBSET Senders, NEW ls,
           GcsId = NoAgent, WaitState(n)
    PROVE  LET m == Handle(n, hb, t, ls) IN
           WaitState(m) /\ (Aborted(n) => Aborted(m) \/ AbortUndone(n, m, t))
  <1> DEFINE n0 == FreshOutput(n)
             n1 == PeerHeartbeats(n0, hb, t)
             n2 == MothershipStep(n1, hb, t)
             n3 == GcsStep(n2, hb, t, ls)
             n4 == WaitTimeout(n3, t)
             m == PeerTimeouts(n4, t)
  <1>0. Handle(n, hb, t, ls) = m
    BY DEF Handle
  <1> HIDE DEF m
  <1>1. /\ n0 \in NodeType /\ WaitState(n0)
        /\ Aborted(n) => Aborted(n0)
        /\ n0.mission = n.mission /\ n0.preWait = n.preWait
        /\ n0.waitingFor = n.waitingFor
    <2>1. /\ n0.mission = n.mission /\ n0.preWait = n.preWait
          /\ n0.waitingFor = n.waitingFor
      BY DEF FreshOutput, NodeType
    <2>2. n0 \in NodeType
      BY FreshOutputProperty
    <2> HIDE DEF n0
    <2> QED
      BY <2>1, <2>2 DEF WaitState, Aborted
  <1> HIDE DEF n0
  <1>2. /\ n1 \in NodeType /\ WaitState(n1)
        /\ Aborted(n0) =>
             \/ Aborted(n1)
             \/ /\ n.waitingFor \in Heard(hb)
                /\ n.waitingFor # NoAgent
                /\ n.preWait.kind # "Aborting"
                /\ n.mission = Aborting("mothership_lost")
                /\ MothershipId # NoAgent
                /\ MothershipLostPolicy # "proceed_autonomously"
    <2>1. n1 \in NodeType
      BY <1>1, PeerHeartbeatsProperty
    <2>2. /\ WaitState(n1)
          /\ Aborted(n0) =>
               \/ Aborted(n1)
               \/ /\ n0.waitingFor \in Heard(hb)
                  /\ n0.waitingFor # NoAgent
                  /\ n0.preWait.kind # "Aborting"
                  /\ n0.mission = Aborting("mothership_lost")
                  /\ MothershipId # NoAgent
                  /\ MothershipLostPolicy # "proceed_autonomously"
      BY <1>1, PeerHeartbeatsAbort
    <2> HIDE DEF n1
    <2> QED
      BY <1>1, <2>1, <2>2
  <1> HIDE DEF n1
  <1>3. /\ n2 \in NodeType /\ WaitState(n2)
        /\ Aborted(n1) => Aborted(n2)
        /\ (/\ MothershipId # NoAgent
            /\ MothershipLostPolicy # "proceed_autonomously"
            /\ ~Aborted(n2)) => t - n2.lastMothership < mothership_timeout
    BY <1>2, MothershipStepProperty, MothershipStepAbort
  <1> HIDE DEF n2
  <1>4. n3 = n2
    BY <1>3, GcsStepProperty
  <1> HIDE DEF n3
  <1>5. /\ n4 \in NodeType /\ WaitState(n4)
        /\ n4.lastMothership = n2.lastMothership
        /\ Aborted(n2) => Aborted(n4)
    BY <1>3, <1>4, WaitTimeoutProperty, WaitTimeoutAbort
  <1> HIDE DEF n4
  <1>6. /\ WaitState(m) /\ m.lastMothership = n2.lastMothership
        /\ Aborted(n2) => Aborted(m)
    BY <1>5, PeerTimeoutsProperty, PeerTimeoutsAbort DEF m
  <1>7. \A p \in Heard(hb) : m.lastPeer[p] = t
    BY <1>0, HandleProperty DEF Heard
  <1> QED
    BY <1>0, <1>1, <1>2, <1>3, <1>6, <1>7 DEF AbortUndone

WaitInv == GcsId = NoAgent => WaitState(node)

LEMMA WaitInvariant == Spec => []WaitInv
  <1>1. Init => WaitInv
    BY DEF Init, WaitInv, WaitState
  <1>2. TypeOK /\ WaitInv /\ [Next]_vars => WaitInv'
    <2> SUFFICES ASSUME TypeOK, WaitInv, [Next]_vars PROVE WaitInv'
      OBVIOUS
    <2>1. ASSUME NEW hb \in SUBSET Senders, Tick(hb), GcsId = NoAgent
          PROVE  WaitState(node')
      <3> DEFINE t == tick + 1
      <3>1. t \in Nat /\ node \in NodeType /\ WaitState(node)
            /\ node' = Handle(node, hb, t, leases)
        BY <2>1 DEF TypeOK, Tick, WaitInv
      <3> HIDE DEF t
      <3> QED
        BY <2>1, <3>1, HandleAbort
    <2>2. ASSUME NEW l \in Leases, RevokeLease(l) PROVE WaitInv'
      BY <2>2 DEF RevokeLease, WaitInv, WaitState
    <2>3. CASE UNCHANGED vars
      BY <2>3 DEF vars, WaitInv, WaitState
    <2> QED
      BY <2>1, <2>2, <2>3 DEF Next, WaitInv, WaitState
  <1> QED
    BY <1>1, <1>2, TypeCorrect, PTL DEF Spec

\* Without a GCS an abort is dropped in one case only: it was entered when the
\* mothership fell silent during a wait for a neighbour, that neighbour is back
\* and the mothership has been heard again.  For all policies and timeouts
\* (runtime.rs, the heartbeat, mothership, wait and neighbour parts).
THEOREM AbortCorrect == Spec => AbortStands
  <1> DEFINE Stands == (GcsId = NoAgent /\ Aborted(node) /\ ~Aborted(node')) =>
                           AbortUndone(node, node', tick')
  <1>1. TypeOK /\ WaitInv /\ [Next]_vars => [Stands]_vars
    <2> SUFFICES ASSUME TypeOK, WaitInv, Next, GcsId = NoAgent, Aborted(node),
                        ~Aborted(node')
                 PROVE  AbortUndone(node, node', tick')
      OBVIOUS
    <2>1. PICK hb \in SUBSET Senders : Tick(hb)
      BY DEF Next, RevokeLease
    <2> DEFINE t == tick + 1
    <2>2. t \in Nat /\ node \in NodeType /\ WaitState(node) /\ tick' = t
          /\ node' = Handle(node, hb, t, leases)
      BY <2>1 DEF TypeOK, Tick, WaitInv
    <2> HIDE DEF t
    <2> QED
      BY <2>2, HandleAbort
  <1> QED
    BY <1>1, TypeCorrect, WaitInvariant, PTL
       DEF Spec, AbortStands, AbortUndone

=============================================================================
