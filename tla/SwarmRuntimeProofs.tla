------------------------- MODULE SwarmRuntimeProofs -------------------------
(***************************************************************************)
(* Theorems about SwarmRuntime, for any number of agents and tasks, any    *)
(* timeout, gossip interval and set of delays.                             *)
(*                                                                         *)
(* The inductive invariant adds to the type invariant what keeps ownership *)
(* and detection sound: an owned task is Assigned (Owners), nothing in     *)
(* flight or believed was sent by an agent after its crash (Clock), nobody *)
(* knows a generation its agent does not have (Gens), and a node that has  *)
(* yet to read its inbox has not heard itself in this tick (OwnFresh).  On *)
(* top of it, reliable links lose no heartbeat (Trusted), a task is        *)
(* unknown before its injection (Pending), and in calm ticks the views of  *)
(* the live nodes settle (Settling).                                       *)
(***************************************************************************)
EXTENDS SwarmRuntime, WellFoundedInduction, FiniteSetTheorems, TLAPS

\* A non-empty set of natural numbers has a least element.
LEMMA LeastElement ==
    ASSUME NEW S, S \subseteq Nat, S # {}
    PROVE  \E i \in S : \A j \in S : i <= j
  <1>1. PICK m \in S : ~ (\E y \in S : <<y, m>> \in OpToRel(<, Nat))
    BY NatLessThanWellFounded, WFMin, Zenon
  <1>2. \A y \in S : ~ (y < m)
    BY <1>1 DEF OpToRel
  <1> QED
    BY <1>2

\* A non-empty set of natural numbers with an upper bound has a greatest
\* element.
LEMMA GreatestElement ==
    ASSUME NEW S, S \subseteq Nat, S # {}, NEW b \in Nat, \A s \in S : s <= b
    PROVE  \E m \in S : \A r \in S : r <= m
  <1> DEFINE D == {b - s : s \in S}
  <1>1. D \subseteq Nat /\ D # {}
    <2>1. ASSUME NEW s \in S PROVE b - s \in Nat
      OBVIOUS
    <2>2. PICK s \in S : TRUE
      OBVIOUS
    <2>3. b - s \in D
      OBVIOUS
    <2> QED
      BY <2>1, <2>3
  <1> HIDE DEF D
  <1>2. PICK d \in D : \A e \in D : d <= e
    BY <1>1, LeastElement
  <1>3. PICK m \in S : d = b - m
    BY DEF D
  <1>4. ASSUME NEW r \in S PROVE r <= m
    <2>1. b - r \in D
      BY DEF D
    <2> QED
      BY <1>2, <1>3, <2>1
  <1> QED
    BY <1>4

EntryType == [status : Statuses, owner : Agents \cup {NoOwner}]

\* An owned task is Assigned, to an agent that is alive in view v.
EntryOK(v, e) ==
    /\ e \in EntryType
    /\ e.owner # NoOwner => e.status = "Assigned" /\ v[e.owner].alive

Owners == \A i \in Agents, t \in Tasks : EntryOK(view[i], reg[i][t])

\* The tick s is before the crash of agent a.
BeforeCrash(s, a) == s <= tick /\ (crashedAt[a] # 0 => s < crashedAt[a])

Clock ==
    /\ \A a \in Agents : crashedAt[a] <= tick
    /\ \A m \in hbs : BeforeCrash(m.sent, m.from)
    /\ \A i, a \in Agents : BeforeCrash(view[i][a].last, a)
    /\ turn \in Agents => crashedAt[turn] = 0

Gens ==
    /\ \A i, a \in Agents :
           view[i][a].generation \in 1 .. Generation[a]
    /\ \A m \in gossips : \A a \in Agents :
           m.generation[a] \in 1 .. Generation[a]

OwnFresh == \A i \in Live : ~HasRead(i) => view[i][i].last < tick

-----------------------------------------------------------------------------
\* The choices of the model exist.

LEMMA LatestProperty ==
    ASSUME NEW S, S \subseteq Nat, S # {}, NEW b \in Nat, \A s \in S : s <= b
    PROVE  Latest(S) \in S /\ \A r \in S : r <= Latest(S)
  BY GreatestElement DEF Latest

LEMMA NextTurnProperty ==
    ASSUME NEW i \in 0 .. N, NEW c \in [Agents -> Nat]
    PROVE  /\ NextTurn(i, c) \in i + 1 .. N + 1
           /\ NextTurn(i, c) = N + 1 \/ c[NextTurn(i, c)] = 0
           /\ \A k \in i + 1 .. NextTurn(i, c) - 1 : c[k] # 0
  <1> DEFINE S == {j \in i + 1 .. N + 1 : j = N + 1 \/ c[j] = 0}
             P(j) == /\ j = N + 1 \/ c[j] = 0
                     /\ \A k \in i + 1 .. j - 1 : c[k] # 0
  <1>1. S \subseteq Nat /\ N + 1 \in S
    BY MembershipAssumption
  <1>2. PICK j \in S : \A k \in S : j <= k
    BY <1>1, LeastElement
  <1>3. j \in i + 1 .. N + 1 /\ P(j)
    BY <1>2, MembershipAssumption
  <1>4. NextTurn(i, c) = CHOOSE n \in i + 1 .. N + 1 : P(n)
    BY DEF NextTurn
  <1> QED
    BY <1>3, <1>4

LEMMA FirstProperty ==
    ASSUME NEW S, S \subseteq Gossip, S # {}
    PROVE  First(S) \in S
  <1>0. ASSUME NEW m \in S PROVE m.sent \in Nat /\ m.from \in Nat
    <2>1. m.sent \in Nat /\ m.from \in Agents
      BY DEF Gossip
    <2> QED
      BY <2>1, MembershipAssumption DEF Agents
  <1> DEFINE A == {m.sent : m \in S}
  <1>1. A \subseteq Nat /\ A # {}
    BY <1>0
  <1>2. PICK a \in A : \A b \in A : a <= b
    <2> HIDE DEF A
    <2> QED
      BY <1>1, LeastElement
  <1> DEFINE T == {m \in S : m.sent = a}
             B == {m.from : m \in T}
  <1>3. PICK k \in S : k.sent = a
    OBVIOUS
  <1>4. B \subseteq Nat /\ B # {}
    <2>1. k \in T
      BY <1>3
    <2> QED
      BY <1>0, <2>1
  <1>5. PICK f \in B : \A g \in B : f <= g
    <2> HIDE DEF B
    <2> QED
      BY <1>4, LeastElement
  <1>6. PICK m \in S : m.sent = a /\ m.from = f
    OBVIOUS
  <1>7. ASSUME NEW n \in S PROVE ~Before(n, m)
    <2>1. n.sent = a => f <= n.from
      BY <1>5
    <2>2. a <= n.sent
      BY <1>2
    <2> HIDE DEF A, B
    <2> QED
      BY <1>0, <1>6, <2>1, <2>2 DEF Before
  <1> QED
    BY <1>6, <1>7 DEF First

-----------------------------------------------------------------------------
\* What the operations on one registry entry and on a view do.

LEMMA EntryTypes ==
    /\ Absent \in EntryType /\ Unassigned \in EntryType
    /\ Absent.owner = NoOwner /\ Unassigned.owner = NoOwner
    /\ Unassigned.status = "Unassigned"
  BY DEF Absent, Unassigned, EntryType, Statuses

LEMMA FreeEntryOK ==
    ASSUME NEW e \in EntryType, e.owner = NoOwner, NEW v
    PROVE  EntryOK(v, e)
  BY DEF EntryOK

LEMMA AssignedOK ==
    ASSUME NEW v, NEW e, EntryOK(v, e), NEW a \in Agents, v[a].alive
    PROVE  EntryOK(v, Assigned(e, a))
  <1>1. [status |-> "Assigned", owner |-> a] \in EntryType
    BY DEF EntryType, Statuses
  <1> QED
    BY <1>1 DEF EntryOK, Assigned

LEMMA ReleasedOK ==
    ASSUME NEW v, NEW e, EntryOK(v, e), NEW w
    PROVE  EntryOK(w, Released(e)) /\ Released(e).owner = NoOwner
  BY EntryTypes DEF EntryOK, Released, Held

LEMMA CompletedOK ==
    ASSUME NEW v, NEW e, EntryOK(v, e), NEW w
    PROVE  EntryOK(w, Completed(e))
  <1>1. [status |-> "Completed", owner |-> NoOwner] \in EntryType
    BY DEF EntryType, Statuses
  <1> QED
    BY <1>1 DEF EntryOK, Completed, Held

LEMMA EntryMonotone ==
    ASSUME NEW v, NEW w, NEW e, EntryOK(v, e),
           \A a \in Agents : v[a].alive => w[a].alive
    PROVE  EntryOK(w, e)
  BY DEF EntryOK, EntryType

LEMMA RecordType ==
    ASSUME NEW e \in Entry, NEW s \in Nat, NEW g \in Nat
    PROVE  LET f == record_heartbeat(e, s, g) IN
           /\ f \in Entry
           /\ e.alive => f.alive
           /\ Newer(e, s, g) => f.alive /\ f.last = s /\ f.generation = g
           /\ ~Newer(e, s, g) => f = e
  BY DEF record_heartbeat, Entry

LEMMA MarkDeadType ==
    ASSUME NEW v \in View, NEW D
    PROVE  /\ mark_dead(v, D) \in View
           /\ \A a \in Agents :
                 /\ mark_dead(v, D)[a].last = v[a].last
                 /\ mark_dead(v, D)[a].generation = v[a].generation
                 /\ mark_dead(v, D)[a].alive <=> (v[a].alive /\ a \notin D)
  BY DEF mark_dead, View, Entry

\* Releasing the tasks of the agents that are marked dead keeps every entry.
LEMMA ReleaseDeadOK ==
    ASSUME NEW v \in View, NEW r, NEW D, NEW t \in Tasks, EntryOK(v, r[t])
    PROVE  EntryOK(mark_dead(v, D), release_agent_tasks(r, D)[t])
  <1>1. CASE r[t].owner \in D
    BY <1>1, ReleasedOK DEF release_agent_tasks
  <1>2. CASE r[t].owner \notin D
    <2>1. release_agent_tasks(r, D)[t] = r[t]
      BY <1>2 DEF release_agent_tasks
    <2>2. r[t].owner \in Agents \cup {NoOwner}
      BY DEF EntryOK, EntryType
    <2> QED
      BY <1>2, <2>1, <2>2, MarkDeadType DEF EntryOK
  <1> QED
    BY <1>1, <1>2

\* The deliveries of a send are over the given links, at a tick.
LEMMA ArrivalsType ==
    ASSUME NEW L, NEW now \in Nat, NEW D, NEW fate \in Fates(D),
           NEW p \in Arrivals(L, now, fate)
    PROVE  p[1] \in L /\ p[2] \in Nat
  <1>1. CASE \E l \in L \ DOMAIN fate : p = <<l, now + PromptDelay>>
    BY <1>1, RuntimeAssumption
  <1>2. CASE \E l \in {k \in L \cap DOMAIN fate : fate[k] # Lost} :
                 p = <<l, now + fate[l]>>
    <2>1. PICK l \in L \cap DOMAIN fate :
              fate[l] # Lost /\ p = <<l, now + fate[l]>>
      BY <1>2
    <2>2. fate[l] \in Delays
      BY <2>1 DEF Fates
    <2>3. \A d \in Delays : now + d \in Nat
      BY RuntimeAssumption
    <2> QED
      BY <2>1, <2>2, <2>3
  <1> QED
    BY <1>1, <1>2, Zenon DEF Arrivals

-----------------------------------------------------------------------------
\* The inductive invariant.

Inv == TypeOK /\ Owners /\ Clock /\ Gens /\ OwnFresh /\ CrashDetected /\ SelfAlive

LEMMA InvInit == Init => Inv
  <1> SUFFICES ASSUME Init PROVE Inv
    OBVIOUS
  <1>1. /\ \A i, a \in Agents : view[i][a] = [alive |-> TRUE, last |-> 0,
                                             generation |-> 1]
        /\ \A i \in Agents, t \in Tasks : /\ reg[i][t] \in EntryType
                                          /\ reg[i][t].owner = NoOwner
    BY EntryTypes DEF Init
  <1>2. TypeOK
    <2>1. view \in [Agents -> View]
      BY DEF Init, View, Entry
    <2>2. reg \in [Agents -> Registry(Agents)]
      BY EntryTypes DEF Init, Registry, EntryType
    <2>3. /\ crashedAt \in [Agents -> Nat] /\ sinceGossip \in [Agents -> Nat]
          /\ tick \in Nat /\ turn \in 0 .. N + 1 /\ phase \in {"inbox", "gossip"}
      BY MembershipAssumption DEF Init
    <2>4. cut \subseteq Pairs /\ hbs \subseteq Heartbeat /\ gossips \subseteq Gossip
      BY DEF Init
    <2> QED
      BY <2>1, <2>2, <2>3, <2>4 DEF TypeOK
  <1>3. Owners
    BY <1>1 DEF Owners, EntryOK
  <1>4. Clock
    BY <1>1, MembershipAssumption DEF Init, Clock, BeforeCrash, Agents
  <1>5. Gens
    BY <1>1, RuntimeAssumption DEF Init, Gens
  <1>6. OwnFresh /\ CrashDetected /\ SelfAlive
    BY <1>1 DEF Init, OwnFresh, HasRead, CrashDetected, SelfAlive, Live
  <1> QED
    BY <1>2, <1>3, <1>4, <1>5, <1>6 DEF Inv

\* A new tick: nobody has read its inbox, crashed agents send nothing more.
LEMMA BeginKeepsInv ==
    ASSUME Inv, NEW crashes \in SUBSET Live, NEW parts \in SUBSET Pairs,
           NEW D, NEW fate \in Fates(D), BeginTick(crashes, parts, D, fate)
    PROVE  Inv'
  <1> USE DEF Inv
  <1>0. /\ tick \in Nat /\ tick' = tick + 1 /\ phase' = "inbox" /\ turn = 0
        /\ crashedAt \in [Agents -> Nat] /\ crashedAt' \in [Agents -> Nat]
        /\ UNCHANGED <<gossips, view, reg, sinceGossip>>
        /\ turn' = NextTurn(0, crashedAt')
    BY DEF BeginTick, TypeOK
  <1>1. /\ turn' \in 1 .. N + 1
        /\ turn' = N + 1 \/ crashedAt'[turn'] = 0
        /\ \A k \in 1 .. turn' - 1 : crashedAt'[k] # 0
    BY <1>0, NextTurnProperty, MembershipAssumption
  <1>2. ASSUME NEW m \in hbs'
        PROVE  m \in hbs \/ /\ m \in Heartbeat /\ m.sent = tick + 1
                            /\ crashedAt'[m.from] = 0
    <2> DEFINE L == Links(Live \ crashes, parts)
    <2>1. CASE m \in hbs
      BY <2>1
    <2>2. CASE \E p \in Arrivals(L, tick + 1, fate) :
                   m = [from |-> p[1][1], to |-> p[1][2], sent |-> tick + 1,
                        deliver |-> p[2]]
      <3>1. PICK p \in Arrivals(L, tick + 1, fate) :
                   m = [from |-> p[1][1], to |-> p[1][2], sent |-> tick + 1,
                        deliver |-> p[2]]
        BY <2>2
      <3>2. p[1] \in L /\ p[2] \in Nat
        BY <1>0, <3>1, ArrivalsType
      <3>3. p[1][1] \in Live \ crashes /\ p[1][2] \in Live \ crashes
        BY <3>2 DEF Links
      <3> QED
        BY <1>0, <3>1, <3>2, <3>3 DEF Heartbeat, Live, BeginTick
    <2> QED
      BY <2>1, <2>2 DEF BeginTick
  <1>3. TypeOK'
    <2>1. hbs' \subseteq Heartbeat
      BY <1>2 DEF TypeOK
    <2>2. turn' \in 0 .. N + 1 /\ tick' \in Nat /\ cut' \subseteq Pairs
      BY <1>0, <1>1, MembershipAssumption DEF BeginTick
    <2> QED
      BY <1>0, <2>1, <2>2 DEF TypeOK
  <1>4. Owners' /\ Gens'
    BY <1>0 DEF Owners, Gens
  <1>5. Clock'
    <2>1. \A a \in Agents : crashedAt'[a] <= tick'
      BY <1>0 DEF Clock, BeginTick
    <2>2. ASSUME NEW s \in Nat, NEW a \in Agents, BeforeCrash(s, a)
          PROVE  BeforeCrash(s, a)'
      BY <1>0, <2>2 DEF BeforeCrash, BeginTick
    <2>3. ASSUME NEW m \in hbs' PROVE BeforeCrash(m.sent, m.from)'
      <3>1. CASE m \in hbs
        <4>1. m.sent \in Nat /\ m.from \in Agents
          BY <3>1 DEF TypeOK, Heartbeat
        <4> QED
          BY <3>1, <4>1, <2>2 DEF Clock
      <3>2. CASE m.sent = tick + 1 /\ crashedAt'[m.from] = 0
        BY <1>0, <3>2 DEF BeforeCrash
      <3> QED
        BY <1>2, <3>1, <3>2
    <2>4. ASSUME NEW i \in Agents, NEW a \in Agents
          PROVE  BeforeCrash(view[i][a].last, a)'
      <3>1. view[i][a].last \in Nat
        BY DEF TypeOK, View, Entry
      <3> QED
        BY <1>0, <2>2, <3>1 DEF Clock
    <2> QED
      BY <1>1, <2>1, <2>3, <2>4, MembershipAssumption DEF Clock, Agents
  <1>6. OwnFresh'
    <2> SUFFICES ASSUME NEW i \in Agents PROVE view'[i][i].last < tick'
      BY DEF OwnFresh, Live
    <2>1. view[i][i].last \in Nat /\ view[i][i].last <= tick
      BY DEF TypeOK, View, Entry, Clock, BeforeCrash
    <2> QED
      BY <1>0, <2>1
  <1>7. ASSUME NEW i \in Live' PROVE ~HasRead(i)'
    <2>1. i \in 1 .. N /\ crashedAt'[i] = 0
      BY DEF Live, Agents
    <2> QED
      BY <1>0, <1>1, <2>1, MembershipAssumption DEF HasRead
  <1>8. CrashDetected' /\ SelfAlive'
    BY <1>7 DEF CrashDetected, SelfAlive
  <1> QED
    BY <1>3, <1>4, <1>5, <1>6, <1>8

\* What recording the inbox does to one entry of the view.
LEMMA HeartbeatsProperty ==
    ASSUME TypeOK, Clock, Gens, NEW i \in Agents, crashedAt[i] = 0,
           NEW a \in Agents
    PROVE  LET e == Heartbeats(i)[a] IN
           /\ e \in Entry
           /\ view[i][a].alive => e.alive
           /\ e.generation \in 1 .. Generation[a]
           /\ BeforeCrash(e.last, a)
           /\ a = i /\ view[i][i].last < tick => e.alive /\ e.last = tick
  <1> DEFINE S == SentBy(i, a)
             old == view[i][a]
             g == Generation[a]
             e == Heartbeats(i)[a]
  <1>1. /\ old \in Entry /\ old.generation \in 1 .. g /\ g \in Nat \ {0}
        /\ BeforeCrash(old.last, a) /\ tick \in Nat /\ old.last \in Nat
        /\ old.generation \in Nat
    BY RuntimeAssumption DEF TypeOK, Clock, Gens, View, Entry
  <1>2. ASSUME NEW s \in S PROVE s \in Nat /\ BeforeCrash(s, a)
    <2>1. CASE a = i /\ s = tick
      BY <1>1, <2>1 DEF BeforeCrash
    <2>2. CASE \E m \in hbs : m.from = a /\ s = m.sent
      BY <2>2 DEF TypeOK, Heartbeat, Clock
    <2> QED
      BY <2>1, <2>2 DEF SentBy, Ready
  <1>3. S \subseteq Nat /\ \A s \in S : s <= tick
    BY <1>2 DEF BeforeCrash
  <1>4. a = i => tick \in S
    BY DEF SentBy
  <1>5. e = IF S = {} THEN old ELSE record_heartbeat(old, Latest(S), g)
    BY DEF Heartbeats
  <1>5a. g \in Nat
    BY <1>1
  <1> HIDE DEF S, e, g
  <1>6. CASE S = {}
    BY <1>1, <1>4, <1>5, <1>6 DEF e, g
  <1>7. CASE S # {}
    <2> DEFINE s == Latest(S)
    <2>1. s \in S /\ \A r \in S : r <= s
      BY <1>1, <1>3, <1>7, LatestProperty
    <2>2. s \in Nat /\ BeforeCrash(s, a) /\ s <= tick /\ (a = i => s = tick)
      <3> HIDE DEF s
      <3>1. s \in Nat /\ BeforeCrash(s, a) /\ s <= tick
        BY <1>2, <1>3, <2>1
      <3>2. a = i => tick <= s
        BY <1>4, <2>1
      <3> QED
        BY <1>1, <3>1, <3>2
    <2> HIDE DEF s
    <2>3. e = record_heartbeat(old, s, g)
      BY <1>5, <1>7 DEF s
    <2>4. /\ e \in Entry
          /\ old.alive => e.alive
          /\ Newer(old, s, g) => e.alive /\ e.last = s /\ e.generation = g
          /\ ~Newer(old, s, g) => e = old
      BY <1>1, <1>5a, <2>2, <2>3 DEF record_heartbeat, Entry
    <2>5. a = i /\ old.last < tick => Newer(old, s, g)
      BY <1>1, <2>2 DEF Newer
    <2>6. e.generation \in 1 .. g
      BY <1>1, <2>4
    <2>7. BeforeCrash(e.last, a)
      BY <1>1, <2>2, <2>4
    <2>8. a = i /\ view[i][i].last < tick => e.alive /\ e.last = tick
      BY <2>2, <2>4, <2>5
    <2> QED
      BY <2>4, <2>6, <2>7, <2>8 DEF e, g
  <1> QED
    BY <1>6, <1>7

\* Reading the inbox finds every agent that crashed TimeoutTicks ticks ago.
LEMMA InboxDetects ==
    ASSUME TypeOK, Clock, Gens, NEW i \in Agents, NodeInbox(i),
           NEW a \in Agents, crashedAt[a] # 0,
           tick >= crashedAt[a] + TimeoutTicks
    PROVE  ~view'[i][a].alive
  <1> DEFINE v == Heartbeats(i)
             failed == detect(v, tick)
             w == mark_dead(v, failed)
  <1>0. crashedAt[i] = 0 /\ tick \in Nat /\ view'[i] = w
    BY DEF NodeInbox, process_tick, Clock, TypeOK
  <1>1. ASSUME NEW b \in Agents
        PROVE  v[b] \in Entry /\ BeforeCrash(v[b].last, b)
    BY <1>0, HeartbeatsProperty
  <1>2. v \in View
    BY <1>1 DEF View, Heartbeats
  <1> HIDE DEF v
  <1>3. w[a].alive <=> (v[a].alive /\ a \notin failed)
    BY <1>2, MarkDeadType
  <1>4. /\ v[a].last \in Nat /\ v[a].last < crashedAt[a]
        /\ crashedAt[a] \in Nat
    BY <1>1 DEF BeforeCrash, Entry, TypeOK
  <1>5. tick - v[a].last > TimeoutTicks
    BY <1>0, <1>4, MembershipAssumption
  <1>6. v[a].alive => a \in failed
    BY <1>5 DEF detect, alive_agents
  <1> QED
    BY <1>0, <1>3, <1>6

LEMMA InboxKeepsInv ==
    ASSUME Inv, NEW i \in Agents, NodeInbox(i)
    PROVE  Inv'
  <1> USE DEF Inv
  <1> DEFINE v == Heartbeats(i)
             out == process_tick(i, v, Injected)
             failed == detect(v, tick)
             w == mark_dead(v, failed)
  <1>0. /\ turn = i /\ phase = "inbox" /\ phase' = "gossip"
        /\ crashedAt[i] = 0 /\ tick \in Nat
        /\ UNCHANGED <<tick, turn, crashedAt, cut, gossips, sinceGossip>>
        /\ hbs' \subseteq hbs
    BY DEF NodeInbox, Clock, TypeOK
  <1>1. /\ view' = [view EXCEPT ![i] = w]
        /\ reg' = [reg EXCEPT ![i] = out.reg]
    BY DEF NodeInbox, process_tick
  <1>2. ASSUME NEW a \in Agents
        PROVE  /\ v[a] \in Entry
               /\ view[i][a].alive => v[a].alive
               /\ v[a].generation \in 1 .. Generation[a]
               /\ BeforeCrash(v[a].last, a)
               /\ a = i /\ view[i][i].last < tick =>
                      v[a].alive /\ v[a].last = tick
    BY <1>0, HeartbeatsProperty
  <1>3. v \in View
    BY <1>2 DEF View, Heartbeats
  <1> HIDE DEF v
  <1>4. /\ w \in View
        /\ \A a \in Agents : /\ w[a].last = v[a].last
                             /\ w[a].generation = v[a].generation
                             /\ w[a].alive <=> (v[a].alive /\ a \notin failed)
    BY <1>3, MarkDeadType
  <1>5. ASSUME NEW t \in Tasks PROVE EntryOK(w, out.reg[t])
    <2> DEFINE r1 == insert(reg[i], Injected)
               r2 == release_agent_tasks(r1, failed)
    <2>1. out.reg = expire_tasks(r2, tick)
      BY DEF process_tick
    <2>2. EntryOK(v, reg[i][t])
      BY <1>2, EntryMonotone DEF Owners
    <2>3. EntryOK(v, r1[t])
      BY <2>2, EntryTypes, FreeEntryOK DEF insert
    <2> HIDE DEF r1
    <2>4. EntryOK(w, r2[t])
      BY <1>3, <2>3, ReleaseDeadOK
    <2> HIDE DEF r2
    <2>5. out.reg[t] = IF Expired(r2[t], t, tick) THEN Absent ELSE r2[t]
      BY <2>1 DEF expire_tasks
    <2> QED
      BY <2>4, <2>5, EntryTypes, FreeEntryOK
  <1>6. out.reg \in Registry(Agents)
    <2>1. out.reg = [t \in Tasks |-> out.reg[t]]
      BY DEF process_tick, expire_tasks
    <2> HIDE DEF out
    <2> QED
      BY <1>5, <2>1 DEF Registry, EntryOK, EntryType
  <1> HIDE DEF w, out
  <1>7. /\ view'[i] = w /\ reg'[i] = out.reg
        /\ \A j \in Agents : j # i => view'[j] = view[j] /\ reg'[j] = reg[j]
    BY <1>1 DEF TypeOK
  <1>8. TypeOK'
    BY <1>0, <1>1, <1>4, <1>6 DEF TypeOK
  <1>9. Owners'
    BY <1>5, <1>7 DEF Owners
  <1>10. Gens'
    BY <1>0, <1>2, <1>4, <1>7 DEF Gens
  <1>11. Clock'
    BY <1>0, <1>2, <1>4, <1>7 DEF Clock, BeforeCrash
  <1>12. ASSUME NEW j \in Agents, j # i
         PROVE  (HasRead(j)' <=> HasRead(j)) /\ HasRead(i)' /\ ~HasRead(i)
    BY <1>0, <1>12 DEF HasRead, Agents
  <1>13. HasRead(i)' /\ ~HasRead(i) /\ Live' = Live
    BY <1>0, MembershipAssumption DEF HasRead, Agents, Live
  <1>14. OwnFresh'
    BY <1>0, <1>7, <1>12, <1>13 DEF OwnFresh, Live
  <1>15. w[i].alive /\ w[i].last = tick
    <2>1. v[i].alive /\ v[i].last = tick
      BY <1>0, <1>2, <1>13 DEF OwnFresh, Live
    <2>2. i \notin failed
      BY <1>0, <2>1, MembershipAssumption DEF detect
    <2> QED
      BY <1>4, <2>1, <2>2
  <1>16. SelfAlive'
    BY <1>7, <1>12, <1>13, <1>15 DEF SelfAlive, Live
  <1>17. ASSUME NEW a \in Agents, crashedAt[a] # 0,
                tick >= crashedAt[a] + TimeoutTicks
         PROVE  ~w[a].alive
    BY <1>7, <1>17, InboxDetects
  <1>18. CrashDetected'
    BY <1>0, <1>7, <1>12, <1>13, <1>17 DEF CrashDetected, Live
  <1> QED
    BY <1>8, <1>9, <1>10, <1>11, <1>14, <1>16, <1>18

\* What one message does to an entry of the registry and of the view.
LEMMA GossipEntryOK ==
    ASSUME NEW v, NEW e, EntryOK(v, e), NEW a \in Agents, NEW g
    PROVE  EntryOK(v, GossipEntry(v, e, a, g))
  <1>1. EntryOK(v, Released(e))
    BY ReleasedOK
  <1>2. v[a].alive => EntryOK(v, Assigned(e, a)) /\ EntryOK(v, Assigned(Released(e), a))
    BY <1>1, AssignedOK
  <1> QED
    BY <1>2 DEF GossipEntry

LEMMA GossipViewProperty ==
    ASSUME NEW v \in View, NEW m \in Gossip, NEW a \in Agents
    PROVE  /\ GossipView(v, m)[a] \in Entry
           /\ v[a].alive => GossipView(v, m)[a].alive
           /\ \/ GossipView(v, m)[a] = v[a]
              \/ /\ m.generation[a] > v[a].generation
                 /\ GossipView(v, m)[a].last = 0
                 /\ GossipView(v, m)[a].generation = m.generation[a]
  <1>1. v[a] \in Entry /\ m.generation[a] \in Nat
    BY DEF View, Gossip
  <1>2. CASE m.generation[a] > v[a].generation
    <2>1. GossipView(v, m)[a] = [alive |-> TRUE, last |-> 0,
                                 generation |-> m.generation[a]]
      BY <1>1, <1>2 DEF GossipView, record_heartbeat, Newer
    <2> QED
      BY <1>1, <1>2, <2>1 DEF Entry
  <1>3. CASE ~(m.generation[a] > v[a].generation)
    BY <1>1, <1>3 DEF GossipView
  <1> QED
    BY <1>2, <1>3

LEMMA GossipKeepsInv ==
    ASSUME Inv, NEW i \in Agents, NodeGossip(i)
    PROVE  Inv'
  <1> USE DEF Inv
  <1> DEFINE m == First(Ready(gossips, i))
             w == GossipView(view[i], m)
             r == GossipRegistry(view[i], reg[i], m)
  <1>0. /\ turn = i /\ phase = "gossip" /\ tick \in Nat
        /\ UNCHANGED <<tick, turn, phase, crashedAt, cut, hbs, sinceGossip>>
        /\ gossips' \subseteq gossips
        /\ view[i] \in View
    BY DEF NodeGossip, TypeOK
  <1>1. /\ view' = [view EXCEPT ![i] = w]
        /\ reg' = [reg EXCEPT ![i] = r]
    BY DEF NodeGossip
  <1>2. m \in gossips /\ m \in Gossip
    <2>1. Ready(gossips, i) # {} /\ Ready(gossips, i) \subseteq Gossip
      BY DEF NodeGossip, Ready, TypeOK
    <2>2. m \in Ready(gossips, i)
      BY <2>1, FirstProperty
    <2> QED
      BY <2>1, <2>2 DEF Ready
  <1> HIDE DEF m
  <1>3. ASSUME NEW a \in Agents
        PROVE  /\ w[a] \in Entry
               /\ view[i][a].alive => w[a].alive
               /\ \/ w[a] = view[i][a]
                  \/ /\ m.generation[a] > view[i][a].generation
                     /\ w[a].last = 0
                     /\ w[a].generation = m.generation[a]
    BY <1>0, <1>2, GossipViewProperty
  <1>4. w \in View
    BY <1>3 DEF View, GossipView
  <1>5. ASSUME NEW t \in Tasks PROVE EntryOK(w, r[t])
    <2>1. EntryOK(view[i], reg[i][t])
      BY DEF Owners
    <2>2. m.owner[t] \in Agents \cup {NoOwner}
      BY <1>2 DEF Gossip
    <2>3. EntryOK(view[i], r[t])
      BY <2>1, <2>2, GossipEntryOK DEF GossipRegistry
    <2> HIDE DEF w, r
    <2> QED
      BY <1>3, <2>3, EntryMonotone
  <1>6. r \in Registry(Agents)
    <2>1. r = [t \in Tasks |-> r[t]]
      BY DEF GossipRegistry
    <2> HIDE DEF r
    <2> QED
      BY <1>5, <2>1 DEF Registry, EntryOK, EntryType
  <1> HIDE DEF w, r
  <1>7. /\ view'[i] = w /\ reg'[i] = r
        /\ \A j \in Agents : j # i => view'[j] = view[j] /\ reg'[j] = reg[j]
    BY <1>1 DEF TypeOK
  <1>8. TypeOK'
    BY <1>0, <1>1, <1>4, <1>6 DEF TypeOK
  <1>9. Owners'
    BY <1>5, <1>7 DEF Owners
  <1>10. Gens'
    BY <1>0, <1>2, <1>3, <1>7 DEF Gens
  <1>11. Clock'
    <2>1. ASSUME NEW a \in Agents PROVE BeforeCrash(w[a].last, a)
      <3>1. BeforeCrash(0, a)
        BY <1>0 DEF BeforeCrash, TypeOK
      <3> QED
        BY <1>3, <3>1 DEF Clock
    <2> QED
      BY <1>0, <1>7, <2>1 DEF Clock, BeforeCrash
  <1>12. Live' = Live /\ HasRead(i) /\ \A j \in Agents : HasRead(j)' <=> HasRead(j)
    BY <1>0 DEF HasRead, Live
  <1>13. OwnFresh'
    BY <1>0, <1>7, <1>12 DEF OwnFresh, Live
  <1>14. SelfAlive'
    BY <1>3, <1>7, <1>12 DEF SelfAlive, Live
  <1>15. CrashDetected'
    <2>1. ASSUME OneGeneration, NEW a \in Agents PROVE w[a] = view[i][a]
      BY <1>2, <1>3, <2>1 DEF Gens, OneGeneration
    <2> QED
      BY <1>0, <1>7, <1>12, <2>1 DEF CrashDetected, Live
  <1> QED
    BY <1>8, <1>9, <1>10, <1>11, <1>13, <1>14, <1>15

\* The bound on battery exhaustions is never exceeded.
Budget ==
    /\ budget = [x \in DOMAIN budget |-> budget[x]]
    /\ "exhaust" \in DOMAIN budget
    /\ budget["exhaust"] \in Int /\ budget["exhaust"] <= MaxExhausted

LEMMA AliveFinite ==
    ASSUME NEW v, NEW S \in SUBSET alive_agents(v)
    PROVE  /\ IsFiniteSet(S) /\ Cardinality(S) \in Nat
           /\ Cardinality(S) = 0 => S = {}
  <1>1. IsFiniteSet(Agents)
    BY FS_Interval, MembershipAssumption DEF Agents
  <1>2. S \subseteq Agents
    BY DEF alive_agents
  <1>3. IsFiniteSet(S)
    BY <1>1, <1>2, FS_Subset
  <1> QED
    BY <1>3, FS_CardinalityType, FS_EmptySet

LEMMA FinishKeepsInv ==
    ASSUME Inv, Budget, NEW i \in Agents, NEW T \in SUBSET Free(reg[i]),
           NEW decisions \in [T -> alive_agents(view[i])],
           NEW exhausted \in Disturbable(alive_agents(view[i]), budget.exhaust),
           NEW D, NEW fate \in Fates(D),
           NodeFinish(i, decisions, exhausted, D, fate)
    PROVE  Inv'
  <1> USE DEF Inv
  <1> DEFINE r == allocate_unassigned(reg[i], decisions)
             w == mark_dead(view[i], exhausted)
             q == release_agent_tasks(r, exhausted)
  <1>0. /\ turn = i /\ phase = "gossip" /\ phase' = "inbox" /\ tick \in Nat
        /\ UNCHANGED <<tick, crashedAt, cut, hbs>>
        /\ turn' = NextTurn(i, crashedAt)
        /\ view[i] \in View /\ crashedAt \in [Agents -> Nat]
    BY DEF NodeFinish, TypeOK
  <1>1. /\ view' = [view EXCEPT ![i] = w]
        /\ reg' = [reg EXCEPT ![i] = q]
    BY DEF NodeFinish
  <1>2. /\ w \in View
        /\ \A a \in Agents : /\ w[a].last = view[i][a].last
                             /\ w[a].generation = view[i][a].generation
                             /\ w[a].alive <=> (view[i][a].alive /\ a \notin exhausted)
    BY <1>0, MarkDeadType
  <1>3. ASSUME NEW t \in Tasks PROVE EntryOK(view[i], r[t])
    <2>1. EntryOK(view[i], reg[i][t])
      BY DEF Owners
    <2>2. CASE t \in T
      <3>1. decisions[t] \in Agents /\ view[i][decisions[t]].alive
        BY <2>2 DEF alive_agents
      <3>2. r[t] = Assigned(reg[i][t], decisions[t])
        BY <2>2 DEF allocate_unassigned
      <3> QED
        BY <2>1, <3>1, <3>2, AssignedOK
    <2>3. CASE t \notin T
      BY <2>1, <2>3 DEF allocate_unassigned
    <2> QED
      BY <2>2, <2>3
  <1>4. ASSUME NEW t \in Tasks PROVE EntryOK(w, q[t])
    <2> HIDE DEF r
    <2> QED
      BY <1>0, <1>3, ReleaseDeadOK
  <1>5. q \in Registry(Agents)
    <2>1. q = [t \in Tasks |-> q[t]]
      BY DEF release_agent_tasks
    <2> HIDE DEF q, w
    <2> QED
      BY <1>4, <2>1 DEF Registry, EntryOK, EntryType
  <1>6. ASSUME NEW m \in gossips'
        PROVE  m \in gossips \/ (/\ m \in Gossip
                                 /\ \A a \in Agents : m.generation[a] = view[i][a].generation)
    <2> DEFINE L == GossipLinks(i)
    <2>1. CASE m \in gossips
      BY <2>1
    <2>2. CASE \E p \in Arrivals(L, tick, fate) :
                   m = GossipMessage(i, r, p[1][2], p[2])
      <3>1. PICK p \in Arrivals(L, tick, fate) :
                   m = GossipMessage(i, r, p[1][2], p[2])
        BY <2>2
      <3>2. p[1] \in L /\ p[2] \in Nat
        BY <1>0, <3>1, ArrivalsType
      <3>3. p[1][2] \in Agents
        BY <3>2 DEF GossipLinks, Links, Live
      <3>4. [t \in Tasks |-> r[t].owner] \in [Tasks -> Agents \cup {NoOwner}]
        <4> HIDE DEF r
        <4> QED
          BY <1>3 DEF EntryOK, EntryType
      <3>5. [a \in Agents |-> view[i][a].generation] \in [Agents -> Nat]
        BY <1>0 DEF View, Entry
      <3> HIDE DEF r, L
      <3> QED
        BY <1>0, <3>1, <3>2, <3>3, <3>4, <3>5 DEF Gossip, GossipMessage
    <2> QED
      BY <2>1, <2>2 DEF NodeFinish
  <1> HIDE DEF w, q, r
  <1>7. /\ view'[i] = w /\ reg'[i] = q
        /\ \A j \in Agents : j # i => view'[j] = view[j] /\ reg'[j] = reg[j]
    BY <1>1 DEF TypeOK
  <1>8. /\ turn' \in i + 1 .. N + 1
        /\ turn' = N + 1 \/ crashedAt[turn'] = 0
        /\ \A k \in i + 1 .. turn' - 1 : crashedAt[k] # 0
    <2>1. i \in 0 .. N
      BY MembershipAssumption DEF Agents
    <2> QED
      BY <1>0, <2>1, NextTurnProperty
  <1>9. TypeOK'
    <2>1. gossips' \subseteq Gossip
      BY <1>6 DEF TypeOK
    <2>2. sinceGossip' \in [Agents -> Nat]
      BY DEF NodeFinish, TypeOK
    <2>3. turn' \in 0 .. N + 1
      BY <1>8, MembershipAssumption DEF Agents
    <2>4. view' \in [Agents -> View] /\ reg' \in [Agents -> Registry(Agents)]
      BY <1>1, <1>2, <1>5 DEF TypeOK
    <2> QED
      BY <1>0, <2>1, <2>2, <2>3, <2>4 DEF TypeOK
  <1>10. Owners'
    BY <1>4, <1>7 DEF Owners
  <1>11. Gens'
    BY <1>2, <1>6, <1>7 DEF Gens
  <1>12. Clock'
    <2>1. turn' \in Agents => crashedAt'[turn'] = 0
      BY <1>0, <1>8, MembershipAssumption DEF Agents
    <2> QED
      BY <1>0, <1>2, <1>7, <2>1 DEF Clock, BeforeCrash
  <1>13. Live' = Live
    BY <1>0 DEF Live
  <1>14. ASSUME NEW j \in Live PROVE HasRead(j)' <=> HasRead(j)
    <2>1. j \in 1 .. N /\ crashedAt[j] = 0 /\ i \in 1 .. N
      BY DEF Live, Agents
    <2> QED
      BY <1>0, <1>8, <2>1, MembershipAssumption DEF HasRead
  <1>15. OwnFresh'
    BY <1>0, <1>2, <1>7, <1>13, <1>14 DEF OwnFresh, Live
  <1>16. SelfAlive'
    <2> SUFFICES ASSUME MaxExhausted = 0, NEW j \in Live, HasRead(j)
                 PROVE  view'[j][j].alive
      BY <1>13, <1>14 DEF SelfAlive
    <2>1. view[j][j].alive /\ j \in Agents
      BY DEF SelfAlive, Live
    <2>2. exhausted = {}
      <3>1. exhausted \in SUBSET alive_agents(view[i])
        BY DEF Disturbable
      <3>2. Cardinality(exhausted) <= budget["exhaust"]
        BY DEF Disturbable
      <3>3. Cardinality(exhausted) \in Nat /\ (Cardinality(exhausted) = 0 => exhausted = {})
        BY <3>1, AliveFinite
      <3> QED
        BY <3>2, <3>3 DEF Budget
    <2> QED
      BY <1>2, <1>7, <2>1, <2>2
  <1>17. CrashDetected'
    BY <1>0, <1>2, <1>7, <1>13, <1>14 DEF CrashDetected, Live
  <1> QED
    BY <1>9, <1>10, <1>11, <1>12, <1>15, <1>16, <1>17

LEMMA EndKeepsInv ==
    ASSUME Inv, NEW done, NEW ts, EndTick(done, ts)
    PROVE  Inv'
  <1> USE DEF Inv
  <1>0. /\ turn = N + 1 /\ turn' = 0
        /\ UNCHANGED <<tick, phase, crashedAt, cut, hbs, gossips, view,
                       sinceGossip>>
    BY DEF EndTick
  <1>1. ASSUME NEW i \in Agents, NEW t \in Tasks
        PROVE  EntryOK(view[i], reg'[i][t])
    <2> DEFINE r == complete_tasks(reg[i], done[i])
    <2>1. EntryOK(view[i], reg[i][t])
      BY DEF Owners
    <2>2. EntryOK(view[i], r[t])
      BY <2>1, CompletedOK DEF complete_tasks
    <2> HIDE DEF r
    <2>3. EntryOK(view[i], release_tasks(r, ts)[t])
      BY <2>2, ReleasedOK DEF release_tasks
    <2> QED
      BY <2>1, <2>3 DEF EndTick, r
  <1>2. reg' \in [Agents -> Registry(Agents)]
    <2>1. ASSUME NEW i \in Agents PROVE reg'[i] = [t \in Tasks |-> reg'[i][t]]
      BY DEF EndTick, release_tasks, TypeOK, Registry
    <2>2. ASSUME NEW i \in Agents PROVE reg'[i] \in Registry(Agents)
      BY <1>1, <2>1 DEF Registry, EntryOK, EntryType
    <2>3. reg' = [i \in Agents |-> reg'[i]]
      BY DEF EndTick
    <2> QED
      BY <2>2, <2>3
  <1>3. TypeOK'
    BY <1>0, <1>2, MembershipAssumption DEF TypeOK
  <1>4. Owners'
    BY <1>0, <1>1 DEF Owners
  <1>5. Clock' /\ Gens'
    BY <1>0, MembershipAssumption DEF Clock, BeforeCrash, Gens, Agents
  <1>6. Live' = Live /\ \A j \in Agents : HasRead(j) /\ HasRead(j)'
    BY <1>0, MembershipAssumption DEF Live, HasRead, Agents
  <1>7. OwnFresh' /\ SelfAlive' /\ CrashDetected'
    BY <1>0, <1>6 DEF OwnFresh, SelfAlive, CrashDetected, Live
  <1> QED
    BY <1>3, <1>4, <1>5, <1>7

LEMMA BudgetKept == Budget /\ [Next]_vars => Budget'
  <1> SUFFICES ASSUME Budget, [Next]_vars PROVE Budget'
    OBVIOUS
  <1>1. ASSUME NEW crashes, NEW parts, NEW D, NEW fate,
               BeginTick(crashes, parts, D, fate)
        PROVE  Budget'
    BY <1>1 DEF BeginTick, Budget
  <1>2. ASSUME NEW i \in Agents, NEW decisions, NEW D, NEW fate,
               NEW exhausted \in Disturbable(alive_agents(view[i]), budget.exhaust),
               NodeFinish(i, decisions, exhausted, D, fate)
        PROVE  Budget'
    <2>1. exhausted \in SUBSET alive_agents(view[i])
      BY DEF Disturbable
    <2>2. Cardinality(exhausted) \in Nat
      BY <2>1, AliveFinite
    <2>3. budget["exhaust"] - Cardinality(exhausted) \in Int
          /\ budget["exhaust"] - Cardinality(exhausted) <= MaxExhausted
      BY <2>2, RuntimeAssumption DEF Budget
    <2>4. budget' = [budget EXCEPT !.exhaust = @ - Cardinality(exhausted),
                                   !.fault = @ - Cardinality(D),
                                   !.lost = @ - LostIn(fate)]
      BY <1>2 DEF NodeFinish
    <2>5. budget'["exhaust"] = budget["exhaust"] - Cardinality(exhausted)
      BY <2>4 DEF Budget
    <2>6. DOMAIN budget' = DOMAIN budget /\ budget' = [x \in DOMAIN budget' |-> budget'[x]]
      BY <2>4 DEF Budget
    <2> QED
      BY <2>3, <2>5, <2>6 DEF Budget
  <1>3. ASSUME NEW done, NEW ts, EndTick(done, ts) PROVE Budget'
    BY <1>3 DEF EndTick, Budget
  <1>4. ASSUME UNCHANGED budget PROVE Budget'
    BY <1>4 DEF Budget
  <1>5. ASSUME NEW i \in Agents, NodeInbox(i) \/ NodeGossip(i) PROVE Budget'
    BY <1>4, <1>5 DEF NodeInbox, NodeGossip
  <1> QED
    BY <1>1, <1>2, <1>3, <1>4, <1>5 DEF Next, Begin, Finish, End, vars

LEMMA NextKeepsInv == Inv /\ Budget /\ [Next]_vars => Inv'
  <1> SUFFICES ASSUME Inv, Budget, [Next]_vars PROVE Inv'
    OBVIOUS
  <1>1. CASE Begin
    BY <1>1, BeginKeepsInv DEF Begin
  <1>2. ASSUME NEW i \in Agents, NodeInbox(i) PROVE Inv'
    BY <1>2, InboxKeepsInv
  <1>3. ASSUME NEW i \in Agents, NodeGossip(i) PROVE Inv'
    BY <1>3, GossipKeepsInv
  <1>4. ASSUME NEW i \in Agents, Finish(i) PROVE Inv'
    BY <1>4, FinishKeepsInv DEF Finish
  <1>5. CASE End
    BY <1>5, EndKeepsInv DEF End
  <1>6. CASE UNCHANGED vars
    BY <1>6 DEF vars, Inv, TypeOK, Owners, Clock, BeforeCrash, Gens, OwnFresh,
        CrashDetected, SelfAlive, HasRead, Live
  <1> QED
    BY <1>1, <1>2, <1>3, <1>4, <1>5, <1>6 DEF Next

LEMMA BudgetInit == Init => Budget
  BY RuntimeAssumption DEF Init, Budget

LEMMA Invariance == Spec => [](Inv /\ Budget)
  BY InvInit, BudgetInit, NextKeepsInv, BudgetKept, PTL DEF Spec

-----------------------------------------------------------------------------
\* The variables keep their types in every run of the swarm, whatever the
\* number of agents, the losses, the delays and the cuts.
THEOREM TypeCorrect == Spec => []TypeOK
  BY Invariance, PTL DEF Inv

\* No node ever keeps a task with an agent that it believes dead.
THEOREM OwnersAlive == Spec => []OwnerBelievedAlive
  <1>1. Inv => OwnerBelievedAlive
    BY DEF Inv, Owners, EntryOK, OwnerBelievedAlive
  <1> QED
    BY <1>1, Invariance, PTL

\* Every live node detects every crash within TimeoutTicks ticks.
THEOREM CrashesDetected == Spec => []CrashDetected
  BY Invariance, PTL DEF Inv

\* Whatever the generations, a node that reads its inbox TimeoutTicks ticks after
\* a crash or later believes the crashed agent dead and holds no task of it, also
\* when gossip had revived it.
THEOREM CrashesRedetected == Spec => CrashRedetected
  <1> DEFINE A == \A i \in Live, a \in Agents :
                     /\ turn = i /\ phase = "inbox" /\ phase' = "gossip"
                     /\ crashedAt[a] # 0 /\ tick >= crashedAt[a] + TimeoutTicks
                     => /\ ~view'[i][a].alive
                        /\ \A t \in Tasks : reg'[i][t].owner # a
  <1>1. Inv /\ Inv' /\ [Next]_vars => A
    <2> SUFFICES ASSUME Inv, Inv', [Next]_vars,
                        NEW i \in Live, NEW a \in Agents,
                        turn = i, phase = "inbox", phase' = "gossip",
                        crashedAt[a] # 0, tick >= crashedAt[a] + TimeoutTicks
                 PROVE  /\ ~view'[i][a].alive
                        /\ \A t \in Tasks : reg'[i][t].owner # a
      OBVIOUS
    <2>1. i \in Agents /\ i \in 1 .. N
      BY DEF Live, Agents
    <2>2. NodeInbox(i)
      <3>1. ~Begin /\ ~End
        BY <2>1, MembershipAssumption DEF Begin, BeginTick, End, EndTick
      <3>2. ASSUME NEW j \in Agents PROVE ~NodeGossip(j) /\ ~Finish(j)
        BY DEF NodeGossip, Finish, NodeFinish
      <3>3. ~UNCHANGED vars
        BY DEF vars
      <3>4. PICK j \in Agents : NodeInbox(j)
        BY <3>1, <3>2, <3>3 DEF Next
      <3> QED
        BY <3>4 DEF NodeInbox
    <2>3. ~view'[i][a].alive
      BY <2>1, <2>2, InboxDetects DEF Inv
    <2>4. ASSUME NEW t \in Tasks, reg'[i][t].owner = a PROVE FALSE
      <3>1. a # NoOwner
        BY RuntimeAssumption
      <3> QED
        BY <2>1, <2>3, <2>4, <3>1 DEF Inv, Owners, EntryOK
    <2> QED
      BY <2>3, <2>4
  <1> QED
    BY <1>1, Invariance, PTL DEF Spec, CrashRedetected

\* From then on no live node leaves a task with the crashed agent.
THEOREM CrashedLoseTasks == Spec => []TasksRecovered
  <1>1. Inv => TasksRecovered
    <2> SUFFICES ASSUME Inv, OneGeneration, NEW a \in Agents, NEW i \in Live,
                        NEW t \in Tasks, crashedAt[a] # 0,
                        tick >= crashedAt[a] + TimeoutTicks, HasRead(i),
                        reg[i][t].owner = a
                 PROVE  FALSE
      BY DEF TasksRecovered
    <2>1. ~view[i][a].alive
      BY DEF Inv, CrashDetected
    <2>2. a # NoOwner /\ i \in Agents
      BY RuntimeAssumption DEF Live
    <2> QED
      BY <2>1, <2>2 DEF Inv, Owners, EntryOK
  <1> QED
    BY <1>1, Invariance, PTL

\* Without battery exhaustion, a live node that has read its inbox never
\* believes itself dead.
THEOREM SelfBelief == Spec => []SelfAlive
  BY Invariance, PTL DEF Inv

-----------------------------------------------------------------------------
\* Completion is final.  The injection of a task overwrites its entry, so the
\* entry has to be absent until then.

NotYet(i, t) ==
    /\ InjectAt[t] # 0
    /\ tick < InjectAt[t] \/ (tick = InjectAt[t] /\ ~HasRead(i))

Pending ==
    \A i \in Agents, t \in Tasks :
        NotYet(i, t) => reg[i][t].status = "Absent"

\* The expiry of a task has come.
Lapsed(t) == ExpiresAt[t] # 0 /\ ExpiresAt[t] <= tick

\* An entry that is absent stays so, and one that is completed too, but for
\* its expiry.
Keeps(t, e, f) ==
    /\ e.status = "Completed" => f.status = "Completed" \/ (f.status = "Absent" /\ Lapsed(t))
    /\ e.status = "Absent" => f.status = "Absent"

LEMMA KeepsEntry ==
    ASSUME NEW t, NEW e
    PROVE  /\ Keeps(t, e, e)
           /\ Lapsed(t) => Keeps(t, e, Absent)
           /\ Keeps(t, e, Released(e)) /\ Keeps(t, e, Completed(e))
           /\ \A a : Keeps(t, e, Assigned(e, a))
  BY DEF Keeps, Absent, Released, Completed, Assigned, Held

LEMMA KeepsTransitive ==
    ASSUME NEW t, NEW e, NEW f, NEW g, Keeps(t, e, f), Keeps(t, f, g)
    PROVE  Keeps(t, e, g)
  BY DEF Keeps

LEMMA KeepsGossip ==
    ASSUME NEW t, NEW v, NEW e, NEW a, NEW g
    PROVE  Keeps(t, e, GossipEntry(v, e, a, g))
  <1>1. Keeps(t, e, Assigned(Released(e), a))
    BY KeepsEntry, KeepsTransitive
  <1> QED
    BY <1>1, KeepsEntry DEF GossipEntry

\* Only the injection of a task changes an absent entry.
LEMMA StepKeeps ==
    ASSUME Inv, Next, NEW i \in Agents, NEW t \in Tasks
    PROVE  \/ Keeps(t, reg[i][t], reg'[i][t])
           \/ NodeInbox(i) /\ t \in Injected
  <1>1. CASE Begin
    BY <1>1, KeepsEntry DEF Begin, BeginTick
  <1>2. ASSUME NEW j \in Agents, NodeInbox(j) \/ NodeGossip(j) \/ Finish(j),
               j # i
        PROVE  reg'[i] = reg[i]
    <2>1. \E r : reg' = [reg EXCEPT ![j] = r]
      <3>1. CASE NodeInbox(j)
        BY <3>1, Zenon DEF NodeInbox
      <3>2. CASE NodeGossip(j)
        BY <3>2, Zenon DEF NodeGossip
      <3>3. CASE Finish(j)
        <4>1. PICK decisions, exhausted, D, fate :
                NodeFinish(j, decisions, exhausted, D, fate)
          BY <3>3, Zenon DEF Finish
        <4> QED
          BY <4>1, Zenon DEF NodeFinish
      <3> QED
        BY <1>2, <3>1, <3>2, <3>3
    <2> QED
      BY <1>2, <2>1 DEF Inv, TypeOK
  <1>3. ASSUME NodeInbox(i), t \notin Injected
        PROVE  Keeps(t, reg[i][t], reg'[i][t])
    <2> DEFINE v == Heartbeats(i)
               failed == detect(v, tick)
               r == release_agent_tasks(insert(reg[i], Injected), failed)
    <2>1. reg'[i] = expire_tasks(r, tick)
      BY <1>3 DEF NodeInbox, process_tick, Inv, TypeOK
    <2>2. Keeps(t, reg[i][t], r[t])
      BY <1>3, KeepsEntry DEF release_agent_tasks, insert
    <2> HIDE DEF r
    <2>3. Keeps(t, r[t], expire_tasks(r, tick)[t])
      BY KeepsEntry DEF expire_tasks, Expired, Lapsed
    <2> QED
      BY <2>1, <2>2, <2>3, KeepsTransitive
  <1>4. ASSUME NodeGossip(i) PROVE Keeps(t, reg[i][t], reg'[i][t])
    <2> DEFINE m == First(Ready(gossips, i))
    <2>1. reg'[i] = GossipRegistry(view[i], reg[i], m)
      BY <1>4 DEF NodeGossip, Inv, TypeOK
    <2> HIDE DEF m
    <2> QED
      BY <2>1, KeepsGossip, KeepsEntry DEF GossipRegistry
  <1>5. ASSUME Finish(i) PROVE Keeps(t, reg[i][t], reg'[i][t])
    <2>1. PICK decisions, exhausted, D, fate :
              NodeFinish(i, decisions, exhausted, D, fate)
      BY <1>5 DEF Finish
    <2> DEFINE r == allocate_unassigned(reg[i], decisions)
    <2>2. reg'[i] = release_agent_tasks(r, exhausted)
      BY <2>1 DEF NodeFinish, Inv, TypeOK
    <2>3. Keeps(t, reg[i][t], r[t])
      BY KeepsEntry DEF allocate_unassigned
    <2> HIDE DEF r
    <2>4. Keeps(t, r[t], release_agent_tasks(r, exhausted)[t])
      BY KeepsEntry DEF release_agent_tasks
    <2> QED
      BY <2>2, <2>3, <2>4, KeepsTransitive
  <1>6. CASE End
    <2>1. PICK done, ts : EndTick(done, ts)
      BY <1>6 DEF End
    <2> DEFINE r == complete_tasks(reg[i], done[i])
    <2>2. Keeps(t, reg[i][t], r[t])
      BY KeepsEntry DEF complete_tasks
    <2>3. reg'[i] = reg[i] \/ reg'[i] = release_tasks(r, ts)
      BY <2>1 DEF EndTick
    <2> HIDE DEF r
    <2>4. Keeps(t, r[t], release_tasks(r, ts)[t])
      BY KeepsEntry DEF release_tasks
    <2> QED
      BY <2>2, <2>3, <2>4, KeepsEntry, KeepsTransitive
  <1>7. CASE \E j \in Agents : NodeInbox(j) \/ NodeGossip(j) \/ Finish(j)
    BY <1>2, <1>3, <1>4, <1>5, <1>7, KeepsEntry
  <1> QED
    BY <1>1, <1>6, <1>7 DEF Next

\* Time does not run backwards: what is not injected after a step was not
\* injected before it.
LEMMA NotYetBefore ==
    ASSUME Inv, Next, NEW i \in Agents, NEW t \in Tasks, NotYet(i, t)'
    PROVE  NotYet(i, t) /\ ~(NodeInbox(i) /\ t \in Injected)
  <1>0. tick \in Nat /\ InjectAt[t] \in Nat /\ i \in 1 .. N /\ turn \in 0 .. N + 1
        /\ InjectAt'[t] = InjectAt[t]
    BY RuntimeAssumption DEF Inv, TypeOK, Agents
  <1>1. CASE Begin
    <2>1. tick' = tick + 1 /\ turn = 0
      BY <1>1 DEF Begin, BeginTick
    <2> QED
      BY <1>0, <2>1 DEF NotYet, NodeInbox, Agents
  <1>2. ASSUME NEW j \in Agents, NodeInbox(j) \/ NodeGossip(j)
        PROVE  NotYet(i, t) /\ ~(NodeInbox(i) /\ t \in Injected)
    <2>1. j \in 1 .. N /\ turn = j /\ turn' = j /\ tick' = tick /\ phase' = "gossip"
      BY <1>2 DEF NodeInbox, NodeGossip, Agents
    <2>2. NotYet(i, t)
      BY <1>0, <2>1 DEF NotYet, HasRead
    <2>3. i = j => tick < InjectAt[t]
      BY <1>0, <2>1 DEF NotYet, HasRead
    <2>4. NodeInbox(i) => i = j
      BY <2>1 DEF NodeInbox
    <2>5. t \in Injected => tick = InjectAt[t]
      BY DEF Injected
    <2> QED
      BY <1>0, <2>2, <2>3, <2>4, <2>5
  <1>3. ASSUME NEW j \in Agents, Finish(j)
        PROVE  NotYet(i, t) /\ ~(NodeInbox(i) /\ t \in Injected)
    <2>1. PICK decisions, exhausted, D, fate :
              NodeFinish(j, decisions, exhausted, D, fate)
      BY <1>3 DEF Finish
    <2>2. j \in 1 .. N /\ turn = j /\ tick' = tick /\ phase = "gossip"
          /\ phase' = "inbox" /\ turn' = NextTurn(j, crashedAt)
      BY <2>1 DEF NodeFinish, Agents
    <2>3. turn' \in j + 1 .. N + 1
      <3>1. j \in 0 .. N /\ crashedAt \in [Agents -> Nat]
        BY <2>2, MembershipAssumption DEF Inv, TypeOK
      <3> QED
        BY <2>2, <3>1, NextTurnProperty
    <2> QED
      BY <1>0, <2>2, <2>3, MembershipAssumption DEF NotYet, HasRead, NodeInbox
  <1>4. CASE End
    <2>1. tick' = tick /\ turn = N + 1 /\ turn' = 0
      BY <1>4 DEF End, EndTick
    <2> QED
      BY <1>0, <2>1, MembershipAssumption DEF NotYet, HasRead, NodeInbox
  <1> QED
    BY <1>1, <1>2, <1>3, <1>4 DEF Next

LEMMA NextKeepsPending ==
    Inv /\ Pending /\ [Next]_vars => Pending'
  <1> SUFFICES ASSUME Inv, Pending, [Next]_vars PROVE Pending'
    OBVIOUS
  <1>1. CASE Next
    <2> SUFFICES ASSUME NEW i \in Agents, NEW t \in Tasks, NotYet(i, t)'
                 PROVE  reg'[i][t].status = "Absent"
      BY DEF Pending
    <2>1. reg[i][t].status = "Absent" /\ Keeps(t, reg[i][t], reg'[i][t])
      BY <1>1, NotYetBefore, StepKeeps DEF Pending
    <2> QED
      BY <2>1 DEF Keeps
  <1>2. CASE UNCHANGED vars
    BY <1>2 DEF vars, Pending, NotYet, HasRead
  <1> QED
    BY <1>1, <1>2

LEMMA AlwaysPending == Spec => []Pending
  <1>1. Init => Pending
    BY DEF Init, Pending, NotYet, Absent
  <1> QED
    BY <1>1, Invariance, NextKeepsPending, PTL DEF Spec

\* No step gives out a task again on the node that completed it: neither
\* gossip nor the allocator nor the runner nor an injection.  It is forgotten
\* at its expiry and not before.
THEOREM CompletionFinal == Spec => CompletedIsFinal
  <1> DEFINE Final == \A i \in Agents, t \in Tasks :
                          reg[i][t].status = "Completed" =>
                              \/ reg'[i][t].status = "Completed"
                              \/ reg'[i][t].status = "Absent" /\ ExpiresAt[t] # 0 /\ ExpiresAt[t] <= tick
  <1>1. Inv /\ Pending /\ [Next]_vars => [Final]_vars
    <2> SUFFICES ASSUME Inv, Pending, Next, NEW i \in Agents, NEW t \in Tasks,
                        reg[i][t].status = "Completed"
                 PROVE  \/ reg'[i][t].status = "Completed"
                        \/ reg'[i][t].status = "Absent" /\ ExpiresAt[t] # 0 /\ ExpiresAt[t] <= tick
      OBVIOUS
    <2>1. ~(NodeInbox(i) /\ t \in Injected)
      <3> SUFFICES ASSUME NodeInbox(i), t \in Injected PROVE FALSE
        OBVIOUS
      <3>1. InjectAt[t] # 0 /\ tick = InjectAt[t]
        BY DEF Injected
      <3>2. ~HasRead(i)
        BY MembershipAssumption DEF NodeInbox, HasRead, Agents
      <3> QED
        BY <3>1, <3>2 DEF Pending, NotYet
    <2> QED
      BY <2>1, StepKeeps DEF Keeps, Lapsed
  <1> QED
    BY <1>1, AlwaysPending, Invariance, PTL DEF Spec, CompletedIsFinal

-----------------------------------------------------------------------------
\* Nobody is suspected while the links are reliable.

\* The bounds on lost messages and cuts are never exceeded either.
Losses ==
    /\ "lost" \in DOMAIN budget /\ "part" \in DOMAIN budget
    /\ budget["lost"] \in Int /\ budget["lost"] <= MaxLost
    /\ budget["part"] \in Int /\ budget["part"] <= MaxPartitions

\* The heartbeat of agent a at tick s is on its way to node i, in time.
Underway(i, a, s) ==
    \E m \in hbs : /\ m.from = a /\ m.to = i /\ m.sent = s
                   /\ m.deliver <= s + TimeoutTicks

\* An entry that holds the heartbeat of tick s, or a later one, of the
\* agent's own generation g: no gossip can replace it.
Holds(e, s, g) == e.last >= s /\ e.generation = g

\* On reliable links every heartbeat of a live agent is under way or recorded,
\* and nobody is cut off.
Heard ==
    /\ cut = {}
    /\ \A i, a \in Live : i # a =>
           \A s \in 1 .. tick :
               Underway(i, a, s) \/ Holds(view[i][a], s, Generation[a])

Trusted == Reliable => Heard /\ \A i, a \in Live : view[i][a].alive

LEMMA FiniteAgents ==
    IsFiniteSet(Agents) /\ IsFiniteSet(Agents \X Agents) /\ IsFiniteSet(Pairs)
  <1>1. IsFiniteSet(Agents)
    BY FS_Interval, MembershipAssumption DEF Agents
  <1>2. IsFiniteSet(Agents \X Agents)
    BY <1>1, FS_Product
  <1>3. IsFiniteSet(SUBSET Agents)
    BY <1>1, FS_SUBSET
  <1>4. Pairs \subseteq SUBSET Agents
    BY DEF Pairs
  <1>5. IsFiniteSet(Pairs)
    BY <1>3, <1>4, FS_Subset
  <1> QED
    BY <1>1, <1>2, <1>5

\* A finite set whose cardinality is zero has no element.
LEMMA CountZero ==
    ASSUME NEW S, IsFiniteSet(S), NEW T \in SUBSET S
    PROVE  Cardinality(T) \in Nat /\ (Cardinality(T) = 0 => T = {})
  <1>1. IsFiniteSet(T)
    BY FS_Subset
  <1> QED
    BY <1>1, FS_CardinalityType, FS_EmptySet

LEMMA LostCount ==
    ASSUME NEW D \in SUBSET (Agents \X Agents), NEW fate \in Fates(D)
    PROVE  /\ LostIn(fate) \in Nat
           /\ LostIn(fate) = 0 => \A l \in D : fate[l] # Lost
  <1> DEFINE T == {l \in DOMAIN fate : fate[l] = Lost}
  <1>1. DOMAIN fate = D
    BY DEF Fates
  <1>2. T \in SUBSET (Agents \X Agents)
    BY <1>1
  <1>3. Cardinality(T) \in Nat /\ (Cardinality(T) = 0 => T = {})
    <2> HIDE DEF T
    <2> QED
      BY <1>2, FiniteAgents, CountZero
  <1>4. LostIn(fate) = Cardinality(T)
    BY DEF LostIn
  <1> QED
    BY <1>1, <1>3, <1>4

\* On links that lose nothing every message arrives, with one of the delays.
LEMMA AllArrive ==
    ASSUME NEW L, NEW now \in Nat, NEW D, NEW fate \in Fates(D), NEW l \in L,
           \A k \in D : fate[k] # Lost
    PROVE  \E d \in Delays : <<l, now + d>> \in Arrivals(L, now, fate)
  <1>1. DOMAIN fate = D
    BY DEF Fates
  <1>2. CASE l \notin D
    <2>1. <<l, now + PromptDelay>> \in Arrivals(L, now, fate)
      BY <1>1, <1>2 DEF Arrivals
    <2> QED
      BY <2>1, RuntimeAssumption
  <1>3. CASE l \in D
    <2>1. fate[l] \in Delays
      BY <1>3 DEF Fates
    <2>2. <<l, now + fate[l]>> \in Arrivals(L, now, fate)
      BY <1>1, <1>3 DEF Arrivals
    <2> QED
      BY <2>1, <2>2
  <1> QED
    BY <1>2, <1>3

\* What a new tick costs: if the links are still reliable afterwards nothing
\* was lost in it and no link was cut.
LEMMA BeginCosts ==
    ASSUME Budget, Losses, NEW crashes \in SUBSET Live, NEW parts \in SUBSET Pairs,
           NEW D \in SUBSET Links(Live \ crashes, parts), NEW fate \in Fates(D),
           BeginTick(crashes, parts, D, fate)
    PROVE  /\ Losses'
           /\ Reliable' => /\ Reliable /\ parts \subseteq cut
                           /\ \A l \in D : fate[l] # Lost
  <1> DEFINE c == Cardinality(parts \ cut)
             f == LostIn(fate)
  <1>1. f \in Nat /\ (f = 0 => \A l \in D : fate[l] # Lost)
    <2>1. D \in SUBSET (Agents \X Agents)
      BY DEF Links, Live
    <2> QED
      BY <2>1, LostCount
  <1>2. c \in Nat /\ (c = 0 => parts \subseteq cut)
    <2>1. parts \ cut \in SUBSET Pairs
      OBVIOUS
    <2>2. c \in Nat /\ (c = 0 => parts \ cut = {})
      BY <2>1, FiniteAgents, CountZero
    <2> QED
      BY <2>2
  <1>3. budget' = [budget EXCEPT !.crash = @ - Cardinality(crashes),
                                 !.part = @ - c,
                                 !.fault = @ - Cardinality(D),
                                 !.lost = @ - f]
    BY DEF BeginTick
  <1> HIDE DEF c, f
  <1>4. /\ DOMAIN budget' = DOMAIN budget
        /\ budget'["part"] = budget["part"] - c
        /\ budget'["lost"] = budget["lost"] - f
        /\ budget'["exhaust"] = budget["exhaust"]
    BY <1>3 DEF Budget, Losses
  <1>5. Losses'
    BY <1>1, <1>2, <1>4, RuntimeAssumption DEF Losses
  <1>6. Reliable' => c = 0 /\ f = 0 /\ Reliable
    BY <1>1, <1>2, <1>4, RuntimeAssumption DEF Reliable, Losses
  <1> QED
    BY <1>1, <1>2, <1>5, <1>6

LEMMA BeginKeepsTrust ==
    ASSUME Inv, Budget, Losses, Trusted,
           NEW crashes \in SUBSET Live, NEW parts \in SUBSET Pairs,
           NEW D \in SUBSET Links(Live \ crashes, parts), NEW fate \in Fates(D),
           BeginTick(crashes, parts, D, fate)
    PROVE  Losses' /\ Trusted'
  <1>1. /\ Losses'
        /\ Reliable' => /\ Reliable /\ parts \subseteq cut
                        /\ \A l \in D : fate[l] # Lost
    BY BeginCosts
  <1> SUFFICES ASSUME Reliable'
               PROVE  Heard' /\ \A i, a \in Live' : view'[i][a].alive
    BY <1>1 DEF Trusted
  <1>2. /\ Heard /\ \A i, a \in Live : view[i][a].alive
        /\ \A l \in D : fate[l] # Lost
        /\ parts = {} /\ cut' = {}
        /\ \A d \in Delays : d <= TimeoutTicks
    BY <1>1 DEF Trusted, Heard, Reliable, BeginTick
  <1>3. tick \in Nat /\ tick' = tick + 1 /\ view' = view /\ hbs \subseteq hbs'
    BY DEF BeginTick, Inv, TypeOK
  <1>4. Live' = Live \ crashes
    <2>1. \A a \in Agents : crashedAt'[a] = IF a \in crashes THEN tick + 1 ELSE crashedAt[a]
      BY DEF BeginTick
    <2> QED
      BY <1>3, <2>1 DEF Live
  <1>5. ASSUME NEW i \in Live', NEW a \in Live', i # a, NEW s \in 1 .. tick'
        PROVE  Underway(i, a, s)' \/ Holds(view'[i][a], s, Generation[a])
    <2>1. CASE s \in 1 .. tick
      <3>1. Underway(i, a, s) \/ Holds(view[i][a], s, Generation[a])
        BY <1>2, <1>4, <1>5, <2>1 DEF Heard
      <3>2. Underway(i, a, s) => Underway(i, a, s)'
        BY <1>3 DEF Underway
      <3> QED
        BY <1>3, <3>1, <3>2
    <2>2. CASE s = tick + 1
      <3> DEFINE L == Links(Live \ crashes, parts)
                 l == <<a, i>>
      <3>1. l \in L
        BY <1>2, <1>4, <1>5 DEF Links
      <3>2. tick + 1 \in Nat
        BY <1>3
      <3>3. PICK d \in Delays : <<l, tick + 1 + d>> \in Arrivals(L, tick + 1, fate)
        <4> HIDE DEF l, L
        <4> QED
          BY <1>2, <3>1, <3>2, AllArrive
      <3> DEFINE p == <<l, tick + 1 + d>>
                 m == [from |-> p[1][1], to |-> p[1][2], sent |-> tick + 1, deliver |-> p[2]]
      <3>4. m \in hbs'
        <4>1. \A q \in Arrivals(L, tick + 1, fate) :
                  [from |-> q[1][1], to |-> q[1][2], sent |-> tick + 1,
                   deliver |-> q[2]] \in hbs'
          BY Zenon DEF BeginTick
        <4> HIDE DEF l, L
        <4> QED
          BY <3>3, <4>1, Zenon
      <3>5. m.from = a /\ m.to = i /\ m.sent = s /\ m.deliver = s + d
        BY <2>2
      <3>6. d <= TimeoutTicks /\ d \in Nat /\ s \in Nat
        BY <1>2, <1>3, <2>2, RuntimeAssumption
      <3> HIDE DEF m
      <3>7. m.deliver <= s + TimeoutTicks
        BY <3>5, <3>6, MembershipAssumption
      <3> QED
        BY <3>4, <3>5, <3>7 DEF Underway
    <2> QED
      BY <1>3, <2>1, <2>2
  <1> QED
    BY <1>2, <1>3, <1>4, <1>5 DEF Heard

\* Reading the inbox keeps what an entry holds and adds what is ready.
LEMMA InboxRecords ==
    ASSUME Inv, NEW i \in Agents, crashedAt[i] = 0, NEW a \in Agents, NEW s \in Nat,
           \/ Holds(view[i][a], s, Generation[a])
           \/ \E m \in Ready(hbs, i) : m.from = a /\ m.sent = s
    PROVE  Holds(Heartbeats(i)[a], s, Generation[a])
  <1> USE DEF Inv
  <1> DEFINE S == SentBy(i, a)
             old == view[i][a]
             g == Generation[a]
             e == Heartbeats(i)[a]
  <1>1. /\ old \in Entry /\ old.generation \in 1 .. g /\ g \in Nat
        /\ tick \in Nat /\ old.last \in Nat
    BY RuntimeAssumption DEF TypeOK, Gens, View, Entry
  <1>2. S \subseteq Nat /\ \A r \in S : r <= tick
    <2> SUFFICES ASSUME NEW r \in S PROVE r \in Nat /\ r <= tick
      OBVIOUS
    <2>1. CASE r = tick
      BY <1>1, <2>1
    <2>2. CASE \E m \in hbs : r = m.sent
      BY <2>2 DEF TypeOK, Heartbeat, Clock, BeforeCrash
    <2> QED
      BY <2>1, <2>2 DEF SentBy, Ready
  <1>3. (\E m \in Ready(hbs, i) : m.from = a /\ m.sent = s) => s \in S
    BY DEF SentBy
  <1>4. e = IF S = {} THEN old ELSE record_heartbeat(old, Latest(S), g)
    BY DEF Heartbeats
  <1>5. Holds(old, s, g) \/ s \in S
    BY <1>3
  <1> HIDE DEF S, e, g, old
  <1>6. CASE S = {}
    BY <1>4, <1>5, <1>6 DEF e, g
  <1>7. CASE S # {}
    <2> DEFINE n == Latest(S)
    <2>1. n \in S /\ \A r \in S : r <= n
      BY <1>1, <1>2, <1>7, LatestProperty
    <2>2. n \in Nat
      BY <1>2, <2>1
    <2>3. e = record_heartbeat(old, n, g)
      BY <1>4, <1>7
    <2> HIDE DEF n
    <2>4. Newer(old, n, g) => e.last = n /\ e.generation = g
      BY <2>3 DEF record_heartbeat
    <2>5. ~Newer(old, n, g) => e = old
      BY <2>3 DEF record_heartbeat
    <2>6. CASE Newer(old, n, g)
      BY <1>1, <1>5, <2>1, <2>2, <2>4, <2>6 DEF Newer, Holds, e, g
    <2>7. CASE ~Newer(old, n, g)
      <3>1. old.generation = g /\ n <= old.last
        BY <1>1, <2>2, <2>7 DEF Newer
      <3> QED
        BY <1>1, <1>5, <2>1, <2>2, <2>5, <2>7, <3>1 DEF Holds, e, g
    <2> QED
      BY <2>6, <2>7
  <1> QED
    BY <1>6, <1>7

LEMMA InboxKeepsTrust ==
    ASSUME Inv, Trusted, NEW i \in Agents, NodeInbox(i)
    PROVE  Trusted'
  <1> DEFINE v == Heartbeats(i)
             failed == detect(v, tick)
             w == mark_dead(v, failed)
  <1>0. /\ turn = i /\ phase = "inbox" /\ crashedAt[i] = 0 /\ tick \in Nat
        /\ UNCHANGED <<tick, crashedAt, cut, budget>>
        /\ hbs' = hbs \ Ready(hbs, i)
        /\ view' = [view EXCEPT ![i] = w]
    BY DEF NodeInbox, Inv, Clock, TypeOK, process_tick
  <1> SUFFICES ASSUME Reliable
               PROVE  Heard' /\ \A j, a \in Live : view'[j][a].alive
    BY <1>0 DEF Trusted, Reliable, Live
  <1>1. Heard /\ \A j, a \in Live : view[j][a].alive
    BY DEF Trusted
  <1>2. ASSUME NEW a \in Agents
        PROVE  /\ v[a] \in Entry
               /\ view[i][a].alive => v[a].alive
               /\ a = i /\ view[i][i].last < tick => v[a].last = tick
    BY <1>0, HeartbeatsProperty DEF Inv
  <1>3. v \in View
    BY <1>2 DEF View, Heartbeats
  <1> HIDE DEF v
  <1>4. \A a \in Agents : /\ w[a].last = v[a].last
                          /\ w[a].generation = v[a].generation
                          /\ w[a].alive <=> (v[a].alive /\ a \notin failed)
    BY <1>3, MarkDeadType
  <1> HIDE DEF w, failed
  <1>5. /\ view'[i] = w
        /\ \A j \in Agents : j # i => view'[j] = view[j]
    BY <1>0 DEF Inv, TypeOK
  <1>6. i \in Live
    BY <1>0 DEF Live
  <1>7. ASSUME NEW a \in Live, a # i, NEW s \in 1 .. tick
        PROVE  /\ Underway(i, a, s)' \/ Holds(v[a], s, Generation[a])
               /\ s + TimeoutTicks <= tick => Holds(v[a], s, Generation[a])
    <2>1. Underway(i, a, s) \/ Holds(view[i][a], s, Generation[a])
      BY <1>1, <1>6, <1>7 DEF Heard
    <2>2. s \in Nat /\ a \in Agents
      BY DEF Live
    <2>3. CASE Holds(view[i][a], s, Generation[a])
      BY <1>0, <2>2, <2>3, InboxRecords DEF v
    <2>4. CASE Underway(i, a, s)
      <3>1. PICK m \in hbs : /\ m.from = a /\ m.to = i /\ m.sent = s
                             /\ m.deliver <= s + TimeoutTicks
        BY <2>4 DEF Underway
      <3>2. m.deliver \in Nat
        BY DEF Inv, TypeOK, Heartbeat
      <3>3. CASE m \in Ready(hbs, i)
        BY <1>0, <2>2, <3>1, <3>3, InboxRecords DEF v
      <3>4. CASE m \notin Ready(hbs, i)
        <4>1. m \in hbs' /\ m.deliver > tick
          BY <1>0, <3>1, <3>2, <3>4 DEF Ready
        <4> QED
          BY <1>0, <2>2, <3>1, <3>2, <4>1, MembershipAssumption DEF Underway
      <3> QED
        BY <3>3, <3>4
    <2> QED
      BY <2>1, <2>3, <2>4
  <1>8. Heard'
    <2> SUFFICES ASSUME NEW j \in Live, NEW a \in Live, j # a, NEW s \in 1 .. tick
                 PROVE  Underway(j, a, s)' \/ Holds(view'[j][a], s, Generation[a])
      BY <1>0, <1>1 DEF Heard, Live
    <2>1. CASE j = i
      <3>1. a \in Agents
        BY DEF Live
      <3> QED
        BY <1>4, <1>5, <1>7, <2>1, <3>1 DEF Holds
    <2>2. CASE j # i
      <3>1. Underway(j, a, s) \/ Holds(view[j][a], s, Generation[a])
        BY <1>1 DEF Heard
      <3>2. Underway(j, a, s) => Underway(j, a, s)'
        BY <1>0, <2>2 DEF Underway, Ready
      <3>3. view'[j] = view[j]
        BY <1>5, <2>2 DEF Live
      <3> QED
        BY <3>1, <3>2, <3>3
    <2> QED
      BY <2>1, <2>2
  <1>9. ASSUME NEW a \in Live PROVE a \notin failed
    <2>1. a \in Agents /\ v[a].last \in Nat
      BY <1>2 DEF Live, Entry
    <2>2. CASE a = i
      <3>1. view[i][i].last < tick
        BY <1>0, <1>6, MembershipAssumption DEF Inv, OwnFresh, HasRead, Agents
      <3>2. v[a].last = tick
        BY <1>2, <2>1, <2>2, <3>1
      <3> QED
        BY <1>0, <3>2, MembershipAssumption DEF failed, detect
    <2>3. CASE a # i /\ tick <= TimeoutTicks
      BY <1>0, <2>1, <2>3, MembershipAssumption DEF failed, detect
    <2>4. CASE a # i /\ tick > TimeoutTicks
      <3> DEFINE s == tick - TimeoutTicks
      <3>1. s \in 1 .. tick /\ s + TimeoutTicks <= tick
        BY <1>0, <2>4, MembershipAssumption
      <3> HIDE DEF s
      <3>2. v[a].last >= s
        BY <1>7, <2>4, <3>1 DEF Holds
      <3> QED
        BY <1>0, <2>1, <3>2, MembershipAssumption DEF failed, detect, s
    <2> QED
      BY <1>0, <2>2, <2>3, <2>4, MembershipAssumption
  <1>10. ASSUME NEW j \in Live, NEW a \in Live PROVE view'[j][a].alive
    <2>1. j \in Agents /\ a \in Agents
      BY DEF Live
    <2>2. CASE j = i
      BY <1>1, <1>2, <1>4, <1>5, <1>6, <1>9, <2>1, <2>2
    <2>3. CASE j # i
      BY <1>1, <1>5, <2>1, <2>3
    <2> QED
      BY <2>2, <2>3
  <1> QED
    BY <1>8, <1>10

LEMMA GossipKeepsTrust ==
    ASSUME Inv, Trusted, NEW i \in Agents, NodeGossip(i)
    PROVE  Trusted'
  <1> DEFINE m == First(Ready(gossips, i))
             w == GossipView(view[i], m)
  <1>0. /\ UNCHANGED <<tick, crashedAt, cut, hbs, budget>>
        /\ view' = [view EXCEPT ![i] = w]
        /\ view[i] \in View
    BY DEF NodeGossip, Inv, TypeOK
  <1> SUFFICES ASSUME Reliable
               PROVE  Heard' /\ \A j, a \in Live : view'[j][a].alive
    BY <1>0 DEF Trusted, Reliable, Live
  <1>1. Heard /\ \A j, a \in Live : view[j][a].alive
    BY DEF Trusted
  <1>2. m \in gossips /\ m \in Gossip
    <2>1. Ready(gossips, i) # {} /\ Ready(gossips, i) \subseteq Gossip
      BY DEF NodeGossip, Ready, Inv, TypeOK
    <2>2. m \in Ready(gossips, i)
      BY <2>1, FirstProperty
    <2> QED
      BY <2>1, <2>2 DEF Ready
  <1> HIDE DEF m
  <1>3. ASSUME NEW a \in Agents
        PROVE  /\ view[i][a].alive => w[a].alive
               /\ w[a] = view[i][a] \/ m.generation[a] > view[i][a].generation
    BY <1>0, <1>2, GossipViewProperty
  <1> HIDE DEF w
  <1>4. /\ view'[i] = w
        /\ \A j \in Agents : j # i => view'[j] = view[j]
    BY <1>0 DEF Inv, TypeOK
  <1>5. ASSUME NEW j \in Agents, NEW a \in Agents, NEW s,
               Holds(view[j][a], s, Generation[a])
        PROVE  view'[j][a] = view[j][a]
    <2>1. /\ Generation[a] \in Nat /\ m.generation[a] \in 1 .. Generation[a]
          /\ view[j][a].generation = Generation[a]
      BY <1>2, <1>5, RuntimeAssumption DEF Holds, Inv, Gens
    <2>2. CASE j = i
      BY <1>3, <1>4, <2>1, <2>2
    <2>3. CASE j # i
      BY <1>4, <2>3
    <2> QED
      BY <2>2, <2>3
  <1>6. Heard'
    <2> SUFFICES ASSUME NEW j \in Live, NEW a \in Live, j # a, NEW s \in 1 .. tick
                 PROVE  Underway(j, a, s)' \/ Holds(view'[j][a], s, Generation[a])
      BY <1>0, <1>1 DEF Heard, Live
    <2>1. Underway(j, a, s) \/ Holds(view[j][a], s, Generation[a])
      BY <1>1 DEF Heard
    <2>2. Underway(j, a, s) => Underway(j, a, s)'
      BY <1>0 DEF Underway
    <2>3. j \in Agents /\ a \in Agents
      BY DEF Live
    <2> QED
      BY <1>5, <2>1, <2>2, <2>3
  <1>7. ASSUME NEW j \in Live, NEW a \in Live PROVE view'[j][a].alive
    <2>1. j \in Agents /\ a \in Agents
      BY DEF Live
    <2> QED
      BY <1>1, <1>3, <1>4, <2>1
  <1> QED
    BY <1>6, <1>7

LEMMA FinishKeepsTrust ==
    ASSUME Inv, Budget, Losses, Trusted, NEW i \in Agents, NEW decisions,
           NEW exhausted \in SUBSET alive_agents(view[i]),
           NEW D \in SUBSET GossipLinks(i), NEW fate \in Fates(D),
           NodeFinish(i, decisions, exhausted, D, fate)
    PROVE  Losses' /\ Trusted'
  <1> DEFINE x == Cardinality(exhausted)
             f == LostIn(fate)
             w == mark_dead(view[i], exhausted)
  <1>1. f \in Nat
    <2>1. D \in SUBSET (Agents \X Agents)
      BY DEF GossipLinks, Links, Live
    <2> QED
      BY <2>1, LostCount
  <1>2. x \in Nat /\ (x = 0 => exhausted = {})
    BY AliveFinite
  <1>3. budget' = [budget EXCEPT !.exhaust = @ - x,
                                 !.fault = @ - Cardinality(D),
                                 !.lost = @ - f]
    BY DEF NodeFinish
  <1>4. /\ UNCHANGED <<tick, crashedAt, cut, hbs>>
        /\ view' = [view EXCEPT ![i] = w]
        /\ view[i] \in View
    BY DEF NodeFinish, Inv, TypeOK
  <1> HIDE DEF x, f
  <1>5. /\ DOMAIN budget' = DOMAIN budget
        /\ budget'["part"] = budget["part"]
        /\ budget'["lost"] = budget["lost"] - f
        /\ budget'["exhaust"] = budget["exhaust"] - x
    BY <1>3 DEF Budget, Losses
  <1>6. Losses'
    BY <1>1, <1>5, RuntimeAssumption DEF Losses
  <1>7. Reliable' => x = 0 /\ Reliable
    BY <1>1, <1>2, <1>5, RuntimeAssumption DEF Reliable, Losses, Budget
  <1> SUFFICES ASSUME Reliable'
               PROVE  Heard' /\ \A j, a \in Live : view'[j][a].alive
    BY <1>4, <1>6 DEF Trusted, Live
  <1>8. Heard /\ (\A j, a \in Live : view[j][a].alive) /\ exhausted = {}
    BY <1>2, <1>7 DEF Trusted
  <1>9. \A a \in Agents : /\ w[a].last = view[i][a].last
                          /\ w[a].generation = view[i][a].generation
                          /\ w[a].alive <=> view[i][a].alive
    BY <1>4, <1>8, MarkDeadType
  <1> HIDE DEF w
  <1>10. ASSUME NEW j \in Agents, NEW a \in Agents
         PROVE  /\ view'[j][a].last = view[j][a].last
                /\ view'[j][a].generation = view[j][a].generation
                /\ view'[j][a].alive <=> view[j][a].alive
    BY <1>4, <1>9 DEF Inv, TypeOK
  <1>11. \A j, a, s : Underway(j, a, s)' <=> Underway(j, a, s)
    BY <1>4 DEF Underway
  <1> QED
    BY <1>4, <1>8, <1>10, <1>11 DEF Heard, Holds, Live

LEMMA StepKeepsTrust ==
    Inv /\ Budget /\ Losses /\ Trusted /\ [Next]_vars => Losses' /\ Trusted'
  <1> SUFFICES ASSUME Inv, Budget, Losses, Trusted, [Next]_vars
               PROVE  Losses' /\ Trusted'
    OBVIOUS
  <1>1. CASE Begin
    BY <1>1, BeginKeepsTrust DEF Begin, Disturbable
  <1>2. ASSUME NEW i \in Agents, NodeInbox(i) PROVE Losses' /\ Trusted'
    BY <1>2, InboxKeepsTrust DEF Losses, NodeInbox
  <1>3. ASSUME NEW i \in Agents, NodeGossip(i) PROVE Losses' /\ Trusted'
    BY <1>3, GossipKeepsTrust DEF Losses, NodeGossip
  <1>4. ASSUME NEW i \in Agents, Finish(i) PROVE Losses' /\ Trusted'
    BY <1>4, FinishKeepsTrust DEF Finish, Disturbable
  <1>5. ASSUME NEW done, NEW ts, EndTick(done, ts) PROVE Losses' /\ Trusted'
    <2>1. /\ UNCHANGED <<tick, crashedAt, cut, hbs, view>>
          /\ budget' = [budget EXCEPT !.release = @ - Cardinality(ts)]
      BY <1>5 DEF EndTick
    <2>2. /\ DOMAIN budget' = DOMAIN budget
          /\ budget'["part"] = budget["part"]
          /\ budget'["lost"] = budget["lost"]
          /\ budget'["exhaust"] = budget["exhaust"]
      BY <2>1 DEF Budget, Losses
    <2> QED
      BY <2>1, <2>2 DEF Losses, Trusted, Reliable, Heard, Underway, Live
  <1>6. CASE UNCHANGED vars
    BY <1>6 DEF vars, Losses, Trusted, Reliable, Heard, Underway, Live
  <1> QED
    BY <1>1, <1>2, <1>3, <1>4, <1>5, <1>6 DEF Next, End

\* As long as nothing was lost, cut off or exhausted and no delay exceeds
\* timeout_ticks, no live node ever suspects a live one, for any number of
\* agents, any generations and any order of the deliveries.
THEOREM NobodySuspected == Spec => []NoFalseSuspicion
  <1>1. Init => Losses /\ Trusted
    <2> SUFFICES ASSUME Init PROVE Losses /\ Trusted
      OBVIOUS
    <2>1. Losses
      BY RuntimeAssumption DEF Init, Losses
    <2>2. /\ cut = {} /\ tick = 0
          /\ \A i, a \in Agents : view[i][a].alive
      BY DEF Init
    <2> QED
      BY <2>1, <2>2 DEF Trusted, Heard, Live
  <1>2. Spec => [](Losses /\ Trusted)
    BY <1>1, Invariance, StepKeepsTrust, PTL DEF Spec
  <1>3. Trusted => NoFalseSuspicion
    BY DEF Trusted, NoFalseSuspicion
  <1> QED
    BY <1>2, <1>3, PTL

-----------------------------------------------------------------------------
\* The gossip of the live nodes settles.
\*
\* Once the swarm has been calm for TimeoutTicks, everyone has read what was
\* sent before the calm and has heard from the live agents.  One interval later
\* everyone knows the same generation of every crashed agent, so that gossip
\* brings none of them back; with one generation this holds from the start.
\* From then on, the tick Base, the owners that a node sees only grow in the
\* order of gossip, every node sends them to all others by the tick
\* Base + GossipInterval - 1, and they are read at the latest one tick later.

\* Node i has had its turn in the current tick.
Done(i) == turn > i \/ turn = 0

\* The calm ticks until the views are exact.
Start == SettleTicks - GossipInterval

\* The tick at which the calm has lasted for s ticks.
CalmFor(s) == tick - calm + s

Base == CalmFor(Start)

\* Node i has sent no gossip since tick b.
Unsaid(i, b) == sinceGossip[i] >= tick - b + (IF Done(i) THEN 1 ELSE 0)

\* Task t has not expired.
Lasts(t) == ExpiresAt[t] = 0 \/ ExpiresAt[t] > tick

\* The calm is counted from the last crash, cut or disturbed message on.
CalmCount ==
    /\ calm \in Nat /\ calm <= tick
    /\ calm > 0 => cut = {}
    /\ \A a \in Agents : crashedAt[a] <= tick - calm
    /\ \A i \in Agents : sinceGossip[i] < GossipInterval

\* The heartbeats in flight are in time, and those that are ready wait for a
\* node that has not read its inbox.
Beats ==
    \A m \in hbs :
        /\ m.deliver <= m.sent + TimeoutTicks
        /\ m.to \in Live => /\ m.deliver >= tick
                            /\ HasRead(m.to) => m.deliver > tick

\* The gossip in flight is in time, prompt since the calm began, about tasks
\* that exist, and knows no more of the generations than its sender does.
Mail ==
    \A m \in gossips :
        /\ BeforeCrash(m.sent, m.from) /\ m.deliver <= m.sent + TimeoutTicks
        /\ m.sent > tick - calm =>
               /\ m.deliver = m.sent
               /\ \A a \in Live : m.generation[a] = Generation[a]
        /\ \A a \in Agents : m.generation[a] <= view[m.from][a].generation
        /\ \A t \in Tasks : m.owner[t] # NoOwner => InjectAt[t] <= tick

\* Whoever had its turn has read what was there, also in the tick before.
Swept ==
    \A m \in gossips : m.to \in Live =>
        /\ Done(m.to) /\ m.sent < tick => m.deliver > tick
        /\ m.sent + 1 < tick => m.deliver >= tick

\* A node that has not read its inbox has heard nobody in this tick, and in a
\* calm tick every live agent's heartbeat waits for it.
Waiting ==
    \A i \in Live : ~HasRead(i) =>
        /\ \A a \in Agents : view[i][a].last < tick
        /\ calm > 0 =>
               \A a \in Live \ {i} :
                   \E m \in hbs : /\ m.from = a /\ m.to = i
                                  /\ m.sent = tick /\ m.deliver <= tick

\* Calm nodes that have read their inboxes see every live agent and, when the
\* views are exact, no other.
Sees ==
    \A i \in Live : HasRead(i) =>
        /\ calm > 0 => \A a \in Live : /\ view[i][a].alive
                                       /\ view[i][a].generation = Generation[a]
        /\ calm >= Start => \A a \in Agents : view[i][a].alive => a \in Live

\* Nobody starts a task before it completes it.
Plain(e) ==
    /\ e.status \in {"Absent", "Unassigned", "Assigned", "Completed"}
    /\ e.status = "Assigned" => e.owner # NoOwner

\* The entries: a live node knows exactly the tasks that are injected and not
\* expired.
Entries ==
    /\ \A i \in Agents, t \in Tasks : Plain(reg[i][t])
    /\ \A i \in Live, t \in Tasks :
           /\ Lasts(t) /\ ~NotYet(i, t) => reg[i][t].status # "Absent"
           /\ ~Lasts(t) /\ HasRead(i) => reg[i][t].status = "Absent"

\* Node j knows generation g of agent a, or has a message to read that says so.
GenDue(j, g, a) ==
    \E m \in gossips : /\ m.to = j /\ m.generation[a] >= g /\ m.deliver <= tick
                       /\ m.sent < CalmFor(TimeoutTicks) + GossipInterval

GenTold(g, a) ==
    \A j \in Live : view[j][a].generation >= g \/ GenDue(j, g, a)

\* What a node knows of a crashed agent's generation is known to all others or
\* still to be sent.
GenKnownFrom(i, a) ==
    \/ GenTold(view[i][a].generation, a)
    \/ \E k \in Live : /\ view[k][a].generation >= view[i][a].generation
                       /\ Unsaid(k, CalmFor(TimeoutTicks))

GensSpread ==
    calm >= TimeoutTicks =>
        \A i \in Live, a \in Agents \ Live : GenKnownFrom(i, a)

\* The order of gossip: an owner that is not alive yields to any other, then
\* the generation and then the id decides.
Yields(x, y) ==
    x \in Live => /\ y \in Live
                  /\ \/ Generation[x] < Generation[y]
                     \/ Generation[x] = Generation[y] /\ x <= y

\* Nobody has completed t and it has not expired.
Open(t) == Lasts(t) /\ \A k \in Agents : reg[k][t].status # "Completed"

\* Node j has a message to read before which owner x of t yields.
Due(j, x, t) ==
    \E m \in gossips : /\ m.to = j /\ m.owner[t] \in Live
                       /\ Yields(x, m.owner[t]) /\ m.deliver <= tick
                       /\ m.sent >= Base /\ m.sent < Base + GossipInterval

Told(x, t) == \A j \in Live : Yields(x, reg[j][t].owner) \/ Due(j, x, t)

\* Nobody takes back an owner that it sent.
Backed(t) ==
    \A m \in gossips : m.sent >= Base /\ m.owner[t] \in Live =>
        m.from \in Live /\ Yields(m.owner[t], reg[m.from][t].owner)

\* An owner that some node sees is known to all others or still to be sent.
KnownFrom(i, t) ==
    \/ Told(reg[i][t].owner, t)
    \/ \E k \in Live : /\ Yields(reg[i][t].owner, reg[k][t].owner)
                       /\ Unsaid(k, Base)

Spread ==
    calm >= Start =>
        \A t \in Tasks : Open(t) => Backed(t) /\ \A i \in Live : KnownFrom(i, t)

Settling ==
    /\ CalmCount /\ Beats /\ Mail /\ Swept /\ Waiting /\ Sees /\ Entries
    /\ GensSpread /\ Spread

LEMMA StartFacts ==
    /\ Start \in Nat /\ Start >= TimeoutTicks /\ Start' = Start
    /\ SettleTicks = Start + GossipInterval
    /\ OneGeneration => Start = TimeoutTicks
    /\ ~OneGeneration => Start = TimeoutTicks + GossipInterval + 1
  BY MembershipAssumption, RuntimeAssumption DEF Start, SettleTicks, OneGeneration

\* The order of gossip is one.
LEMMA YieldsOrder ==
    /\ \A x : Yields(x, x)
    /\ \A x, y, z : Yields(x, y) /\ Yields(y, z) => Yields(x, z)
    /\ \A x, y \in Live : Yields(x, y) /\ Yields(y, x) => x = y
  <1>1. \A x \in Live : x \in Nat /\ Generation[x] \in Nat
    BY RuntimeAssumption, MembershipAssumption DEF Live, Agents
  <1> QED
    BY <1>1 DEF Yields

\* In a calm step every message over a link arrives at once, and no message is
\* ever later than the timeout.
LEMMA PromptArrivals ==
    ASSUME Timely, NEW L, NEW now \in Nat, NEW fate \in Fates({})
    PROVE  /\ \A l \in L : <<l, now>> \in Arrivals(L, now, fate)
           /\ \A p \in Arrivals(L, now, fate) : p[2] = now
  <1>1. DOMAIN fate = {}
    BY DEF Fates
  <1>2. now + PromptDelay = now
    BY DEF Timely
  <1> QED
    BY <1>1, <1>2 DEF Arrivals

LEMMA ArrivalsInTime ==
    ASSUME Timely, NEW L, NEW now \in Nat, NEW D, NEW fate \in Fates(D),
           NEW p \in Arrivals(L, now, fate)
    PROVE  /\ p[1] \in L /\ p[2] \in Nat
           /\ now <= p[2] /\ p[2] <= now + TimeoutTicks
  <1>1. p[1] \in L /\ p[2] \in Nat
    BY ArrivalsType
  <1>2. \A d \in Delays : /\ d \in Nat /\ now <= now + d
                          /\ now + d <= now + TimeoutTicks
    BY RuntimeAssumption, MembershipAssumption DEF Timely
  <1>3. CASE \E l \in L \ DOMAIN fate : p = <<l, now + PromptDelay>>
    BY <1>1, <1>2, <1>3, RuntimeAssumption
  <1>4. CASE \E l \in {k \in L \cap DOMAIN fate : fate[k] # Lost} :
                 p = <<l, now + fate[l]>>
    <2>1. PICK l \in L \cap DOMAIN fate :
              fate[l] # Lost /\ p = <<l, now + fate[l]>>
      BY <1>4
    <2>2. fate[l] \in Delays
      BY <2>1 DEF Fates
    <2> QED
      BY <1>1, <1>2, <2>1, <2>2
  <1> QED
    BY <1>3, <1>4, Zenon DEF Arrivals

\* What was sent in the calm was sent by a live agent, and when the calm has
\* lasted for more than s ticks, at least the timeout, nothing older than its
\* tick s is under way to a live node.
LEMMA SentLive ==
    ASSUME Inv, CalmCount, Mail, NEW m \in gossips, m.sent > tick - calm
    PROVE  m.from \in Live
  <1>1. /\ m.from \in Agents /\ m.sent \in Nat /\ tick \in Nat /\ calm \in Nat
        /\ crashedAt[m.from] \in Nat /\ crashedAt[m.from] <= tick - calm
    BY DEF Inv, TypeOK, Gossip, CalmCount
  <1>2. crashedAt[m.from] # 0 => m.sent < crashedAt[m.from]
    BY DEF Mail, BeforeCrash
  <1> QED
    BY <1>1, <1>2 DEF Live

LEMMA NothingOld ==
    ASSUME Inv, Timely, CalmCount, Mail, Swept, NEW s \in Nat, s >= TimeoutTicks, calm > s,
           NEW m \in gossips, m.to \in Live
    PROVE  m.sent >= CalmFor(s) /\ m.sent > tick - calm
  <1>1. /\ m.sent \in Nat /\ m.deliver \in Nat /\ tick \in Nat /\ calm \in Nat
        /\ TimeoutTicks \in Nat \ {0}
    BY MembershipAssumption DEF Inv, TypeOK, Gossip, CalmCount, Timely
  <1>2. /\ m.deliver <= m.sent + TimeoutTicks
        /\ m.sent > tick - calm => m.deliver = m.sent
    BY DEF Mail
  <1>3. m.sent + 1 < tick => m.deliver >= tick
    BY DEF Swept
  <1> QED
    BY <1>1, <1>2, <1>3 DEF CalmFor

\* When the views are exact no gossip knows a later generation than the node
\* that reads it.
LEMMA GensAgree ==
    ASSUME Inv, Timely, CalmCount, Mail, Swept, Sees, GensSpread, calm > 0, calm >= Start,
           NEW i \in Live, HasRead(i), NEW m \in gossips, m.to = i, NEW a \in Agents
    PROVE  m.generation[a] <= view[i][a].generation
  <1>0. /\ \A k \in Live : k \in Agents
        /\ \A j \in Agents : view[j][a].generation \in 1 .. Generation[a]
        /\ \A n \in gossips : m.generation[a] \in 1 .. Generation[a]
        /\ Generation[a] \in Nat
    BY RuntimeAssumption DEF Live, Inv, Gens
  <1>1. CASE OneGeneration
    BY <1>0, <1>1 DEF OneGeneration
  <1>2. CASE a \in Live
    BY <1>0, <1>2 DEF Sees
  <1>3. CASE ~OneGeneration /\ a \notin Live
    <2> DEFINE b == CalmFor(TimeoutTicks)
               g == view[m.from][a].generation
    <2>1. /\ tick \in Nat /\ calm \in Nat /\ TimeoutTicks \in Nat
          /\ GossipInterval \in Nat \ {0}
          /\ calm >= TimeoutTicks + GossipInterval + 1 /\ calm > TimeoutTicks
          /\ b = tick - calm + TimeoutTicks
      BY <1>3, StartFacts, MembershipAssumption, RuntimeAssumption
      DEF Inv, TypeOK, CalmCount, CalmFor
    <2>2. ASSUME NEW n \in gossips, n.to = i
          PROVE  /\ n.sent >= b /\ n.sent > tick - calm
                 /\ n.sent \in Nat /\ n.deliver \in Nat
      BY <2>1, <2>2, NothingOld DEF Inv, TypeOK, Gossip
    <2>3. m.from \in Live /\ m.generation[a] <= g
      BY <2>2, SentLive DEF Mail
    <2> HIDE DEF b, g
    <2>4. ~GenDue(i, g, a)
      <3> SUFFICES ASSUME NEW n \in gossips, n.to = i, n.deliver <= tick,
                          n.sent < b + GossipInterval
                   PROVE  FALSE
        BY DEF GenDue, b
      <3>1. n.sent + 1 < tick => n.deliver >= tick
        BY DEF Swept
      <3>2. n.sent > tick - calm => n.deliver = n.sent
        BY DEF Mail
      <3> QED
        BY <2>1, <2>2, <3>1, <3>2
    <2>5. \A k \in Live : ~Unsaid(k, b)
      <3> SUFFICES ASSUME NEW k \in Live PROVE ~Unsaid(k, b)
        OBVIOUS
      <3>1. sinceGossip[k] \in Nat /\ sinceGossip[k] < GossipInterval
        BY <1>0 DEF Inv, TypeOK, CalmCount
      <3> QED
        BY <2>1, <3>1 DEF Unsaid
    <2>6. GenTold(g, a)
      <3>1. GenKnownFrom(m.from, a)
        BY <1>3, <2>1, <2>3 DEF GensSpread
      <3> QED
        BY <2>5, <3>1 DEF GenKnownFrom, b, g
    <2>7. view[i][a].generation >= g
      BY <2>4, <2>6 DEF GenTold
    <2>8. g \in Nat /\ view[i][a].generation \in Nat /\ m.generation[a] \in Nat
      BY <1>0, <2>3 DEF g
    <2> QED
      BY <2>3, <2>7, <2>8
  <1> QED
    BY <1>1, <1>2, <1>3

\* Two owners that no node can tell apart in the order of gossip.
SameRank(x, y) == x = y \/ (x \notin Live /\ y \notin Live)

\* A step that takes nothing back from the live nodes and from the mail keeps
\* what was told.
LEMMA TellKept ==
    ASSUME NEW t \in Tasks, Live' = Live, Base' = Base, tick \in Nat, tick' \in Nat,
           tick <= tick', gossips \subseteq gossips', gossips \subseteq Gossip,
           \A j \in Live : SameRank(reg[j][t].owner, reg'[j][t].owner),
           NEW x, NEW y, SameRank(x, y), Told(x, t)
    PROVE  Told(y, t)'
  <1> SUFFICES ASSUME NEW j \in Live
               PROVE  Yields(y, reg'[j][t].owner) \/ Due(j, y, t)'
    BY DEF Told, Yields
  <1>1. \A z : Yields(x, z) => Yields(y, z)
    BY DEF SameRank, Yields
  <1>2. CASE Yields(x, reg[j][t].owner)
    BY <1>1, <1>2 DEF SameRank, Yields
  <1>3. CASE Due(j, x, t)
    <2>1. PICK m \in gossips : /\ m.to = j /\ m.owner[t] \in Live
                               /\ Yields(x, m.owner[t]) /\ m.deliver <= tick
                               /\ m.sent >= Base /\ m.sent < Base + GossipInterval
      BY <1>3 DEF Due
    <2>2. Yields(y, m.owner[t]) /\ m.deliver \in Nat
      BY <1>1, <2>1 DEF Gossip
    <2>3. m \in gossips' /\ m.deliver <= tick'
      BY <2>1, <2>2
    <2>4. Yields(y, m.owner[t])'
      BY <2>2 DEF Yields
    <2> QED
      BY <2>1, <2>3, <2>4 DEF Due
  <1> QED
    BY <1>2, <1>3 DEF Told

LEMMA GenTellKept ==
    ASSUME NEW a \in Agents, Live' = Live, tick \in Nat, tick' \in Nat, tick <= tick',
           CalmFor(TimeoutTicks)' = CalmFor(TimeoutTicks),
           gossips \subseteq gossips', gossips \subseteq Gossip,
           \A j \in Live : view'[j][a].generation = view[j][a].generation,
           NEW g, GenTold(g, a)
    PROVE  GenTold(g, a)'
  <1> SUFFICES ASSUME NEW j \in Live, GenDue(j, g, a)
               PROVE  GenDue(j, g, a)'
    BY DEF GenTold
  <1>1. PICK m \in gossips : /\ m.to = j /\ m.generation[a] >= g /\ m.deliver <= tick
                             /\ m.sent < CalmFor(TimeoutTicks) + GossipInterval
    BY DEF GenDue
  <1>2. m \in gossips' /\ m.deliver \in Nat
    BY <1>1 DEF Gossip
  <1>3. m.deliver <= tick'
    BY <1>1, <1>2
  <1> QED
    BY <1>1, <1>2, <1>3 DEF GenDue

LEMMA InitSettles ==
    ASSUME Init, Timely
    PROVE  Settling
  <1>1. /\ tick = 0 /\ turn = 0 /\ calm = 0 /\ cut = {} /\ gossips = {} /\ hbs = {}
        /\ \A a \in Agents : crashedAt[a] = 0 /\ sinceGossip[a] = 0
    BY DEF Init
  <1>2. \A i \in Agents : HasRead(i) /\ i \in Live
    BY <1>1 DEF HasRead, Live
  <1>3. ASSUME NEW i \in Agents, NEW t \in Tasks
        PROVE  /\ reg[i][t].status \in {"Absent", "Unassigned"}
               /\ InjectAt[t] = 0 => reg[i][t].status = "Unassigned"
    BY DEF Init, Absent, Unassigned
  <1>4. CalmCount /\ Beats /\ Mail /\ Swept /\ Waiting /\ Sees
    BY <1>1, <1>2, RuntimeAssumption
    DEF CalmCount, Beats, Mail, Swept, Waiting, Sees, Live
  <1>5. Entries
    <2>1. ASSUME NEW t \in Tasks PROVE Lasts(t) /\ InjectAt[t] \in Nat
      BY <1>1, ExpiryAssumption, RuntimeAssumption DEF Lasts
    <2>2. ASSUME NEW i \in Live, NEW t \in Tasks, ~NotYet(i, t)
          PROVE  InjectAt[t] = 0
      BY <1>1, <2>1, <2>2 DEF NotYet
    <2> QED
      BY <1>3, <2>1, <2>2 DEF Entries, Plain, Live
  <1>6. ~(calm >= TimeoutTicks) /\ ~(calm >= Start)
    BY <1>1, StartFacts, MembershipAssumption DEF Timely
  <1>7. GensSpread /\ Spread
    BY <1>6 DEF GensSpread, Spread
  <1> QED
    BY <1>4, <1>5, <1>7 DEF Settling

\* A new tick: after a disturbance the count starts again; in a calm tick all
\* heartbeats wait, and when the tick is Base nothing has been said since.
LEMMA BeginSettles ==
    ASSUME Inv, Timely, Settling,
           NEW crashes \in SUBSET Live, NEW parts \in SUBSET Pairs,
           NEW D, NEW fate \in Fates(D), BeginTick(crashes, parts, D, fate)
    PROVE  Settling'
  <1> USE DEF Inv
  <1> DEFINE L == Links(Live \ crashes, parts)
  <1>0. /\ tick \in Nat /\ tick' = tick + 1 /\ phase' = "inbox" /\ turn = 0
        /\ crashedAt \in [Agents -> Nat] /\ crashedAt' \in [Agents -> Nat]
        /\ UNCHANGED <<gossips, view, reg, sinceGossip>>
        /\ turn' = NextTurn(0, crashedAt') /\ cut' = parts
        /\ gossips \subseteq Gossip /\ hbs \subseteq Heartbeat
        /\ TimeoutTicks \in Nat
    BY MembershipAssumption DEF BeginTick, TypeOK
  <1>1. /\ calm \in Nat /\ calm <= tick
        /\ \A a \in Agents : crashedAt[a] <= tick - calm
    BY DEF Settling, CalmCount
  <1>2. \/ calm' = 0
        \/ /\ calm' = calm + 1 /\ crashes = {} /\ parts = {} /\ D = {}
           /\ crashedAt' = crashedAt
    BY <1>0 DEF BeginTick
  <1>3. calm' # 0 => Live' = Live
    BY <1>2 DEF Live
  <1>4. ASSUME NEW i \in Agents, crashedAt'[i] = 0
        PROVE  ~HasRead(i)' /\ ~Done(i)' /\ HasRead(i) /\ Done(i) /\ i \in Live
    <2>1. i \in 1 .. N /\ crashedAt'[i] = 0
      BY <1>4 DEF Agents
    <2>2. /\ turn' \in 1 .. N + 1
          /\ \A k \in 1 .. turn' - 1 : crashedAt'[k] # 0
      BY <1>0, NextTurnProperty, MembershipAssumption
    <2>3. i \in Live
      BY <1>0, <1>4 DEF Live, BeginTick
    <2> QED
      BY <1>0, <2>1, <2>2, <2>3, MembershipAssumption DEF HasRead, Done
  <1>5. CalmCount'
    <2>1. \A a \in Agents : crashedAt'[a] <= tick' - calm'
      <3>1. \A a \in Agents : crashedAt'[a] <= tick'
        BY <1>0, <1>1 DEF BeginTick, Clock
      <3> QED
        BY <1>0, <1>1, <1>2, <3>1
    <2> QED
      BY <1>0, <1>1, <1>2, <2>1 DEF Settling, CalmCount
  <1>6. ASSUME NEW m \in gossips
        PROVE  m.sent \in Nat /\ m.deliver \in Nat /\ m.from \in Agents
    BY <1>0 DEF Gossip
  <1>7. Beats'
    <2> SUFFICES ASSUME NEW m \in hbs'
                 PROVE  /\ m.deliver <= m.sent + TimeoutTicks
                        /\ m.to \in Live' => m.deliver >= tick'
      BY <1>4 DEF Beats, Live
    <2>1. CASE m \in hbs
      <3>1. m.deliver \in Nat /\ m.deliver <= m.sent + TimeoutTicks
        BY <1>0, <2>1 DEF Heartbeat, Settling, Beats
      <3>2. m.to \in Live' => m.deliver > tick
        BY <1>4, <2>1 DEF Settling, Beats, Live
      <3> QED
        BY <1>0, <3>1, <3>2
    <2>2. CASE \E p \in Arrivals(L, tick + 1, fate) :
                   m = [from |-> p[1][1], to |-> p[1][2], sent |-> tick + 1,
                        deliver |-> p[2]]
      <3>1. PICK p \in Arrivals(L, tick + 1, fate) :
                   m = [from |-> p[1][1], to |-> p[1][2], sent |-> tick + 1,
                        deliver |-> p[2]]
        BY <2>2
      <3>2. tick + 1 \in Nat
        BY <1>0
      <3>3. p[2] \in Nat /\ tick + 1 <= p[2] /\ p[2] <= tick + 1 + TimeoutTicks
        BY <3>2, ArrivalsInTime
      <3>4. m.sent = tick + 1 /\ m.deliver = p[2]
        BY <3>1
      <3> QED
        BY <1>0, <3>3, <3>4
    <2> QED
      BY <2>1, <2>2 DEF BeginTick
  <1>8. Mail'
    <2> SUFFICES ASSUME NEW m \in gossips
                 PROVE  /\ BeforeCrash(m.sent, m.from)'
                        /\ m.deliver <= m.sent + TimeoutTicks
                        /\ m.sent > tick' - calm' =>
                               /\ m.deliver = m.sent
                               /\ \A a \in Live' : m.generation[a] = Generation[a]
                        /\ \A a \in Agents : m.generation[a] <= view[m.from][a].generation
                        /\ \A t \in Tasks : m.owner[t] # NoOwner => InjectAt[t] <= tick'
      BY <1>0 DEF Mail
    <2>1. /\ BeforeCrash(m.sent, m.from)
          /\ m.deliver <= m.sent + TimeoutTicks
          /\ m.sent > tick - calm =>
                 /\ m.deliver = m.sent
                 /\ \A a \in Live : m.generation[a] = Generation[a]
          /\ \A a \in Agents : m.generation[a] <= view[m.from][a].generation
          /\ \A t \in Tasks : m.owner[t] # NoOwner => InjectAt[t] <= tick
      BY DEF Settling, Mail
    <2>2. BeforeCrash(m.sent, m.from)'
      BY <1>0, <1>6, <2>1 DEF BeforeCrash, BeginTick
    <2>3. ASSUME m.sent > tick' - calm' PROVE calm' # 0 /\ m.sent > tick - calm
      BY <1>0, <1>1, <1>2, <1>6, <2>1, <2>3 DEF BeforeCrash
    <2>4. \A t \in Tasks : InjectAt[t] \in Nat
      BY RuntimeAssumption
    <2>5. \A t \in Tasks : m.owner[t] # NoOwner => InjectAt[t] <= tick'
      BY <1>0, <2>1, <2>4
    <2> QED
      BY <1>3, <2>1, <2>2, <2>3, <2>5
  <1>9. Swept'
    <2> SUFFICES ASSUME NEW m \in gossips, m.to \in Live', m.sent + 1 < tick'
                 PROVE  m.deliver >= tick'
      BY <1>0, <1>4 DEF Swept, Live
    <2>1. m.to \in Live /\ Done(m.to)
      BY <1>4 DEF Live
    <2>2. m.sent < tick => m.deliver > tick
      BY <2>1 DEF Settling, Swept
    <2> QED
      BY <1>0, <1>6, <2>2
  <1>10. Waiting'
    <2>1. ASSUME NEW i \in Agents, NEW a \in Agents PROVE view'[i][a].last < tick'
      <3>1. view[i][a].last \in Nat /\ view[i][a].last <= tick
        BY DEF TypeOK, View, Entry, Clock, BeforeCrash
      <3> QED
        BY <1>0, <3>1
    <2>2. ASSUME calm' > 0, NEW i \in Live', NEW a \in Live', a # i
          PROVE  \E m \in hbs' : /\ m.from = a /\ m.to = i
                                 /\ m.sent = tick' /\ m.deliver <= tick'
      <3> DEFINE l == <<a, i>>
      <3>1. D = {} /\ crashes = {} /\ parts = {} /\ a \in Live /\ i \in Live
        BY <1>2, <1>3, <2>2
      <3>2. l \in L
        BY <2>2, <3>1 DEF Links
      <3>3. <<l, tick + 1>> \in Arrivals(L, tick + 1, fate)
        <4>1. tick + 1 \in Nat /\ fate \in Fates({})
          BY <1>0, <3>1
        <4> HIDE DEF l, L
        <4> QED
          BY <3>2, <4>1, PromptArrivals
      <3> DEFINE p == <<l, tick + 1>>
                 m == [from |-> p[1][1], to |-> p[1][2], sent |-> tick + 1,
                       deliver |-> p[2]]
      <3>4. m \in hbs'
        <4>1. \A q \in Arrivals(L, tick + 1, fate) :
                  [from |-> q[1][1], to |-> q[1][2], sent |-> tick + 1,
                   deliver |-> q[2]] \in hbs'
          BY Zenon DEF BeginTick
        <4> HIDE DEF l, L
        <4> QED
          BY <3>3, <4>1, Zenon
      <3>5. m.from = a /\ m.to = i /\ m.sent = tick + 1 /\ m.deliver = tick + 1
        OBVIOUS
      <3> HIDE DEF m
      <3> QED
        BY <1>0, <3>4, <3>5
    <2> QED
      BY <2>1, <2>2 DEF Waiting, Live
  <1>11. Sees'
    BY <1>4 DEF Sees, Live
  <1>12. Entries'
    <2>1. ASSUME NEW i \in Live', NEW t \in Tasks, Lasts(t)', ~NotYet(i, t)'
          PROVE  reg[i][t].status # "Absent"
      <3>1. /\ i \in Live /\ HasRead(i) /\ ~HasRead(i)'
            /\ InjectAt[t] \in Nat /\ ExpiresAt[t] \in Nat
        BY <1>4, ExpiryAssumption, RuntimeAssumption DEF Live
      <3>2. Lasts(t) /\ ~NotYet(i, t)
        BY <1>0, <2>1, <3>1 DEF Lasts, NotYet
      <3> QED
        BY <3>1, <3>2 DEF Settling, Entries
    <2> QED
      BY <1>0, <1>4, <2>1 DEF Settling, Entries, Live
  <1>13. ASSUME NEW s \in Nat, s > 0, calm' >= s
         PROVE  /\ calm' = calm + 1 /\ Live' = Live
                /\ CalmFor(s)' = CalmFor(s) /\ CalmFor(s) \in Int
                /\ \A k \in Live : Unsaid(k, CalmFor(s)) => Unsaid(k, CalmFor(s))'
                /\ ~(calm >= s) => /\ CalmFor(s)' = tick'
                                   /\ \A k \in Live : Unsaid(k, CalmFor(s))'
    <2>1. calm' = calm + 1 /\ Live' = Live
      BY <1>0, <1>1, <1>2, <1>3, <1>13
    <2>2. CalmFor(s)' = CalmFor(s) /\ CalmFor(s) \in Int
      BY <1>0, <1>1, <2>1 DEF CalmFor
    <2>3. \A k \in Live : /\ sinceGossip[k] \in Nat /\ Done(k) /\ ~Done(k)'
                          /\ sinceGossip'[k] = sinceGossip[k]
      BY <1>0, <1>4, <2>1 DEF TypeOK, Live
    <2>4. \A k \in Live : Unsaid(k, CalmFor(s)) => Unsaid(k, CalmFor(s))'
      BY <1>0, <2>2, <2>3 DEF Unsaid
    <2>5. ASSUME ~(calm >= s)
          PROVE  CalmFor(s)' = tick' /\ \A k \in Live : Unsaid(k, CalmFor(s))'
      <3>1. CalmFor(s)' = tick'
        BY <1>0, <1>1, <1>13, <2>1, <2>5 DEF CalmFor
      <3>2. tick' - CalmFor(s)' = 0
        BY <1>0, <3>1
      <3> QED
        BY <1>0, <2>3, <3>1, <3>2 DEF Unsaid
    <2> QED
      BY <2>1, <2>2, <2>4, <2>5
  <1>14. TimeoutTicks > 0 /\ Start \in Nat /\ Start > 0 /\ Start' = Start
         /\ TimeoutTicks' = TimeoutTicks
    BY <1>0, StartFacts DEF Timely
  <1>15. GensSpread'
    <2> SUFFICES ASSUME calm' >= TimeoutTicks,
                        NEW i \in Live', NEW a \in Agents \ Live'
                 PROVE  GenKnownFrom(i, a)'
      BY DEF GensSpread
    <2> DEFINE b == CalmFor(TimeoutTicks)
    <2>1. /\ calm' = calm + 1 /\ Live' = Live /\ b' = b
          /\ \A k \in Live : Unsaid(k, b) => Unsaid(k, b)'
          /\ ~(calm >= TimeoutTicks) => \A k \in Live : Unsaid(k, b)'
      BY <1>0, <1>13, <1>14
    <2>2. \A k \in Live : view[k][a].generation \in Nat
      BY DEF TypeOK, View, Entry, Live
    <2>3. CASE calm >= TimeoutTicks
      <3>1. GenKnownFrom(i, a)
        BY <2>1, <2>3 DEF Settling, GensSpread
      <3>2. \A g : GenTold(g, a) => GenTold(g, a)'
        BY <1>0, <2>1, GenTellKept
      <3> QED
        BY <1>0, <2>1, <3>1, <3>2 DEF GenKnownFrom
    <2>4. CASE ~(calm >= TimeoutTicks)
      BY <1>0, <2>1, <2>2, <2>4 DEF GenKnownFrom
    <2> QED
      BY <2>3, <2>4
  <1>16. Spread'
    <2> SUFFICES ASSUME calm' >= Start, NEW t \in Tasks, Open(t)'
                 PROVE  Backed(t)' /\ \A i \in Live' : KnownFrom(i, t)'
      BY <1>14 DEF Spread
    <2>1. /\ calm' = calm + 1 /\ Live' = Live /\ Base' = Base /\ Base \in Int
          /\ \A k \in Live : Unsaid(k, Base) => Unsaid(k, Base)'
          /\ ~(calm >= Start) => Base' = tick' /\ \A k \in Live : Unsaid(k, Base)'
      <3>1. Base = CalmFor(Start) /\ Base' = CalmFor(Start)'
        BY DEF Base
      <3> QED
        BY <1>13, <1>14, <3>1 DEF Unsaid
    <2>2. \A x, y : Yields(x, y)' <=> Yields(x, y)
      BY <2>1 DEF Yields
    <2>3. CASE calm >= Start
      <3>1. Open(t)
        <4>1. ExpiresAt[t] \in Nat
          BY ExpiryAssumption
        <4> QED
          BY <1>0, <4>1 DEF Open, Lasts
      <3>2. Backed(t) /\ \A i \in Live : KnownFrom(i, t)
        BY <2>3, <3>1 DEF Settling, Spread
      <3>3. Backed(t)'
        BY <1>0, <2>1, <2>2, <3>2 DEF Backed
      <3>4. \A x : Told(x, t) => Told(x, t)'
        BY <1>0, <2>1, TellKept DEF SameRank
      <3> QED
        BY <1>0, <2>1, <2>2, <3>2, <3>3, <3>4 DEF KnownFrom
    <2>4. CASE ~(calm >= Start)
      <3>1. \A m \in gossips : m.sent < Base'
        BY <1>0, <1>6, <2>1, <2>4 DEF Settling, Mail, BeforeCrash
      <3>2. Backed(t)'
        BY <1>0, <1>6, <2>1, <3>1 DEF Backed
      <3> QED
        BY <1>0, <2>1, <2>2, <2>4, <3>2, YieldsOrder DEF KnownFrom
    <2> QED
      BY <2>3, <2>4
  <1> QED
    BY <1>5, <1>7, <1>8, <1>9, <1>10, <1>11, <1>12, <1>15, <1>16 DEF Settling

\* A heartbeat of the current tick in the inbox makes its sender alive and
\* shows its generation; no heartbeat takes a generation back.
LEMMA HeardNow ==
    ASSUME Inv, NEW i \in Agents, crashedAt[i] = 0, NEW a \in Agents,
           view[i][a].last < tick,
           a = i \/ \E m \in Ready(hbs, i) : m.from = a /\ m.sent = tick
    PROVE  /\ Heartbeats(i)[a].alive /\ Heartbeats(i)[a].last = tick
           /\ Heartbeats(i)[a].generation = Generation[a]
  <1> DEFINE e == Heartbeats(i)[a]
             old == view[i][a]
  <1>0. tick \in Nat
    BY DEF Inv, TypeOK
  <1>1. /\ e \in Entry /\ e.last <= tick /\ old \in Entry
        /\ a = i /\ old.last < tick => e.alive /\ e.last = tick
    BY HeartbeatsProperty DEF Inv, BeforeCrash, TypeOK, View
  <1>2. e = old \/ \E s : e = record_heartbeat(old, s, Generation[a])
    BY DEF Heartbeats
  <1>3. e.last = tick
    <2>1. CASE a # i
      <3>1. Holds(e, tick, Generation[a])
        BY <1>0, <2>1, InboxRecords
      <3> HIDE DEF e
      <3> QED
        BY <1>0, <1>1, <3>1 DEF Holds, Entry
    <2>2. CASE a = i
      BY <1>1, <2>2
    <2> QED
      BY <2>1, <2>2
  <1> HIDE DEF e
  <1>4. e # old
    BY <1>0, <1>3
  <1>5. e.alive /\ e.generation = Generation[a]
    BY <1>2, <1>4 DEF record_heartbeat
  <1> QED
    BY <1>3, <1>5 DEF e

LEMMA HeardMore ==
    ASSUME Inv, NEW i \in Agents, NEW a \in Agents
    PROVE  Heartbeats(i)[a].generation >= view[i][a].generation
  <1> DEFINE e == Heartbeats(i)[a]
             old == view[i][a]
  <1>1. e = old \/ \E s : e = record_heartbeat(old, s, Generation[a])
    BY DEF Heartbeats
  <1>2. old.generation \in 1 .. Generation[a] /\ Generation[a] \in Nat
    BY RuntimeAssumption DEF Inv, Gens
  <1> HIDE DEF e, old
  <1>3. e = old \/ e.generation = Generation[a]
    BY <1>1 DEF record_heartbeat
  <1>4. e.generation >= old.generation
    BY <1>2, <1>3
  <1> QED
    BY <1>4 DEF e, old

\* After TimeoutTicks calm ticks no heartbeat of a crashed agent is left.
LEMMA CrashedSilent ==
    ASSUME Inv, CalmCount, Beats, calm >= TimeoutTicks, NEW i \in Live, NEW a \in Agents \ Live
    PROVE  /\ Heartbeats(i)[a] = view[i][a]
           /\ view[i][a].last \in Nat /\ tick - view[i][a].last > TimeoutTicks
  <1>0. /\ tick \in Nat /\ calm \in Nat /\ TimeoutTicks \in Nat
        /\ crashedAt[a] \in Nat /\ crashedAt[a] # 0 /\ crashedAt[a] <= tick - calm
        /\ i \in Agents /\ a # i
    BY MembershipAssumption DEF Inv, TypeOK, CalmCount, Live
  <1>1. view[i][a].last \in Nat /\ view[i][a].last < crashedAt[a]
    BY <1>0 DEF Inv, TypeOK, View, Entry, Clock, BeforeCrash
  <1>2. ASSUME NEW m \in hbs, m.to = i, m.from = a PROVE ~(m.deliver <= tick)
    <2>1. m.sent \in Nat /\ m.deliver \in Nat /\ m.sent < crashedAt[a]
      BY <1>0, <1>2 DEF Inv, TypeOK, Heartbeat, Clock, BeforeCrash
    <2>2. m.deliver <= m.sent + TimeoutTicks /\ m.deliver >= tick
      BY <1>2 DEF Beats
    <2> QED
      BY <1>0, <2>1, <2>2
  <1>3. SentBy(i, a) = {}
    BY <1>0, <1>2 DEF SentBy, Ready
  <1>4. Heartbeats(i)[a] = view[i][a]
    BY <1>3 DEF Heartbeats
  <1> QED
    BY <1>0, <1>1, <1>4

\* What the first half of a turn does to one entry of the registry.
LEMMA InboxEntry ==
    ASSUME Inv, Pending, Entries, NEW i \in Agents, NodeInbox(i), NEW t \in Tasks
    PROVE  LET failed == detect(Heartbeats(i), tick)
               e == reg[i][t]
           IN /\ ~Lasts(t) => reg'[i][t] = Absent
              /\ Lasts(t) /\ t \in Injected =>
                     reg'[i][t] = Unassigned /\ e.status = "Absent"
              /\ Lasts(t) /\ t \notin Injected =>
                     reg'[i][t] = IF e.owner \in failed THEN Released(e) ELSE e
  <1> DEFINE failed == detect(Heartbeats(i), tick)
             e == reg[i][t]
             r == release_agent_tasks(insert(reg[i], Injected), failed)
             f == r[t]
  <1>1. failed \subseteq Agents
    BY DEF detect, alive_agents
  <1> HIDE DEF failed
  <1>2. reg'[i][t] = IF Expired(f, t, tick) THEN Absent ELSE f
    <2>1. reg'[i] = expire_tasks(r, tick)
      BY DEF NodeInbox, process_tick, Inv, TypeOK, failed
    <2> QED
      BY <2>1 DEF expire_tasks
  <1>3. t \in Injected => f = Unassigned
    BY <1>1, RuntimeAssumption DEF release_agent_tasks, insert, Unassigned
  <1>4. t \notin Injected => f = IF e.owner \in failed THEN Released(e) ELSE e
    BY DEF release_agent_tasks, insert
  <1>5. e.status # "InProgress"
    BY DEF Entries, Plain
  <1>6. f.status # "InProgress"
    BY <1>3, <1>4, <1>5 DEF Unassigned, Released
  <1>7. t \in Injected => e.status = "Absent"
    <2>1. ~HasRead(i)
      BY MembershipAssumption DEF NodeInbox, HasRead, Agents
    <2> QED
      BY <2>1 DEF Injected, Pending, NotYet
  <1>8. Expired(f, t, tick) <=> ~Lasts(t)
    <2>1. ExpiresAt[t] \in Nat /\ tick \in Nat
      BY ExpiryAssumption DEF Inv, TypeOK
    <2> HIDE DEF f
    <2> QED
      BY <1>6, <2>1 DEF Expired, Lasts
  <1> HIDE DEF f, e
  <1> QED
    BY <1>2, <1>3, <1>4, <1>7, <1>8 DEF e, failed

\* Owners that rank the same are exchangeable in the order of gossip.
LEMMA YieldsSame ==
    ASSUME NEW x, NEW y, NEW z, NEW u, SameRank(x, y), SameRank(z, u), Yields(x, z)
    PROVE  Yields(y, u)
  BY DEF SameRank, Yields

\* Reading the inbox in a calm tick shows who is alive; it releases no task of
\* a live agent.
LEMMA InboxSettles ==
    ASSUME Inv, Timely, Pending, Settling, NEW i \in Agents, NodeInbox(i)
    PROVE  Settling'
  <1> DEFINE v == Heartbeats(i)
             failed == detect(v, tick)
             w == mark_dead(v, failed)
  <1>0. /\ turn = i /\ phase = "inbox" /\ phase' = "gossip"
        /\ crashedAt[i] = 0 /\ tick \in Nat /\ i \in Live
        /\ UNCHANGED <<tick, turn, crashedAt, cut, gossips, sinceGossip, calm>>
        /\ hbs' = hbs \ Ready(hbs, i) /\ TimeoutTicks \in Nat
        /\ view' = [view EXCEPT ![i] = w]
        /\ gossips \subseteq Gossip
    BY MembershipAssumption DEF NodeInbox, Inv, Clock, TypeOK, Live, process_tick
  <1>1. \A j \in Agents : j # i => view'[j] = view[j] /\ reg'[j] = reg[j]
    BY <1>0 DEF NodeInbox, Inv, TypeOK
  <1>2. \A a \in Agents : /\ view'[i][a].alive <=> (v[a].alive /\ a \notin failed)
                          /\ view'[i][a].generation = v[a].generation
    <2>1. v \in View
      BY <1>0, HeartbeatsProperty DEF Inv, View, Heartbeats
    <2> HIDE DEF v
    <2>2. \A a \in Agents : /\ w[a].alive <=> (v[a].alive /\ a \notin failed)
                            /\ w[a].generation = v[a].generation
      BY <2>1, MarkDeadType
    <2> HIDE DEF w
    <2> QED
      BY <1>0, <2>2 DEF Inv, TypeOK
  <1>3. /\ HasRead(i)' /\ ~HasRead(i) /\ Live' = Live /\ Base' = Base
        /\ CalmFor(TimeoutTicks)' = CalmFor(TimeoutTicks) /\ Start' = Start
        /\ \A j \in Agents : j # i => (HasRead(j)' <=> HasRead(j))
        /\ \A j \in Agents : Done(j)' <=> Done(j)
    <2>1. Start' = Start
      BY StartFacts
    <2> QED
      BY <1>0, <2>1, MembershipAssumption
      DEF HasRead, Done, Agents, Live, Base, CalmFor
  <1>4. CalmCount'
    BY <1>0 DEF Settling, CalmCount
  <1>5. Beats'
    <2> SUFFICES ASSUME NEW m \in hbs, m \notin Ready(hbs, i)
                 PROVE  /\ m.deliver <= m.sent + TimeoutTicks
                        /\ m.to \in Live => /\ m.deliver >= tick
                                            /\ HasRead(m.to)' => m.deliver > tick
      BY <1>0, <1>3 DEF Beats
    <2>1. /\ m.deliver <= m.sent + TimeoutTicks
          /\ m.to \in Live => /\ m.deliver >= tick
                              /\ HasRead(m.to) => m.deliver > tick
      BY DEF Settling, Beats
    <2>2. m.deliver \in Nat /\ m.to \in Agents
      BY DEF Inv, TypeOK, Heartbeat
    <2>3. m.to = i => m.deliver > tick
      BY <1>0, <2>2 DEF Ready
    <2> QED
      BY <1>3, <2>1, <2>2, <2>3
  <1>6. Mail'
    <2>1. ASSUME NEW j \in Agents, NEW a \in Agents, NEW g \in Nat,
                 g <= view[j][a].generation
          PROVE  g <= view'[j][a].generation
      <3>1. CASE j = i
        <4>1. /\ v[a].generation >= view[i][a].generation
              /\ v[a].generation \in Nat /\ view[i][a].generation \in Nat
          <5>1. v[a] \in Entry /\ view[i][a] \in Entry
            BY <1>0, HeartbeatsProperty DEF Inv, TypeOK, View
          <5>2. v[a].generation >= view[i][a].generation
            BY HeardMore
          <5> HIDE DEF v
          <5> QED
            BY <5>1, <5>2 DEF Entry
        <4> HIDE DEF v
        <4> QED
          BY <1>2, <2>1, <3>1, <4>1
      <3>2. CASE j # i
        BY <1>1, <2>1, <3>2
      <3> QED
        BY <3>1, <3>2
    <2>2. ASSUME NEW m \in gossips, NEW a \in Agents
          PROVE  m.generation[a] <= view'[m.from][a].generation
      <3>1. m.generation[a] \in Nat /\ m.from \in Agents
        BY <1>0 DEF Gossip
      <3>2. m.generation[a] <= view[m.from][a].generation
        BY DEF Settling, Mail
      <3> QED
        BY <2>1, <3>1, <3>2
    <2> QED
      BY <1>0, <1>3, <2>2 DEF Settling, Mail, BeforeCrash
  <1>7. Swept'
    BY <1>0, <1>3 DEF Settling, Swept, Live
  <1>8. Waiting'
    <2> SUFFICES ASSUME NEW j \in Live, j # i, ~HasRead(j)
                 PROVE  /\ \A a \in Agents : view[j][a].last < tick
                        /\ calm > 0 =>
                               \A a \in Live \ {j} :
                                   \E m \in hbs' : /\ m.from = a /\ m.to = j
                                                   /\ m.sent = tick /\ m.deliver <= tick
      BY <1>0, <1>1, <1>3 DEF Waiting, Live
    <2>1. \A m \in hbs : m.to = j => m \in hbs'
      BY <1>0 DEF Ready
    <2> QED
      BY <2>1 DEF Settling, Waiting
  <1>9. ASSUME calm > 0, NEW a \in Live
        PROVE  v[a].alive /\ a \notin failed /\ v[a].generation = Generation[a]
    <2>1. a \in Agents /\ view[i][a].last < tick
      BY <1>0, <1>3 DEF Settling, Waiting, Live
    <2>2. a = i \/ \E m \in Ready(hbs, i) : m.from = a /\ m.sent = tick
      BY <1>0, <1>3, <1>9 DEF Settling, Waiting, Ready
    <2>3. v[a].alive /\ v[a].last = tick /\ v[a].generation = Generation[a]
      BY <1>0, <2>1, <2>2, HeardNow
    <2> HIDE DEF v
    <2> QED
      BY <1>0, <2>3 DEF detect
  <1>10. ASSUME calm >= TimeoutTicks, NEW a \in Agents \ Live
         PROVE  /\ v[a] = view[i][a]
                /\ ~(v[a].alive /\ a \notin failed)
    <2>1. v[a] = view[i][a] /\ tick - view[i][a].last > TimeoutTicks
      BY <1>0, <1>10, CrashedSilent DEF Settling
    <2> HIDE DEF v
    <2> QED
      BY <2>1 DEF detect, alive_agents
  <1>11. Sees'
    <2> SUFFICES ASSUME NEW j \in Live, HasRead(j)', NEW a \in Agents
                 PROVE  /\ calm > 0 /\ a \in Live =>
                               view'[j][a].alive /\ view'[j][a].generation = Generation[a]
                        /\ calm >= Start /\ view'[j][a].alive => a \in Live
      BY <1>0, <1>3 DEF Sees, Live
    <2> HIDE DEF v, failed
    <2>1. j \in Agents
      BY DEF Live
    <2>2. CASE j = i
      <3>1. calm >= Start => calm >= TimeoutTicks
        BY <1>0, StartFacts DEF Settling, CalmCount
      <3> QED
        BY <1>2, <1>9, <1>10, <2>2, <3>1
    <2>3. CASE j # i
      BY <1>1, <1>3, <2>1, <2>3 DEF Settling, Sees
    <2> QED
      BY <2>2, <2>3
  <1> HIDE DEF w
  <1>12. ASSUME NEW t \in Tasks
         PROVE  LET e == reg[i][t] IN
                /\ ~Lasts(t) => reg'[i][t] = Absent
                /\ Lasts(t) /\ t \in Injected =>
                       reg'[i][t] = Unassigned /\ e.status = "Absent"
                /\ Lasts(t) /\ t \notin Injected =>
                       reg'[i][t] = IF e.owner \in failed THEN Released(e) ELSE e
    BY InboxEntry DEF Settling
  <1> HIDE DEF failed, v
  <1>13. \A t \in Tasks : Lasts(t)' <=> Lasts(t)
    BY <1>0 DEF Lasts
  <1>14. Entries'
    <2>1. ASSUME NEW t \in Tasks
          PROVE  /\ Plain(reg'[i][t])
                 /\ Lasts(t) /\ ~NotYet(i, t)' => reg'[i][t].status # "Absent"
                 /\ ~Lasts(t) => reg'[i][t].status = "Absent"
      <3>1. Plain(reg[i][t])
        BY DEF Settling, Entries
      <3>2. reg[i][t].status # "Absent" => Released(reg[i][t]).status # "Absent"
        BY DEF Released, Unassigned
      <3>3. ~NotYet(i, t)' /\ t \notin Injected => ~NotYet(i, t)
        <4>1. InjectAt[t] \in Nat
          BY RuntimeAssumption
        <4> QED
          BY <1>0, <1>3, <4>1 DEF NotYet, Injected
      <3>4. Lasts(t) /\ ~NotYet(i, t) => reg[i][t].status # "Absent"
        BY <1>0 DEF Settling, Entries
      <3>5. Plain(Released(reg[i][t]))
        BY <3>1 DEF Released, Unassigned, Plain
      <3>6. /\ Absent.status = "Absent" /\ Unassigned.status = "Unassigned"
            /\ Plain(Absent) /\ Plain(Unassigned)
        BY DEF Absent, Unassigned, Plain
      <3> QED
        BY <1>12, <3>1, <3>2, <3>3, <3>4, <3>5, <3>6
    <2>2. ASSUME NEW j \in Agents, j # i, NEW t \in Tasks
          PROVE  NotYet(j, t)' <=> NotYet(j, t)
      BY <1>0, <1>3, <2>2 DEF NotYet
    <2>3. \A j \in Agents : j # i => reg'[j] = reg[j] /\ (HasRead(j)' <=> HasRead(j))
      BY <1>1, <1>3
    <2>4. ASSUME NEW j \in Agents, NEW t \in Tasks
          PROVE  /\ Plain(reg'[j][t])
                 /\ j \in Live /\ Lasts(t) /\ ~NotYet(j, t)' => reg'[j][t].status # "Absent"
                 /\ j \in Live /\ ~Lasts(t) /\ HasRead(j)' => reg'[j][t].status = "Absent"
      <3>1. CASE j = i
        BY <2>1, <3>1
      <3>2. CASE j # i
        BY <2>2, <2>3, <3>2 DEF Settling, Entries
      <3> QED
        BY <3>1, <3>2
    <2> QED
      BY <1>3, <1>13, <2>4 DEF Entries, Live
  <1>15. \A b : \A k \in Live : Unsaid(k, b)' <=> Unsaid(k, b)
    BY <1>0, <1>3 DEF Unsaid, Live
  <1>16. GensSpread'
    <2> SUFFICES ASSUME calm >= TimeoutTicks, NEW k \in Live, NEW a \in Agents \ Live
                 PROVE  GenKnownFrom(k, a)'
      BY <1>0, <1>3 DEF GensSpread
    <2>1. \A j \in Live : view'[j][a].generation = view[j][a].generation
      BY <1>1, <1>2, <1>10 DEF Live
    <2>2. \A g : GenTold(g, a) => GenTold(g, a)'
      BY <1>0, <1>3, <2>1, GenTellKept
    <2>3. GenKnownFrom(k, a)
      BY DEF Settling, GensSpread
    <2> QED
      BY <1>0, <1>3, <1>15, <2>1, <2>2, <2>3 DEF GenKnownFrom
  <1>17. Spread'
    <2> SUFFICES ASSUME calm >= Start, NEW t \in Tasks, Open(t)'
                 PROVE  Backed(t)' /\ \A k \in Live : KnownFrom(k, t)'
      BY <1>0, <1>3 DEF Spread
    <2>1. calm > 0
      BY <1>0, StartFacts DEF Settling, CalmCount, Timely
    <2>2. Lasts(t)
      BY <1>13 DEF Open
    <2>3. ASSUME NEW e, e = reg[i][t]
          PROVE  /\ e.status = "Completed" => reg'[i][t].status = "Completed"
                 /\ SameRank(e.owner, reg'[i][t].owner)
      <3>1. /\ e.owner # NoOwner => e.status = "Assigned"
            /\ e.owner \in Agents \cup {NoOwner}
        BY <2>3 DEF Inv, Owners, EntryOK, EntryType
      <3>2. Unassigned.owner = NoOwner /\ NoOwner \notin Live
        BY RuntimeAssumption DEF Unassigned, Live
      <3>3. Released(e) = IF e.status = "Assigned" \/ e.status = "InProgress"
                          THEN Unassigned ELSE e
        BY DEF Released, Held
      <3>4. e.owner \in failed => e.owner \notin Live
        BY <1>9, <2>1
      <3>5. CASE t \in Injected
        <4>1. reg'[i][t].owner = NoOwner /\ e.status = "Absent"
          BY <1>12, <2>2, <2>3, <3>2, <3>5
        <4> QED
          BY <3>1, <3>2, <4>1 DEF SameRank
      <3>6. CASE t \notin Injected
        <4>1. reg'[i][t] = IF e.owner \in failed THEN Released(e) ELSE e
          BY <1>12, <2>2, <2>3, <3>6
        <4>2. CASE e.owner \in failed
          <5>1. reg'[i][t] = Unassigned \/ reg'[i][t] = e
            BY <3>3, <4>1, <4>2
          <5>2. e.status = "Completed" => reg'[i][t] = e
            BY <3>3, <4>1, <4>2
          <5> QED
            BY <3>2, <3>4, <4>2, <5>1, <5>2 DEF SameRank
        <4>3. CASE e.owner \notin failed
          BY <4>1, <4>3 DEF SameRank
        <4> QED
          BY <4>2, <4>3
      <3> QED
        BY <3>5, <3>6
    <2>4. Open(t)
      BY <1>1, <2>2, <2>3 DEF Open
    <2>5. \A j \in Live : SameRank(reg[j][t].owner, reg'[j][t].owner)
      BY <1>1, <2>3 DEF SameRank, Live
    <2>6. Backed(t) /\ \A k \in Live : KnownFrom(k, t)
      BY <2>4 DEF Settling, Spread
    <2>7. \A x, y : Yields(x, y)' <=> Yields(x, y)
      BY <1>3 DEF Yields
    <2>8. Backed(t)'
      <3> SUFFICES ASSUME NEW m \in gossips, m.sent >= Base, m.owner[t] \in Live
                   PROVE  m.from \in Live /\ Yields(m.owner[t], reg'[m.from][t].owner)
        BY <1>0, <1>3, <2>7 DEF Backed
      <3>1. m.from \in Live /\ Yields(m.owner[t], reg[m.from][t].owner)
        BY <2>6 DEF Backed
      <3>2. SameRank(m.owner[t], m.owner[t])
        BY DEF SameRank
      <3> QED
        BY <2>5, <3>1, <3>2, YieldsSame
    <2>9. ASSUME NEW k \in Live PROVE KnownFrom(k, t)'
      <3>1. SameRank(reg[k][t].owner, reg'[k][t].owner)
        BY <2>5
      <3>2. CASE Told(reg[k][t].owner, t)
        <4>1. \A y : SameRank(reg[k][t].owner, y) => Told(y, t)'
          BY <1>0, <1>3, <2>5, <3>2, TellKept
        <4> QED
          BY <3>1, <4>1 DEF KnownFrom
      <3>3. CASE \E l \in Live : /\ Yields(reg[k][t].owner, reg[l][t].owner)
                                 /\ Unsaid(l, Base)
        <4>1. PICK l \in Live : /\ Yields(reg[k][t].owner, reg[l][t].owner)
                                /\ Unsaid(l, Base)
          BY <3>3
        <4>2. Yields(reg'[k][t].owner, reg'[l][t].owner)
          BY <2>5, <3>1, <4>1, YieldsSame
        <4> QED
          BY <1>3, <1>15, <2>7, <4>1, <4>2 DEF KnownFrom
      <3> QED
        BY <2>6, <3>2, <3>3 DEF KnownFrom
    <2> QED
      BY <2>8, <2>9
  <1> QED
    BY <1>4, <1>5, <1>6, <1>7, <1>8, <1>11, <1>14, <1>16, <1>17 DEF Settling

\* What one message does to one entry, for a task that exists: it keeps
\* completed and absent entries, and the entry stays plain.
LEMMA GossipPlain ==
    ASSUME NEW v, NEW e, Plain(e), NEW a \in Agents, NEW g
    PROVE  LET f == GossipEntry(v, e, a, g) IN
           /\ Plain(f)
           /\ e.status = "Absent" <=> f.status = "Absent"
           /\ e.status = "Completed" <=> f.status = "Completed"
  <1>1. a # NoOwner
    BY RuntimeAssumption
  <1>2. ASSUME NEW d, Plain(d)
        PROVE  /\ Plain(Assigned(d, a))
               /\ d.status = "Absent" <=> Assigned(d, a).status = "Absent"
               /\ d.status = "Completed" <=> Assigned(d, a).status = "Completed"
    BY <1>1, <1>2 DEF Plain, Assigned
  <1>3. /\ Plain(Released(e))
        /\ e.status = "Absent" <=> Released(e).status = "Absent"
        /\ e.status = "Completed" <=> Released(e).status = "Completed"
    BY DEF Plain, Released, Held, Unassigned
  <1>4. \/ GossipEntry(v, e, a, g) = e
        \/ GossipEntry(v, e, a, g) = Assigned(e, a)
        \/ GossipEntry(v, e, a, g) = Assigned(Released(e), a)
    BY DEF GossipEntry
  <1> QED
    BY <1>2, <1>3, <1>4

\* What gossip of a live owner does to an entry with a live owner or none: the
\* owner never falls in the order of gossip, and when the message knows the
\* generation of its owner, that owner yields to the outcome.
LEMMA GossipRank ==
    ASSUME NEW v, NEW e, NEW a \in Live, v[a].alive,
           e.owner \in Live \cup {NoOwner},
           e.owner = NoOwner => e.status = "Unassigned",
           e.owner # NoOwner => /\ e.status = "Assigned"
                                /\ v[e.owner].generation = Generation[e.owner],
           NEW g \in Nat, g <= Generation[a]
    PROVE  LET f == GossipEntry(v, e, a, g) IN
           /\ f.owner # e.owner => f.owner = a
           /\ Yields(e.owner, f.owner)
           /\ g = Generation[a] => Yields(a, f.owner)
  <1> DEFINE f == GossipEntry(v, e, a, g)
             b == e.owner
  <1>0. /\ a \in Nat /\ a # NoOwner /\ NoOwner \notin Live /\ Generation[a] \in Nat
        /\ b # NoOwner => b \in Nat /\ b \in Live /\ Generation[b] \in Nat
    BY RuntimeAssumption, MembershipAssumption DEF Agents, Live
  <1>1. CASE b = a
    <2>1. f = e
      BY <1>1 DEF GossipEntry
    <2> QED
      BY <1>1, <2>1, YieldsOrder
  <1>2. CASE b = NoOwner
    <2>1. f = Assigned(e, a)
      BY <1>0, <1>2 DEF GossipEntry
    <2>2. f.owner = a
      BY <1>2, <2>1 DEF Assigned
    <2>3. Yields(b, a) /\ Yields(a, a)
      BY <1>0, <1>2, YieldsOrder DEF Yields
    <2> HIDE DEF f
    <2> QED
      BY <2>2, <2>3 DEF f
  <1> DEFINE wins == g > Generation[b] \/ (g = Generation[b] /\ a > b)
  <1>3. CASE b # NoOwner /\ b # a /\ wins
    <2>1. f = Assigned(Released(e), a)
      BY <1>3 DEF GossipEntry
    <2>2. Released(e) = Unassigned
      BY <1>3 DEF Released, Held
    <2>3. f.owner = a
      BY <2>1, <2>2 DEF Assigned, Unassigned
    <2>4. Yields(b, a) /\ Yields(a, a)
      BY <1>0, <1>3 DEF Yields
    <2> HIDE DEF f
    <2> QED
      BY <2>3, <2>4 DEF f
  <1>4. CASE b # NoOwner /\ b # a /\ ~wins
    <2>1. f = e
      BY <1>4 DEF GossipEntry
    <2>2. g = Generation[a] => Yields(a, b)
      BY <1>0, <1>4 DEF Yields
    <2> HIDE DEF f
    <2> QED
      BY <2>1, <2>2, YieldsOrder DEF f
  <1> QED
    BY <1>1, <1>2, <1>3, <1>4

\* Reading a message takes back neither a generation nor an owner, and brings
\* nothing that its sender does not know.
LEMMA GossipSettles ==
    ASSUME Inv, Timely, Settling, NEW i \in Agents, NodeGossip(i)
    PROVE  Settling'
  <1> DEFINE m == First(Ready(gossips, i))
  <1>0. /\ turn = i /\ phase = "gossip" /\ tick \in Nat /\ TimeoutTicks \in Nat
        /\ crashedAt[i] = 0 /\ i \in Live
        /\ UNCHANGED <<tick, turn, phase, crashedAt, cut, hbs, sinceGossip, calm>>
        /\ gossips' = gossips \ {m}
        /\ view[i] \in View /\ gossips \subseteq Gossip
    BY MembershipAssumption DEF NodeGossip, Inv, TypeOK, Clock, Live
  <1>1. m \in gossips /\ m \in Gossip /\ m.to = i /\ m.deliver <= tick
    <2>1. Ready(gossips, i) # {} /\ Ready(gossips, i) \subseteq Gossip
      BY DEF NodeGossip, Ready, Inv, TypeOK
    <2>2. m \in Ready(gossips, i)
      BY <2>1, FirstProperty
    <2> QED
      BY <2>1, <2>2 DEF Ready
  <1>2. reg' = [reg EXCEPT ![i] = GossipRegistry(view[i], reg[i], m)]
        /\ view' = [view EXCEPT ![i] = GossipView(view[i], m)]
    BY DEF NodeGossip
  <1> HIDE DEF m
  <1>3. ASSUME NEW a \in Agents
        PROVE  /\ view'[i][a] \in Entry
               /\ view[i][a].alive => view'[i][a].alive
               /\ \/ view'[i][a] = view[i][a]
                  \/ /\ m.generation[a] > view[i][a].generation
                     /\ view'[i][a].generation = m.generation[a]
               /\ view[i][a].generation \in Nat /\ m.generation[a] \in Nat
               /\ view'[i][a].generation \in Nat
               /\ view'[i][a].generation >= view[i][a].generation
               /\ view'[i][a].generation >= m.generation[a]
    <2>1. view'[i][a] = GossipView(view[i], m)[a]
      BY <1>2 DEF Inv, TypeOK
    <2>2. /\ view'[i][a] \in Entry
          /\ view[i][a].alive => view'[i][a].alive
          /\ \/ view'[i][a] = view[i][a]
             \/ /\ m.generation[a] > view[i][a].generation
                /\ view'[i][a].generation = m.generation[a]
      BY <1>0, <1>1, <2>1, GossipViewProperty
    <2>3. view[i][a].generation \in Nat /\ m.generation[a] \in Nat
      BY <1>0, <1>1 DEF View, Entry, Gossip
    <2>4. m.generation[a] > view[i][a].generation \/ view[i][a].generation >= m.generation[a]
      BY <2>3
    <2>5. m.generation[a] > view[i][a].generation => view'[i][a].generation = m.generation[a]
      <3> SUFFICES ASSUME m.generation[a] > view[i][a].generation
                   PROVE  view'[i][a].generation = m.generation[a]
        OBVIOUS
      <3> QED
        BY <2>1, <2>3 DEF GossipView, record_heartbeat, Newer
    <2> QED
      BY <2>2, <2>3, <2>4, <2>5
  <1>4. /\ \A j \in Agents : j # i => view'[j] = view[j] /\ reg'[j] = reg[j]
        /\ \A t \in Tasks : reg'[i][t] = IF m.owner[t] = NoOwner THEN reg[i][t]
                                         ELSE GossipEntry(view[i], reg[i][t], m.owner[t],
                                                          m.generation[m.owner[t]])
    <2>1. reg'[i] = GossipRegistry(view[i], reg[i], m)
      BY <1>2 DEF Inv, TypeOK
    <2> QED
      BY <1>2, <2>1 DEF GossipRegistry, Inv, TypeOK
  <1>5. /\ calm \in Nat /\ calm <= tick /\ TimeoutTicks > 0
        /\ Start \in Nat /\ Start >= TimeoutTicks
        /\ calm >= Start => calm > 0 /\ calm >= TimeoutTicks
    BY <1>0, StartFacts DEF Settling, CalmCount, Timely
  <1>6. /\ HasRead(i) /\ ~Done(i) /\ Live' = Live /\ Base' = Base /\ Start' = Start
        /\ CalmFor(TimeoutTicks)' = CalmFor(TimeoutTicks)
        /\ \A j \in Agents : (HasRead(j)' <=> HasRead(j)) /\ (Done(j)' <=> Done(j))
        /\ \A t \in Tasks : Lasts(t)' <=> Lasts(t)
        /\ \A j \in Agents, t \in Tasks : NotYet(j, t)' <=> NotYet(j, t)
    <2>1. Start' = Start
      BY StartFacts
    <2> QED
      BY <1>0, <2>1, MembershipAssumption
      DEF HasRead, Done, Agents, Live, Base, CalmFor, Lasts, NotYet
  <1>7. ASSUME NEW a \in Agents, (calm > 0 /\ a \in Live) \/ calm >= Start
        PROVE  view'[i][a] = view[i][a]
    <2>1. m.generation[a] <= view[i][a].generation
      <3>1. CASE calm > 0 /\ a \in Live
        <4>1. view[i][a].generation = Generation[a]
          BY <1>0, <1>6, <3>1 DEF Settling, Sees
        <4>2. m.generation[a] \in 1 .. Generation[a] /\ Generation[a] \in Nat
          BY <1>1, RuntimeAssumption DEF Inv, Gens
        <4> QED
          BY <4>1, <4>2
      <3>2. CASE calm >= Start
        BY <1>0, <1>1, <1>5, <1>6, <3>2, GensAgree DEF Settling
      <3> QED
        BY <1>7, <3>1, <3>2
    <2> QED
      BY <1>3, <2>1
  <1>8. CalmCount' /\ Beats'
    BY <1>0, <1>6 DEF Settling, CalmCount, Beats, Live, HasRead
  <1>9. Mail'
    <2> SUFFICES ASSUME NEW n \in gossips, NEW a \in Agents
                 PROVE  n.generation[a] <= view'[n.from][a].generation
      BY <1>0, <1>6 DEF Settling, Mail, BeforeCrash
    <2>1. n.from \in Agents /\ n.generation[a] \in Nat
      BY <1>0 DEF Gossip
    <2>2. n.generation[a] <= view[n.from][a].generation
      BY DEF Settling, Mail
    <2> QED
      BY <1>3, <1>4, <2>1, <2>2
  <1>10. Swept'
    BY <1>0, <1>6 DEF Settling, Swept, Live
  <1>11. Waiting'
    BY <1>0, <1>4, <1>6 DEF Settling, Waiting, Live
  <1>12. Sees'
    <2> SUFFICES ASSUME NEW j \in Live, HasRead(j), NEW a \in Agents
                 PROVE  /\ calm > 0 /\ a \in Live =>
                               view'[j][a].alive /\ view'[j][a].generation = Generation[a]
                        /\ calm >= Start /\ view'[j][a].alive => a \in Live
      BY <1>0, <1>6 DEF Sees, Live
    <2>1. /\ calm > 0 /\ a \in Live =>
                 view[j][a].alive /\ view[j][a].generation = Generation[a]
          /\ calm >= Start /\ view[j][a].alive => a \in Live
      BY DEF Settling, Sees
    <2>2. (calm > 0 /\ a \in Live) \/ calm >= Start => view'[j][a] = view[j][a]
      BY <1>4, <1>7 DEF Live
    <2> QED
      BY <2>1, <2>2
  <1>13. ASSUME NEW j \in Agents, NEW t \in Tasks
         PROVE  /\ Plain(reg'[j][t])
                /\ reg[j][t].status = "Absent" <=> reg'[j][t].status = "Absent"
                /\ reg[j][t].status = "Completed" <=> reg'[j][t].status = "Completed"
    <2>1. Plain(reg[j][t])
      BY DEF Settling, Entries
    <2>2. m.owner[t] \in Agents \cup {NoOwner}
      BY <1>1 DEF Gossip
    <2>3. CASE j = i /\ m.owner[t] # NoOwner
      BY <1>4, <2>1, <2>2, <2>3, GossipPlain
    <2>4. CASE j # i \/ m.owner[t] = NoOwner
      BY <1>4, <2>1, <2>4
    <2> QED
      BY <2>3, <2>4
  <1>14. Entries'
    BY <1>6, <1>13 DEF Settling, Entries, Live
  <1>15. \A b : \A k \in Live : Unsaid(k, b)' <=> Unsaid(k, b)
    BY <1>0, <1>6 DEF Unsaid, Live
  <1>16. ASSUME NEW s \in Nat, s >= TimeoutTicks, calm >= s
         PROVE  /\ CalmFor(s) \in Int /\ CalmFor(s) > tick - calm
                /\ m.sent < CalmFor(s) => Unsaid(i, CalmFor(s))'
    <2>1. CalmFor(s) = tick - calm + s
      BY DEF CalmFor
    <2>2. ASSUME m.sent < CalmFor(s) PROVE Unsaid(i, CalmFor(s))'
      <3>1. ~(calm > s)
        <4>1. m.sent \in Nat
          BY <1>1 DEF Gossip
        <4>2. calm > s => m.sent >= CalmFor(s)
          BY <1>0, <1>1, <1>16, NothingOld DEF Settling
        <4> QED
          BY <1>0, <1>5, <2>1, <2>2, <4>1, <4>2
      <3>2. tick - CalmFor(s) = 0
        BY <1>0, <1>5, <1>16, <2>1, <3>1
      <3>3. sinceGossip[i] \in Nat
        BY DEF Inv, TypeOK
      <3>4. Unsaid(i, CalmFor(s))
        BY <1>6, <3>2, <3>3 DEF Unsaid
      <3>5. CalmFor(s)' = CalmFor(s)
        BY <1>0 DEF CalmFor
      <3> QED
        BY <1>0, <1>6, <3>4, <3>5 DEF Unsaid
    <2> QED
      BY <1>0, <1>5, <1>16, <2>1, <2>2
  <1>17. GensSpread'
    <2> SUFFICES ASSUME calm >= TimeoutTicks, NEW k \in Live, NEW a \in Agents \ Live
                 PROVE  GenKnownFrom(k, a)'
      BY <1>0, <1>6 DEF GensSpread
    <2> DEFINE b == CalmFor(TimeoutTicks)
               G(j) == view[j][a].generation
    <2>1. \A j \in Live : /\ G(j) \in Nat /\ G(j)' \in Nat /\ G(j)' >= G(j)
                          /\ j # i => G(j)' = G(j)
      <3> SUFFICES ASSUME NEW j \in Live
                   PROVE  /\ G(j) \in Nat /\ G(j)' \in Nat /\ G(j)' >= G(j)
                          /\ j # i => G(j)' = G(j)
        OBVIOUS
      <3>1. j \in Agents /\ G(j) \in Nat
        BY DEF Live, Inv, TypeOK, View, Entry
      <3> QED
        BY <1>3, <1>4, <3>1
    <2>2. ASSUME NEW g \in Nat, NEW h \in Nat, h <= g, GenTold(g, a)
          PROVE  GenTold(h, a)'
      <3> SUFFICES ASSUME NEW j \in Live
                   PROVE  G(j)' >= h \/ GenDue(j, h, a)'
        BY <1>6 DEF GenTold
      <3>1. CASE G(j) >= g
        BY <2>1, <2>2, <3>1
      <3>2. CASE GenDue(j, g, a)
        <4>1. PICK n \in gossips :
                  /\ n.to = j /\ n.generation[a] >= g /\ n.deliver <= tick
                  /\ n.sent < b + GossipInterval
          BY <3>2 DEF GenDue
        <4>2. n.generation[a] \in Nat /\ n.generation[a] >= h
          BY <1>0, <2>2, <4>1 DEF Gossip
        <4>3. CASE n = m
          BY <1>1, <1>3, <2>1, <4>1, <4>2, <4>3
        <4>4. CASE n # m
          BY <1>0, <1>6, <4>1, <4>2, <4>4 DEF GenDue
        <4> QED
          BY <4>3, <4>4
      <3> QED
        BY <2>2, <3>1, <3>2 DEF GenTold
    <2>3. ASSUME NEW j \in Live, NEW h \in Nat, h <= G(j)
          PROVE  GenTold(h, a)' \/ \E l \in Live : G(l)' >= h /\ Unsaid(l, b)'
      <3>1. GenKnownFrom(j, a)
        BY DEF Settling, GensSpread
      <3>2. CASE GenTold(G(j), a)
        BY <2>1, <2>2, <2>3, <3>2
      <3>3. CASE \E l \in Live : G(l) >= G(j) /\ Unsaid(l, b)
        <4>1. PICK l \in Live : G(l) >= G(j) /\ Unsaid(l, b)
          BY <3>3
        <4>2. G(l)' >= h
          BY <2>1, <2>3, <4>1
        <4>3. Unsaid(l, b)'
          BY <1>0, <1>6, <4>1 DEF Unsaid, Live
        <4> QED
          BY <4>2, <4>3
      <3> QED
        BY <3>1, <3>2, <3>3 DEF GenKnownFrom
    <2>4. ASSUME NEW j \in Live, G(k)' <= G(j)
          PROVE  GenKnownFrom(k, a)'
      BY <1>6, <2>1, <2>3, <2>4 DEF GenKnownFrom
    <2>5. CASE G(k)' = G(k)
      BY <2>1, <2>4, <2>5
    <2>6. CASE G(k)' # G(k)
      <3>1. k = i /\ G(i)' = m.generation[a]
        BY <1>3, <2>1, <2>6
      <3>2. m.sent \in Nat /\ b \in Int /\ b > tick - calm
            /\ (m.sent < b => Unsaid(i, b)')
        BY <1>0, <1>1, <1>16 DEF Gossip
      <3>3. CASE m.sent < b
        <4>1. G(i)' >= G(i)'
          BY <1>0, <2>1
        <4> QED
          BY <1>0, <1>6, <3>1, <3>2, <3>3, <4>1 DEF GenKnownFrom
      <3>4. CASE m.sent >= b
        <4>1. m.sent > tick - calm
          BY <1>0, <1>5, <3>2, <3>4
        <4>2. m.from \in Live /\ m.generation[a] <= G(m.from)
          BY <1>1, <4>1, SentLive DEF Settling, Mail
        <4> QED
          BY <2>4, <3>1, <4>2
      <3> QED
        BY <3>2, <3>3, <3>4
    <2> QED
      BY <2>5, <2>6
  <1>18. Spread'
    <2> SUFFICES ASSUME calm >= Start, NEW t \in Tasks, Open(t)'
                 PROVE  Backed(t)' /\ \A k \in Live : KnownFrom(k, t)'
      BY <1>0, <1>6 DEF Spread
    <2> DEFINE a == m.owner[t]
               O(j) == reg[j][t].owner
    <2>1. Lasts(t) /\ Open(t)
      BY <1>6, <1>13 DEF Open
    <2>2. Backed(t) /\ \A k \in Live : KnownFrom(k, t)
      BY <2>1 DEF Settling, Spread
    <2>3. \A x, y : Yields(x, y)' <=> Yields(x, y)
      BY <1>6 DEF Yields
    <2>4. /\ Yields(O(i), O(i)')
          /\ O(i)' # O(i) => a \in Live /\ O(i)' = a
          /\ a \in Live /\ m.generation[a] = Generation[a] => Yields(a, O(i)')
      <3> DEFINE e == reg[i][t]
      <3>0. a \in Agents \cup {NoOwner}
        BY <1>1 DEF Gossip
      <3>1. CASE a \notin Live
        <4>1. a = NoOwner \/ ~view[i][a].alive
          BY <1>0, <1>6, <3>0, <3>1 DEF Settling, Sees
        <4>2. reg'[i][t] = e
          BY <1>4, <4>1 DEF GossipEntry
        <4> QED
          BY <3>1, <4>2, YieldsOrder
      <3>2. CASE a \in Live
        <4>1. /\ view[i][a].alive /\ a \in Agents /\ a # NoOwner
              /\ reg'[i][t] = GossipEntry(view[i], e, a, m.generation[a])
          BY <1>0, <1>4, <1>5, <1>6, <3>2, RuntimeAssumption DEF Settling, Sees, Live
        <4>2. /\ e.owner \in Agents \cup {NoOwner}
              /\ e.owner # NoOwner => /\ e.status = "Assigned"
                                      /\ view[i][e.owner].alive
          BY DEF Inv, Owners, EntryOK, EntryType
        <4>3. e.owner # NoOwner =>
                  /\ e.owner \in Live
                  /\ view[i][e.owner].generation = Generation[e.owner]
          BY <1>0, <1>5, <1>6, <4>2 DEF Settling, Sees
        <4>4. e.owner = NoOwner => e.status = "Unassigned"
          <5>1. InjectAt[t] <= tick /\ InjectAt[t] \in Nat
            BY <1>1, <4>1, RuntimeAssumption DEF Settling, Mail
          <5>2. ~NotYet(i, t)
            BY <1>0, <1>6, <5>1 DEF NotYet
          <5>3. e.status # "Absent" /\ e.status # "Completed" /\ Plain(e)
            BY <1>0, <2>1, <5>2 DEF Settling, Entries, Open
          <5> QED
            BY <5>3 DEF Plain
        <4>5. m.generation[a] \in Nat /\ m.generation[a] <= Generation[a]
          BY <1>1, <4>1, RuntimeAssumption DEF Inv, Gens
        <4> DEFINE f == reg'[i][t]
        <4>6. /\ f.owner # e.owner => f.owner = a
              /\ Yields(e.owner, f.owner)
              /\ m.generation[a] = Generation[a] => Yields(a, f.owner)
          <5> HIDE DEF e, a
          <5> QED
            BY <3>2, <4>1, <4>2, <4>3, <4>4, <4>5, GossipRank
        <4> QED
          BY <3>2, <4>6
      <3> QED
        BY <3>1, <3>2
    <2> HIDE DEF a
    <2>5. \A j \in Live : Yields(O(j), O(j)')
      BY <1>4, <2>4, YieldsOrder DEF Live
    <2>6. Backed(t)'
      <3> SUFFICES ASSUME NEW n \in gossips, n.sent >= Base, n.owner[t] \in Live
                   PROVE  n.from \in Live /\ Yields(n.owner[t], O(n.from)')
        BY <1>0, <1>6, <2>3 DEF Backed
      <3>1. n.from \in Live /\ Yields(n.owner[t], O(n.from))
        BY <2>2 DEF Backed
      <3> QED
        BY <2>5, <3>1, YieldsOrder
    <2>7. Base \in Int /\ Base > tick - calm /\ (m.sent < Base => Unsaid(i, Base)')
      <3>1. Base = CalmFor(Start) /\ Base' = CalmFor(Start)'
        BY DEF Base
      <3> QED
        BY <1>5, <1>16, <3>1 DEF Unsaid
    <2>8. ASSUME NEW x, NEW y, Yields(y, x), Told(x, t)
          PROVE  Told(y, t)'
      <3> SUFFICES ASSUME NEW j \in Live
                   PROVE  Yields(y, O(j)') \/ Due(j, y, t)'
        BY <1>6, <2>3 DEF Told
      <3>1. CASE Yields(x, O(j))
        BY <2>5, <2>8, <3>1, YieldsOrder
      <3>2. CASE Due(j, x, t)
        <4>1. PICK n \in gossips :
                  /\ n.to = j /\ n.owner[t] \in Live
                  /\ Yields(x, n.owner[t]) /\ n.deliver <= tick
                  /\ n.sent >= Base /\ n.sent < Base + GossipInterval
          BY <3>2 DEF Due
        <4>2. Yields(y, n.owner[t])
          BY <2>8, <4>1, YieldsOrder
        <4>3. CASE n = m
          <5>1. j = i /\ a \in Live /\ Yields(y, a) /\ m.sent >= Base /\ m.sent \in Nat
            BY <1>1, <4>1, <4>2, <4>3 DEF a, Gossip
          <5>2. m.sent > tick - calm
            BY <1>0, <1>5, <2>7, <5>1
          <5>3. m.generation[a] = Generation[a]
            BY <1>1, <5>1, <5>2 DEF Settling, Mail
          <5> QED
            BY <2>4, <5>1, <5>3, YieldsOrder
        <4>4. CASE n # m
          BY <1>0, <1>6, <2>3, <4>1, <4>2, <4>4 DEF Due
        <4> QED
          BY <4>3, <4>4
      <3> QED
        BY <2>8, <3>1, <3>2 DEF Told
    <2>9. ASSUME NEW j \in Live, NEW y, Yields(y, O(j))
          PROVE  Told(y, t)' \/ \E l \in Live : Yields(y, O(l)') /\ Unsaid(l, Base)'
      <3>1. CASE Told(O(j), t)
        BY <2>8, <2>9, <3>1
      <3>2. CASE \E l \in Live : Yields(O(j), O(l)) /\ Unsaid(l, Base)
        <4>1. PICK l \in Live : Yields(O(j), O(l)) /\ Unsaid(l, Base)
          BY <3>2
        <4>2. Yields(y, O(l)')
          BY <2>5, <2>9, <4>1, YieldsOrder
        <4>3. Unsaid(l, Base)'
          BY <1>0, <1>6, <4>1 DEF Unsaid, Live
        <4> QED
          BY <4>2, <4>3
      <3> QED
        BY <2>2, <3>1, <3>2 DEF KnownFrom
    <2>10. ASSUME NEW k \in Live, NEW j \in Live, Yields(O(k)', O(j))
           PROVE  KnownFrom(k, t)'
      BY <1>6, <2>3, <2>9, <2>10 DEF KnownFrom
    <2>11. ASSUME NEW k \in Live PROVE KnownFrom(k, t)'
      <3>1. CASE O(k)' = O(k)
        BY <2>10, <3>1, YieldsOrder
      <3>2. CASE O(k)' # O(k)
        <4>1. k = i /\ a \in Live /\ O(i)' = a
          BY <1>4, <2>4, <3>2 DEF Live
        <4>2. CASE m.sent >= Base
          <5>1. m.from \in Live /\ Yields(a, O(m.from))
            BY <1>1, <2>2, <4>1, <4>2 DEF Backed, a
          <5> QED
            BY <2>10, <4>1, <5>1
        <4>3. CASE m.sent < Base
          BY <1>0, <1>6, <2>3, <2>7, <4>1, <4>3, YieldsOrder DEF KnownFrom
        <4>4. m.sent \in Int
          BY <1>1 DEF Gossip
        <4> QED
          BY <2>7, <4>2, <4>3, <4>4
      <3> QED
        BY <3>1, <3>2
    <2> QED
      BY <2>6, <2>11
  <1> QED
    BY <1>8, <1>9, <1>10, <1>11, <1>12, <1>14, <1>17, <1>18 DEF Settling

\* Allocation, exhaustion and the release of the exhausted agents' tasks keep
\* an entry plain, and neither add nor complete a task.
LEMMA FinishPlain ==
    ASSUME NEW e, Plain(e), NEW a \in Agents
    PROVE  /\ Plain(Assigned(e, a)) /\ Plain(Released(e))
           /\ e.status = "Absent" <=> Assigned(e, a).status = "Absent"
           /\ e.status = "Absent" <=> Released(e).status = "Absent"
           /\ e.status = "Completed" <=> Released(e).status = "Completed"
  BY RuntimeAssumption DEF Plain, Assigned, Released, Held, Unassigned

\* The rest of a turn: a calm one changes no owner, and when gossip is due it
\* reaches everybody.
LEMMA FinishSettles ==
    ASSUME Inv, Timely, Pending, Settling, NEW i \in Agents,
           NEW T \in SUBSET Free(reg[i]),
           NEW decisions \in [T -> alive_agents(view[i])],
           NEW exhausted, NEW D, NEW fate \in Fates(D),
           NodeFinish(i, decisions, exhausted, D, fate)
    PROVE  Settling'
  <1> DEFINE r == allocate_unassigned(reg[i], decisions)
             L == GossipLinks(i)
  <1>0. /\ turn = i /\ phase = "gossip" /\ phase' = "inbox" /\ tick \in Nat
        /\ UNCHANGED <<tick, crashedAt, cut, hbs>>
        /\ turn' = NextTurn(i, crashedAt)
        /\ crashedAt[i] = 0 /\ i \in Live /\ view[i] \in View
        /\ TimeoutTicks \in Nat /\ gossips \subseteq Gossip
        /\ crashedAt \in [Agents -> Nat] /\ sinceGossip \in [Agents -> Nat]
    BY MembershipAssumption DEF NodeFinish, Inv, TypeOK, Clock, Live
  <1>1. /\ view' = [view EXCEPT ![i] = mark_dead(view[i], exhausted)]
        /\ reg' = [reg EXCEPT ![i] = release_agent_tasks(r, exhausted)]
        /\ sinceGossip' = [sinceGossip EXCEPT ![i] = IF GossipDue(i) THEN 0
                                                     ELSE sinceGossip[i] + 1]
        /\ gossips' = gossips \cup {GossipMessage(i, r, p[1][2], p[2]) :
                                        p \in Arrivals(L, tick, fate)}
        /\ Ready(gossips, i) = {}
    BY DEF NodeFinish
  <1>2. \/ calm' = 0
        \/ calm' = calm /\ D = {} /\ exhausted = {} /\ r = reg[i]
    BY DEF NodeFinish
  <1>3. /\ calm \in Nat /\ calm <= tick /\ (calm > 0 => cut = {})
        /\ \A a \in Agents : crashedAt[a] <= tick - calm
        /\ \A j \in Agents : sinceGossip[j] < GossipInterval
    BY DEF Settling, CalmCount
  <1>4. /\ turn' \in i + 1 .. N + 1
        /\ turn' = N + 1 \/ crashedAt[turn'] = 0
        /\ \A k \in i + 1 .. turn' - 1 : crashedAt[k] # 0
    <2>1. i \in 0 .. N
      BY MembershipAssumption DEF Agents
    <2> QED
      BY <1>0, <2>1, NextTurnProperty
  <1>5. Live' = Live /\ HasRead(i) /\ ~Done(i) /\ Done(i)'
    BY <1>0, <1>4, MembershipAssumption DEF Live, HasRead, Done, Agents
  <1>6. ASSUME NEW j \in Live
        PROVE  /\ HasRead(j)' <=> HasRead(j)
               /\ j # i => (Done(j)' <=> Done(j))
               /\ \A t \in Tasks : NotYet(j, t)' <=> NotYet(j, t)
    <2>1. j \in 1 .. N /\ crashedAt[j] = 0 /\ i \in 1 .. N
      BY DEF Live, Agents
    <2>2. HasRead(j)' <=> HasRead(j)
      BY <1>0, <1>4, <2>1, MembershipAssumption DEF HasRead
    <2>3. j # i => (Done(j)' <=> Done(j))
      BY <1>0, <1>4, <2>1, MembershipAssumption DEF Done
    <2> QED
      BY <1>0, <2>2, <2>3 DEF NotYet
  <1>7. ASSUME NEW t \in Tasks
        PROVE  /\ Plain(r[t])
               /\ reg[i][t].status = "Absent" <=> r[t].status = "Absent"
               /\ r = reg[i] => r[t] = reg[i][t]
               /\ r[t].owner # NoOwner => r[t].status = "Assigned"
    <2>1. Plain(reg[i][t]) /\ EntryOK(view[i], reg[i][t])
      BY DEF Settling, Entries, Inv, Owners
    <2>2. CASE t \in T
      <3>1. decisions[t] \in Agents /\ r[t] = Assigned(reg[i][t], decisions[t])
        BY <2>2 DEF alive_agents, allocate_unassigned
      <3> HIDE DEF r
      <3>2. r[t].owner # NoOwner => r[t].status = "Assigned"
        BY <2>1, <3>1 DEF Assigned, EntryOK
      <3> QED
        BY <2>1, <3>1, <3>2, FinishPlain
    <2>3. CASE t \notin T
      BY <2>1, <2>3 DEF allocate_unassigned, EntryOK
    <2> QED
      BY <2>2, <2>3
  <1>8. ASSUME NEW n \in gossips'
        PROVE  n \in gossips \/ (/\ n.from = i /\ n.to \in Live /\ n.to # i
                                 /\ n.sent = tick
                                 /\ n.deliver \in Nat /\ tick <= n.deliver
                                 /\ n.deliver <= tick + TimeoutTicks
                                 /\ calm' # 0 => n.deliver = tick
                                 /\ \A t \in Tasks : n.owner[t] = r[t].owner
                                 /\ \A a \in Agents :
                                        n.generation[a] = view[i][a].generation)
    <2> HIDE DEF r
    <2>1. CASE n \in gossips
      BY <2>1
    <2>2. CASE \E p \in Arrivals(L, tick, fate) :
                   n = GossipMessage(i, r, p[1][2], p[2])
      <3>1. PICK p \in Arrivals(L, tick, fate) :
                   n = GossipMessage(i, r, p[1][2], p[2])
        BY <2>2
      <3>2. /\ p[1] \in L /\ p[2] \in Nat
            /\ tick <= p[2] /\ p[2] <= tick + TimeoutTicks
        BY <1>0, <3>1, ArrivalsInTime
      <3>3. p[1][2] \in Live /\ p[1][2] # i
        BY <3>2 DEF GossipLinks, Links
      <3>4. calm' # 0 => p[2] = tick
        <4>1. ASSUME D = {} PROVE p[2] = tick
          BY <1>0, <4>1, PromptArrivals
        <4> QED
          BY <1>2, <4>1
      <3> HIDE DEF L
      <3> QED
        BY <1>0, <3>1, <3>2, <3>3, <3>4 DEF GossipMessage
    <2> QED
      BY <1>1, <2>1, <2>2
  <1> HIDE DEF r
  <1>9. CalmCount'
    <2>1. ASSUME NEW j \in Agents PROVE sinceGossip'[j] < GossipInterval
      <3>1. CASE j # i
        BY <1>0, <1>1, <1>3, <3>1
      <3>2. CASE j = i /\ GossipDue(i)
        BY <1>0, <1>1, <3>2, RuntimeAssumption
      <3>3. CASE j = i /\ ~GossipDue(i)
        BY <1>0, <1>1, <3>3, RuntimeAssumption DEF GossipDue
      <3> QED
        BY <3>1, <3>2, <3>3
    <2>2. ASSUME NEW a \in Agents PROVE crashedAt'[a] <= tick' - calm'
      BY <1>0, <1>2, <1>3 DEF Inv, Clock
    <2> QED
      BY <1>0, <1>2, <1>3, <2>1, <2>2 DEF CalmCount
  <1>10. \A j, a \in Agents :
             /\ view'[j][a].last = view[j][a].last
             /\ view'[j][a].generation = view[j][a].generation
             /\ exhausted = {} => view'[j][a].alive = view[j][a].alive
    <2>1. \A a \in Agents :
             /\ mark_dead(view[i], exhausted)[a].last = view[i][a].last
             /\ mark_dead(view[i], exhausted)[a].generation = view[i][a].generation
             /\ exhausted = {} => mark_dead(view[i], exhausted)[a] = view[i][a]
      BY <1>0, MarkDeadType DEF mark_dead
    <2> QED
      BY <1>1, <2>1 DEF Inv, TypeOK
  <1>11. Mail'
    <2> SUFFICES ASSUME NEW n \in gossips'
                 PROVE  /\ BeforeCrash(n.sent, n.from)
                        /\ n.deliver <= n.sent + TimeoutTicks
                        /\ n.sent > tick - calm' =>
                               /\ n.deliver = n.sent
                               /\ \A a \in Live : n.generation[a] = Generation[a]
                        /\ n.from \in Agents
                        /\ \A a \in Agents : n.generation[a] <= view[n.from][a].generation
                        /\ \A t \in Tasks : n.owner[t] # NoOwner => InjectAt[t] <= tick
      BY <1>0, <1>5, <1>10 DEF Mail, BeforeCrash
    <2>1. CASE n \in gossips
      <3>1. n.sent \in Nat /\ n.from \in Agents
        BY <1>0, <2>1 DEF Gossip
      <3>2. n.sent > tick - calm' => n.sent > tick - calm
        BY <1>0, <1>2, <1>3, <3>1
      <3> QED
        BY <2>1, <3>1, <3>2 DEF Settling, Mail
    <2>2. CASE n \notin gossips
      <3>1. /\ n.from = i /\ n.sent = tick /\ n.deliver <= tick + TimeoutTicks
            /\ calm' # 0 => n.deliver = tick
            /\ \A t \in Tasks : n.owner[t] = r[t].owner
            /\ \A a \in Agents : n.generation[a] = view[i][a].generation
        BY <1>8, <2>2
      <3>2. ASSUME NEW t \in Tasks, r[t].owner # NoOwner PROVE InjectAt[t] <= tick
        <4>1. reg[i][t].status # "Absent"
          BY <1>7, <3>2
        <4>2. ~NotYet(i, t) /\ InjectAt[t] \in Nat
          BY <4>1, RuntimeAssumption DEF Pending
        <4> QED
          BY <1>0, <1>5, <4>2 DEF NotYet
      <3>3. calm' = 0 => ~(n.sent > tick - calm')
        BY <1>0, <3>1
      <3>4. calm' # 0 => \A a \in Live : n.generation[a] = Generation[a]
        BY <1>0, <1>2, <1>3, <1>5, <3>1 DEF Settling, Sees, Live
      <3>5. BeforeCrash(n.sent, n.from)
        BY <1>0, <3>1 DEF BeforeCrash
      <3>6. \A a \in Agents : n.generation[a] <= view[i][a].generation
        BY <3>1 DEF Inv, TypeOK, View, Entry
      <3> QED
        BY <1>0, <3>1, <3>2, <3>3, <3>4, <3>5, <3>6
    <2> QED
      BY <2>1, <2>2
  <1>12. Beats' /\ Waiting'
    <2>1. Beats'
      <3>1. \A m \in hbs : m.to \in Live => (HasRead(m.to)' <=> HasRead(m.to))
        BY <1>6
      <3> QED
        BY <1>0, <1>5, <3>1 DEF Settling, Beats
    <2>2. Waiting'
      <3> SUFFICES ASSUME NEW j \in Live, ~HasRead(j)
                   PROVE  /\ \A a \in Agents : view'[j][a].last < tick
                          /\ calm' > 0 =>
                                 \A a \in Live \ {j} :
                                     \E m \in hbs : /\ m.from = a /\ m.to = j
                                                    /\ m.sent = tick /\ m.deliver <= tick
        BY <1>0, <1>5, <1>6 DEF Waiting
      <3>1. \A a \in Agents : view'[j][a].last < tick
        BY <1>10 DEF Settling, Waiting, Live
      <3>2. calm' > 0 => calm > 0
        BY <1>2
      <3> QED
        BY <3>1, <3>2 DEF Settling, Waiting
    <2> QED
      BY <2>1, <2>2
  <1>13. /\ Start' = Start /\ Start \in Nat /\ Start >= TimeoutTicks
         /\ TimeoutTicks > 0 /\ Start > 0
    BY <1>0, StartFacts DEF Timely
  <1>14. Sees'
    <2> SUFFICES ASSUME NEW j \in Live, HasRead(j), NEW a \in Agents
                 PROVE  /\ calm' > 0 /\ a \in Live =>
                               view'[j][a].alive /\ view'[j][a].generation = Generation[a]
                        /\ calm' >= Start /\ view'[j][a].alive => a \in Live
      BY <1>5, <1>6, <1>13 DEF Sees, Live
    <2>1. CASE calm' = 0
      BY <1>13, <2>1
    <2>2. CASE calm' # 0
      <3>1. calm' = calm /\ exhausted = {}
        BY <1>2, <2>2
      <3>2. /\ view'[j][a].alive = view[j][a].alive
            /\ view'[j][a].generation = view[j][a].generation
        BY <1>10, <3>1 DEF Live
      <3> QED
        BY <3>1, <3>2 DEF Settling, Sees
    <2> QED
      BY <2>1, <2>2
  <1>15. /\ \A j \in Agents : j # i => reg'[j] = reg[j]
         /\ \A t \in Tasks : reg'[i][t] = IF r[t].owner \in exhausted
                                          THEN Released(r[t]) ELSE r[t]
    BY <1>1 DEF Inv, TypeOK, release_agent_tasks
  <1>16. Entries'
    <2>1. ASSUME NEW j \in Agents, NEW t \in Tasks
          PROVE  /\ Plain(reg'[j][t])
                 /\ reg[j][t].status = "Absent" <=> reg'[j][t].status = "Absent"
      <3>1. CASE j # i
        BY <1>15, <3>1 DEF Settling, Entries
      <3>2. CASE j = i
        BY <1>7, <1>15, <3>2, FinishPlain
      <3> QED
        BY <3>1, <3>2
    <2>2. \A t \in Tasks : Lasts(t)' <=> Lasts(t)
      BY <1>0 DEF Lasts
    <2> QED
      BY <1>5, <1>6, <2>1, <2>2 DEF Settling, Entries, Live
  <1>17. Swept'
    <2> SUFFICES ASSUME NEW n \in gossips', n.to \in Live
                 PROVE  /\ Done(n.to)' /\ n.sent < tick => n.deliver > tick
                        /\ n.sent + 1 < tick => n.deliver >= tick
      BY <1>0, <1>5 DEF Swept
    <2>1. CASE n \in gossips
      <3>1. n.sent \in Nat /\ n.deliver \in Nat
        BY <1>0, <2>1 DEF Gossip
      <3>2. n.sent + 1 < tick => n.deliver >= tick
        BY <2>1 DEF Settling, Swept
      <3>3. CASE n.to = i
        BY <1>0, <1>1, <2>1, <3>1, <3>2, <3>3 DEF Ready
      <3>4. CASE n.to # i
        BY <1>6, <2>1, <3>2, <3>4 DEF Settling, Swept
      <3> QED
        BY <3>3, <3>4
    <2>2. CASE n \notin gossips
      BY <1>0, <1>8, <2>2
    <2> QED
      BY <2>1, <2>2
  <1>18. ASSUME NEW s \in Nat, s > 0, calm' >= s
         PROVE  /\ calm' = calm /\ D = {} /\ exhausted = {} /\ r = reg[i]
                /\ CalmFor(s)' = CalmFor(s) /\ CalmFor(s) \in Int /\ CalmFor(s) <= tick
                /\ \A k \in Live : k # i /\ Unsaid(k, CalmFor(s)) => Unsaid(k, CalmFor(s))'
                /\ Unsaid(i, CalmFor(s)) =>
                       \/ Unsaid(i, CalmFor(s))'
                       \/ /\ tick < CalmFor(s) + GossipInterval
                          /\ \A j \in Live : j # i =>
                                \E n \in gossips' :
                                    /\ n.to = j /\ n.sent = tick /\ n.deliver = tick
                                    /\ n.owner = [t \in Tasks |-> r[t].owner]
                                    /\ n.generation = [a \in Agents |-> view[i][a].generation]
    <2> DEFINE b == CalmFor(s)
    <2>1. /\ calm' = calm /\ D = {} /\ exhausted = {} /\ r = reg[i]
          /\ calm > 0 /\ cut = {}
      BY <1>2, <1>3, <1>18
    <2>2. b' = b /\ b \in Int /\ b <= tick
      BY <1>0, <1>3, <1>18, <2>1 DEF CalmFor
    <2>3. ASSUME NEW k \in Live, k # i, Unsaid(k, b) PROVE Unsaid(k, b)'
      <3>1. sinceGossip'[k] = sinceGossip[k]
        BY <1>0, <1>1, <2>3 DEF Live
      <3> QED
        BY <1>0, <1>6, <2>2, <2>3, <3>1 DEF Unsaid
    <2> HIDE DEF b
    <2>4. ASSUME Unsaid(i, b), ~GossipDue(i) PROVE Unsaid(i, b)'
      <3>1. sinceGossip'[i] = sinceGossip[i] + 1 /\ sinceGossip[i] \in Nat
        BY <1>0, <1>1, <2>4
      <3>2. sinceGossip[i] >= tick - b
        BY <1>0, <1>5, <2>2, <2>4 DEF Unsaid
      <3> QED
        BY <1>0, <1>5, <2>2, <3>1, <3>2 DEF Unsaid
    <2>5. ASSUME Unsaid(i, b) PROVE tick < b + GossipInterval
      <3>1. /\ sinceGossip[i] >= tick - b /\ sinceGossip[i] \in Nat
            /\ sinceGossip[i] < GossipInterval
        BY <1>0, <1>3, <1>5, <2>2, <2>5 DEF Unsaid
      <3> QED
        BY <1>0, <2>2, <3>1, RuntimeAssumption
    <2>6. ASSUME GossipDue(i), NEW j \in Live, j # i
          PROVE  \E n \in gossips' :
                     /\ n.to = j /\ n.sent = tick /\ n.deliver = tick
                     /\ n.owner = [t \in Tasks |-> r[t].owner]
                     /\ n.generation = [a \in Agents |-> view[i][a].generation]
      <3> DEFINE l == <<i, j>>
                 n == GossipMessage(i, r, j, tick)
      <3>1. l \in L
        BY <1>0, <2>1, <2>6 DEF GossipLinks, Links
      <3>2. <<l, tick>> \in Arrivals(L, tick, fate)
        <4>1. fate \in Fates({})
          BY <2>1
        <4> HIDE DEF l, L
        <4> QED
          BY <1>0, <3>1, <4>1, PromptArrivals
      <3>3. n \in gossips'
        <4>1. \A p \in Arrivals(L, tick, fate) :
                  GossipMessage(i, r, p[1][2], p[2]) \in gossips'
          BY <1>1, Zenon
        <4>2. GossipMessage(i, r, <<l, tick>>[1][2], <<l, tick>>[2]) \in gossips'
          <5> HIDE DEF l, L
          <5> QED
            BY <3>2, <4>1, Zenon
        <4> QED
          BY <4>2
      <3>4. /\ n.to = j /\ n.sent = tick /\ n.deliver = tick
            /\ n.owner = [t \in Tasks |-> r[t].owner]
            /\ n.generation = [a \in Agents |-> view[i][a].generation]
        BY DEF GossipMessage
      <3> HIDE DEF n
      <3> QED
        BY <3>3, <3>4
    <2> QED
      BY <2>1, <2>2, <2>3, <2>4, <2>5, <2>6 DEF b
  <1>19. GensSpread'
    <2> SUFFICES ASSUME calm' >= TimeoutTicks, NEW j \in Live, NEW a \in Agents \ Live
                 PROVE  GenKnownFrom(j, a)'
      BY <1>5 DEF GensSpread
    <2> DEFINE b == CalmFor(TimeoutTicks)
               G(k) == view[k][a].generation
    <2>1. /\ calm' = calm /\ b' = b /\ b \in Int
          /\ \A k \in Live : k # i /\ Unsaid(k, b) => Unsaid(k, b)'
      BY <1>0, <1>13, <1>18
    <2>2. \A k \in Live : G(k)' = G(k) /\ G(k) \in Nat
      BY <1>10 DEF Live, Inv, TypeOK, View, Entry
    <2>3. \A g : GenTold(g, a) => GenTold(g, a)'
      <3>1. gossips \subseteq gossips'
        BY <1>1
      <3> QED
        BY <1>0, <1>5, <2>1, <2>2, <3>1, GenTellKept
    <2>4. ASSUME NEW g \in Nat, G(i) >= g, Unsaid(i, b), ~Unsaid(i, b)'
          PROVE  GenTold(g, a)'
      <3>1. /\ tick < b + GossipInterval
            /\ \A k \in Live : k # i =>
                  \E n \in gossips' :
                      /\ n.to = k /\ n.sent = tick /\ n.deliver = tick
                      /\ n.owner = [u \in Tasks |-> r[u].owner]
                      /\ n.generation = [c \in Agents |-> view[i][c].generation]
        BY <1>0, <1>13, <1>18, <2>4
      <3> SUFFICES ASSUME NEW k \in Live
                   PROVE  G(k)' >= g \/ GenDue(k, g, a)'
        BY <1>5 DEF GenTold
      <3>2. CASE k = i
        BY <2>2, <2>4, <3>2
      <3>3. CASE k # i
        <4>1. PICK n \in gossips' :
                  /\ n.to = k /\ n.sent = tick /\ n.deliver = tick
                  /\ n.generation = [c \in Agents |-> view[i][c].generation]
          BY <3>1, <3>3
        <4>2. n.generation[a] >= g
          BY <2>4, <4>1
        <4> QED
          BY <1>0, <2>1, <3>1, <4>1, <4>2 DEF GenDue
      <3> QED
        BY <3>2, <3>3
    <2>5. CASE GenTold(G(j), a)
      BY <2>2, <2>3, <2>5 DEF GenKnownFrom
    <2>6. CASE \E k \in Live : G(k) >= G(j) /\ Unsaid(k, b)
      <3>1. PICK k \in Live : G(k) >= G(j) /\ Unsaid(k, b)
        BY <2>6
      <3>2. CASE Unsaid(k, b)'
        BY <1>5, <2>2, <3>1, <3>2 DEF GenKnownFrom
      <3>3. CASE ~Unsaid(k, b)'
        <4>1. k = i
          BY <2>1, <3>1, <3>3
        <4>2. \A g \in Nat : G(i) >= g => GenTold(g, a)'
          BY <2>4, <3>1, <3>3, <4>1
        <4> QED
          BY <2>2, <3>1, <4>1, <4>2 DEF GenKnownFrom
      <3> QED
        BY <3>2, <3>3
    <2>7. GenKnownFrom(j, a)
      BY <2>1 DEF Settling, GensSpread
    <2> QED
      BY <2>5, <2>6, <2>7 DEF GenKnownFrom
  <1>20. Spread'
    <2> SUFFICES ASSUME calm' >= Start, NEW t \in Tasks, Open(t)'
                 PROVE  Backed(t)' /\ \A j \in Live : KnownFrom(j, t)'
      BY <1>5, <1>13 DEF Spread
    <2> DEFINE O(k) == reg[k][t].owner
    <2>1. /\ calm' = calm /\ exhausted = {} /\ r = reg[i]
          /\ Base' = Base /\ Base \in Int /\ Base <= tick
          /\ \A k \in Live : k # i /\ Unsaid(k, Base) => Unsaid(k, Base)'
      <3>1. Base = CalmFor(Start) /\ Base' = CalmFor(Start)'
        BY <1>13 DEF Base, CalmFor
      <3> QED
        BY <1>13, <1>18, <3>1 DEF Unsaid
    <2>2. /\ \A k \in Agents : reg'[k][t] = reg[k][t]
          /\ r[t] = reg[i][t]
      BY <1>7, <1>15, <2>1
    <2>3. \A x, y : Yields(x, y)' <=> Yields(x, y)
      BY <1>5 DEF Yields
    <2>4. Backed(t) /\ \A j \in Live : KnownFrom(j, t)
      <3>1. Open(t)
        BY <1>0, <2>2 DEF Open, Lasts
      <3> QED
        BY <2>1, <3>1 DEF Settling, Spread
    <2>5. \A k \in Live : O(k)' = O(k)
      BY <2>2 DEF Live
    <2>6. Backed(t)'
      <3> SUFFICES ASSUME NEW n \in gossips', n.sent >= Base, n.owner[t] \in Live
                   PROVE  n.from \in Live /\ Yields(n.owner[t], O(n.from))
        BY <1>5, <2>1, <2>3, <2>5 DEF Backed
      <3>1. CASE n \in gossips
        BY <2>4, <3>1 DEF Backed
      <3>2. CASE n \notin gossips
        <4>1. n.from = i /\ n.owner[t] = O(i)
          BY <1>8, <2>2, <3>2
        <4> QED
          BY <1>0, <4>1, YieldsOrder
      <3> QED
        BY <3>1, <3>2
    <2>7. \A x : Told(x, t) => Told(x, t)'
      <3>1. gossips \subseteq gossips'
        BY <1>1
      <3>2. \A k \in Live : SameRank(reg[k][t].owner, reg'[k][t].owner)
        BY <2>5 DEF SameRank
      <3> SUFFICES ASSUME NEW x, Told(x, t) PROVE Told(x, t)'
        OBVIOUS
      <3>3. SameRank(x, x)
        BY DEF SameRank
      <3> QED
        BY <1>0, <1>5, <2>1, <3>1, <3>2, <3>3, TellKept
    <2>8. ASSUME NEW x, Yields(x, O(i)), Unsaid(i, Base), ~Unsaid(i, Base)'
          PROVE  Told(x, t)'
      <3>1. /\ tick < Base + GossipInterval
            /\ \A k \in Live : k # i =>
                  \E n \in gossips' :
                      /\ n.to = k /\ n.sent = tick /\ n.deliver = tick
                      /\ n.owner = [u \in Tasks |-> r[u].owner]
                      /\ n.generation = [c \in Agents |-> view[i][c].generation]
        <4>1. Base = CalmFor(Start) /\ Base' = CalmFor(Start)'
          BY <1>13 DEF Base, CalmFor
        <4>2. Unsaid(i, CalmFor(Start)) /\ ~Unsaid(i, CalmFor(Start))'
          BY <2>8, <4>1 DEF Unsaid
        <4> QED
          BY <1>13, <1>18, <4>1, <4>2
      <3> SUFFICES ASSUME NEW k \in Live
                   PROVE  Yields(x, O(k)) \/ Due(k, x, t)'
        BY <1>5, <2>3, <2>5 DEF Told
      <3>2. CASE k = i
        BY <2>8, <3>2
      <3>3. CASE x \notin Live
        BY <3>3 DEF Yields
      <3>4. CASE k # i /\ x \in Live
        <4>1. PICK n \in gossips' :
                  /\ n.to = k /\ n.sent = tick /\ n.deliver = tick
                  /\ n.owner = [u \in Tasks |-> r[u].owner]
          BY <3>1, <3>4
        <4>2. n.owner[t] = O(i) /\ O(i) \in Live
          BY <2>2, <2>8, <3>4, <4>1 DEF Yields
        <4> QED
          BY <1>0, <1>5, <2>1, <2>3, <2>8, <3>1, <4>1, <4>2 DEF Due
      <3> QED
        BY <3>2, <3>3, <3>4
    <2>9. ASSUME NEW j \in Live PROVE KnownFrom(j, t)'
      <3>1. CASE Told(O(j), t)
        BY <2>5, <2>7, <3>1 DEF KnownFrom
      <3>2. CASE \E k \in Live : Yields(O(j), O(k)) /\ Unsaid(k, Base)
        <4>1. PICK k \in Live : Yields(O(j), O(k)) /\ Unsaid(k, Base)
          BY <3>2
        <4>2. CASE Unsaid(k, Base)'
          BY <1>5, <2>3, <2>5, <4>1, <4>2 DEF KnownFrom
        <4>3. CASE ~Unsaid(k, Base)'
          <5>1. k = i
            BY <2>1, <4>1, <4>3
          <5>2. \A x : Yields(x, O(i)) => Told(x, t)'
            BY <2>8, <4>1, <4>3, <5>1
          <5> QED
            BY <2>5, <4>1, <5>1, <5>2 DEF KnownFrom
        <4> QED
          BY <4>2, <4>3
      <3> QED
        BY <2>4, <3>1, <3>2 DEF KnownFrom
    <2> QED
      BY <2>6, <2>9
  <1> QED
    BY <1>9, <1>11, <1>12, <1>14, <1>16, <1>17, <1>19, <1>20 DEF Settling

\* Completions close a task; a calm end of the tick changes no open one.
LEMMA EndSettles ==
    ASSUME Inv, Timely, Settling, NEW done, NEW ts, EndTick(done, ts)
    PROVE  Settling'
  <1>0. /\ turn = N + 1 /\ turn' = 0 /\ tick \in Nat /\ TimeoutTicks \in Nat
        /\ UNCHANGED <<tick, phase, crashedAt, cut, hbs, gossips, view,
                       sinceGossip>>
        /\ crashedAt \in [Agents -> Nat] /\ gossips \subseteq Gossip
        /\ calm' = 0 \/ (calm' = calm /\ ts = {})
    BY MembershipAssumption DEF EndTick, Inv, TypeOK
  <1>1. /\ Live' = Live
        /\ \A j \in Agents : HasRead(j) /\ HasRead(j)' /\ Done(j) /\ Done(j)'
        /\ \A t \in Tasks : Lasts(t)' <=> Lasts(t)
        /\ Start' = Start /\ Start \in Nat /\ Start > 0 /\ TimeoutTicks > 0
    <2>1. Start' = Start /\ Start \in Nat /\ Start > 0 /\ TimeoutTicks > 0
      BY <1>0, StartFacts DEF Timely
    <2> QED
      BY <1>0, <2>1, MembershipAssumption DEF Live, HasRead, Done, Lasts, Agents
  <1>2. /\ calm \in Nat /\ calm <= tick /\ (calm > 0 => cut = {})
        /\ \A a \in Agents : crashedAt[a] <= tick - calm
    BY DEF Settling, CalmCount
  <1>3. ASSUME NEW j \in Agents, NEW t \in Tasks
        PROVE  /\ Plain(reg'[j][t])
               /\ reg[j][t].status = "Absent" <=> reg'[j][t].status = "Absent"
               /\ ts = {} /\ reg'[j][t].status # "Completed" => reg'[j][t] = reg[j][t]
    <2> DEFINE e == reg[j][t]
               f == IF t \in done[j] THEN Completed(e) ELSE e
               g == IF t \in ts THEN Released(f) ELSE f
    <2>1. Plain(e)
      BY DEF Settling, Entries
    <2>2. reg'[j][t] = IF j \in Live THEN g ELSE e
      BY DEF EndTick, complete_tasks, release_tasks
    <2> HIDE DEF e
    <2>3. /\ Plain(f) /\ (e.status = "Absent" <=> f.status = "Absent")
          /\ f = e \/ f.status = "Completed"
      BY <2>1 DEF Plain, Completed, Held
    <2> HIDE DEF f
    <2>4. Plain(g) /\ (f.status = "Absent" <=> g.status = "Absent")
          /\ (ts = {} => g = f)
      BY <2>3 DEF Plain, Released, Held, Unassigned
    <2> HIDE DEF g
    <2> QED
      BY <2>1, <2>2, <2>3, <2>4 DEF e
  <1>4. CalmCount'
    <2>1. \A a \in Agents : crashedAt[a] <= tick
      BY DEF Inv, Clock
    <2> QED
      BY <1>0, <1>2, <2>1 DEF Settling, CalmCount
  <1>5. ASSUME NEW m \in gossips PROVE m.sent \in Nat /\ m.deliver \in Nat
    BY <1>0 DEF Gossip
  <1>6. Mail'
    <2> SUFFICES ASSUME NEW m \in gossips, m.sent > tick - calm' PROVE m.sent > tick - calm
      BY <1>0, <1>1 DEF Settling, Mail, BeforeCrash
    <2>1. m.sent <= tick
      BY DEF Settling, Mail, BeforeCrash
    <2> QED
      BY <1>0, <1>2, <1>5, <2>1
  <1>7. Beats' /\ Waiting' /\ Sees'
    <2>1. hbs \subseteq Heartbeat
      BY DEF Inv, TypeOK
    <2>2. Beats'
      BY <1>0, <1>1, <2>1 DEF Settling, Beats, Heartbeat, Live
    <2>3. Waiting'
      BY <1>1 DEF Waiting, Live
    <2>4. Sees'
      <3>1. calm' > 0 => calm' = calm
        BY <1>0
      <3>2. calm' >= Start => calm' = calm
        BY <1>0, <1>1
      <3> QED
        BY <1>0, <1>1, <3>1, <3>2 DEF Settling, Sees, Live
    <2> QED
      BY <2>2, <2>3, <2>4
  <1>8. Entries'
    <2>1. ASSUME NEW j \in Agents, NEW t \in Tasks PROVE NotYet(j, t)' <=> NotYet(j, t)
      BY <1>0, <1>1 DEF NotYet
    <2> QED
      BY <1>1, <1>3, <2>1 DEF Settling, Entries, Live
  <1>9. Swept'
    BY <1>0, <1>1 DEF Settling, Swept, Live
  <1>10. ASSUME calm' # 0
         PROVE  /\ calm' = calm /\ ts = {} /\ Base' = Base
                /\ CalmFor(TimeoutTicks)' = CalmFor(TimeoutTicks)
                /\ \A b : \A k \in Live : Unsaid(k, b)' <=> Unsaid(k, b)
    BY <1>0, <1>1, <1>10 DEF Base, CalmFor, Unsaid, Live
  <1>11. GensSpread'
    <2> SUFFICES ASSUME calm' >= TimeoutTicks, NEW k \in Live, NEW a \in Agents \ Live
                 PROVE  GenKnownFrom(k, a)'
      BY <1>1 DEF GensSpread
    <2>1. calm' # 0
      BY <1>0, <1>1
    <2>2. \A g : GenTold(g, a) => GenTold(g, a)'
      BY <1>0, <1>1, <1>10, <2>1, GenTellKept
    <2>3. GenKnownFrom(k, a)
      BY <1>10, <2>1 DEF Settling, GensSpread
    <2> QED
      BY <1>0, <1>1, <1>10, <2>1, <2>2, <2>3 DEF GenKnownFrom
  <1>12. Spread'
    <2> SUFFICES ASSUME calm' >= Start, NEW t \in Tasks, Open(t)'
                 PROVE  Backed(t)' /\ \A k \in Live : KnownFrom(k, t)'
      BY <1>1 DEF Spread
    <2>1. calm' = calm /\ ts = {} /\ Base' = Base /\ calm >= Start
          /\ \A k \in Live : Unsaid(k, Base)' <=> Unsaid(k, Base)
      BY <1>1, <1>10 DEF Unsaid
    <2>2. \A j \in Agents : reg'[j][t] = reg[j][t]
      BY <1>3, <2>1 DEF Open
    <2>3. \A j \in Live : reg'[j][t].owner = reg[j][t].owner
      BY <2>2 DEF Live
    <2>4. Backed(t) /\ \A k \in Live : KnownFrom(k, t)
      <3>1. Open(t)
        BY <1>1, <2>2 DEF Open
      <3> QED
        BY <2>1, <3>1 DEF Settling, Spread
    <2>5. \A x, y : Yields(x, y)' <=> Yields(x, y)
      BY <1>1 DEF Yields
    <2>6. Backed(t)'
      BY <1>0, <1>1, <2>1, <2>3, <2>4, <2>5 DEF Backed
    <2>7. ASSUME NEW x, Told(x, t) PROVE Told(x, t)'
      <3>1. SameRank(x, x)
        BY DEF SameRank
      <3>2. \A j \in Live : SameRank(reg[j][t].owner, reg'[j][t].owner)
        BY <2>3 DEF SameRank
      <3> QED
        BY <1>0, <1>1, <2>1, <2>7, <3>1, <3>2, TellKept
    <2> QED
      BY <1>1, <2>1, <2>3, <2>4, <2>5, <2>6, <2>7 DEF KnownFrom
  <1> QED
    BY <1>4, <1>6, <1>7, <1>8, <1>9, <1>11, <1>12 DEF Settling

LEMMA NextSettles ==
    ASSUME Inv, Timely, Pending, Settling, [Next]_vars
    PROVE  Settling'
  <1>1. CASE Begin
    BY <1>1, BeginSettles DEF Begin
  <1>2. ASSUME NEW i \in Agents, NodeInbox(i) PROVE Settling'
    BY <1>2, InboxSettles
  <1>3. ASSUME NEW i \in Agents, NodeGossip(i) PROVE Settling'
    BY <1>3, GossipSettles
  <1>4. ASSUME NEW i \in Agents, Finish(i) PROVE Settling'
    BY <1>4, FinishSettles DEF Finish
  <1>5. CASE End
    BY <1>5, EndSettles DEF End
  <1>6. CASE UNCHANGED vars
    <2>1. /\ UNCHANGED <<tick, turn, phase, crashedAt, cut, hbs, gossips, view, reg,
                         sinceGossip, calm>>
          /\ Live' = Live /\ Base' = Base /\ Start' = Start
          /\ \A s : CalmFor(s)' = CalmFor(s)
      BY <1>6 DEF vars, Live, Base, CalmFor, Start, SettleTicks, OneGeneration
    <2>2. CalmCount' /\ Beats' /\ Mail' /\ Waiting' /\ Sees'
      BY <2>1 DEF Settling, CalmCount, Beats, Mail, Waiting, Sees, HasRead, BeforeCrash
    <2>3. Entries' /\ Swept'
      BY <2>1 DEF Settling, Entries, Swept, Lasts, NotYet, HasRead, Done
    <2>4. GensSpread'
      BY <2>1 DEF Settling, GensSpread, GenKnownFrom, GenTold, GenDue, Unsaid, Done, CalmFor
    <2>5. Spread'
      <3>1. /\ \A k, b : Unsaid(k, b)' <=> Unsaid(k, b)
            /\ \A x, y : Yields(x, y)' <=> Yields(x, y)
            /\ \A t : Open(t)' <=> Open(t)
        BY <2>1 DEF Unsaid, Done, Yields, Open, Lasts
      <3>2. \A x, t : Told(x, t)' <=> Told(x, t)
        BY <2>1, <3>1 DEF Told, Due
      <3>3. \A t : Backed(t)' <=> Backed(t)
        BY <2>1, <3>1 DEF Backed
      <3>4. \A i, t : KnownFrom(i, t)' <=> KnownFrom(i, t)
        BY <2>1, <3>1, <3>2 DEF KnownFrom
      <3> QED
        BY <2>1, <3>1, <3>3, <3>4 DEF Settling, Spread
    <2> QED
      BY <2>2, <2>3, <2>4, <2>5 DEF Settling
  <1> QED
    BY <1>1, <1>2, <1>3, <1>4, <1>5, <1>6 DEF Next

\* At the end of the last tick of the bound everything is said and read.
LEMMA SettledAgree ==
    ASSUME Inv, Timely, Settling
    PROVE  ViewsSettle
  <1> SUFFICES ASSUME turn = 0, calm >= SettleTicks,
                      NEW i \in Live, NEW j \in Live, NEW t \in Tasks,
                      \A k \in Agents : reg[k][t].status # "Completed"
               PROVE  reg[i][t].owner = reg[j][t].owner
    BY DEF ViewsSettle, ViewsAgree
  <1>0. /\ tick \in Nat /\ TimeoutTicks \in Nat /\ GossipInterval \in Nat \ {0}
        /\ calm \in Nat /\ calm <= tick /\ gossips \subseteq Gossip
        /\ Start \in Nat /\ calm >= Start + GossipInterval /\ calm >= Start
    BY StartFacts, MembershipAssumption, RuntimeAssumption
    DEF Inv, TypeOK, Settling, CalmCount
  <1>1. \A k \in Live : k \in Agents /\ HasRead(k) /\ Done(k)
    BY DEF Live, HasRead, Done
  <1>2. ASSUME NEW k \in Live
        PROVE  /\ reg[k][t].owner # NoOwner => reg[k][t].owner \in Live
               /\ reg[k][t].owner # NoOwner => reg[k][t].status = "Assigned"
    <2>1. /\ reg[k][t].owner \in Agents \cup {NoOwner}
          /\ reg[k][t].owner # NoOwner => /\ reg[k][t].status = "Assigned"
                                          /\ view[k][reg[k][t].owner].alive
      BY <1>1 DEF Inv, Owners, EntryOK, EntryType
    <2> QED
      BY <1>0, <1>1, <2>1 DEF Settling, Sees
  <1>3. CASE ~Lasts(t)
    <2>1. \A k \in Live : reg[k][t].status = "Absent"
      BY <1>1, <1>3 DEF Settling, Entries
    <2> QED
      BY <1>2, <2>1
  <1>4. CASE Lasts(t)
    <2>1. \A k \in Live : KnownFrom(k, t)
      BY <1>0, <1>4 DEF Settling, Spread, Open
    <2>2. tick - Base >= GossipInterval /\ Base \in Int /\ Base + GossipInterval <= tick
      BY <1>0 DEF Base, CalmFor
    <2>3. \A k \in Live : ~Unsaid(k, Base)
      <3> SUFFICES ASSUME NEW k \in Live PROVE ~Unsaid(k, Base)
        OBVIOUS
      <3>1. sinceGossip[k] \in Nat /\ sinceGossip[k] < GossipInterval
        BY <1>1 DEF Inv, TypeOK, Settling, CalmCount
      <3> QED
        BY <1>0, <1>1, <2>2, <3>1 DEF Unsaid
    <2>4. ASSUME NEW k \in Live, NEW x PROVE ~Due(k, x, t)
      <3> SUFFICES ASSUME NEW m \in gossips, m.to = k, m.deliver <= tick,
                          m.sent < Base + GossipInterval
                   PROVE  FALSE
        BY DEF Due
      <3>1. m.sent \in Nat /\ m.deliver \in Nat
        BY <1>0 DEF Gossip
      <3>2. m.sent < tick => m.deliver > tick
        BY <1>1 DEF Settling, Swept
      <3> QED
        BY <1>0, <2>2, <3>1, <3>2
    <2>5. \A k, l \in Live : Yields(reg[k][t].owner, reg[l][t].owner)
      BY <2>1, <2>3, <2>4 DEF KnownFrom, Told
    <2>6. CASE reg[i][t].owner \in Live \/ reg[j][t].owner \in Live
      <3>1. reg[i][t].owner \in Live /\ reg[j][t].owner \in Live
        BY <2>5, <2>6 DEF Yields
      <3> QED
        BY <2>5, <3>1, YieldsOrder
    <2>7. CASE reg[i][t].owner \notin Live /\ reg[j][t].owner \notin Live
      BY <1>2, <2>7
    <2> QED
      BY <2>6, <2>7
  <1> QED
    BY <1>3, <1>4

\* Gossip settles, for any number of agents and tasks, any generations and
\* whatever happened before the calm: crashes, cuts, exhausted batteries,
\* releases, late and lost messages.  After SettleTicks calm ticks all live
\* nodes agree on the owner of every task that nobody completed.
THEOREM ViewsConverge == Spec => []ViewsSettle
  <1>1. Init => (Timely => Settling)
    BY InitSettles
  <1>2. Inv /\ Pending /\ (Timely => Settling) /\ [Next]_vars => (Timely => Settling)'
    <2>1. Timely' <=> Timely
      BY DEF Timely
    <2> QED
      BY <2>1, NextSettles
  <1>3. Inv /\ (Timely => Settling) => ViewsSettle
    <2>1. ~Timely => ViewsSettle
      BY DEF ViewsSettle
    <2> QED
      BY <2>1, SettledAgree
  <1> QED
    BY <1>1, <1>2, <1>3, Invariance, AlwaysPending, PTL DEF Spec

=============================================================================
