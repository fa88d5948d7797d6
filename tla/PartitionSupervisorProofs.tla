--------------------- MODULE PartitionSupervisorProofs ---------------------
(***************************************************************************)
(* Theorems about PartitionSupervisor, for any agents, links, leases and   *)
(* partition events.                                                       *)
(*                                                                         *)
(* The inductive invariant adds to the type invariant that every report    *)
(* covers the agents that are alive (Covering) and that in a tidy history  *)
(* no fewer reports are open than links are cut (Recorded).  What a        *)
(* reconciliation decides rests on LosersFacts: those who keep a lease are *)
(* one agent, and that agent loses none.                                   *)
(***************************************************************************)
EXTENDS PartitionSupervisor, WellFoundedInduction, FiniteSetTheorems, SequenceTheorems, TLAPS

\* A non-empty set of natural numbers has a least element.
LEMMA LeastElement ==
    ASSUME NEW S, S \subseteq Nat, S # {}
    PROVE  \E i \in S : \A j \in S : i <= j
  <1>1. PICK m \in S : ~ (\E y \in S : <<y, m>> \in OpToRel(<, Nat))
    BY NatLessThanWellFounded, WFMin, Zenon
  <1>2. \A y \in S : ~ (y < m)
    BY <1>1 DEF OpToRel
  <1> QED
    BY <1>2

Report == [open : BOOLEAN, affected_agents : SUBSET Agents]

OpenIn(q) == {i \in DOMAIN q : q[i].open}

\* Every report is about all the agents that are still alive.
Covering == \A i \in DOMAIN reports : Alive \subseteq reports[i].affected_agents

\* Every link that is cut is accounted for by an open report of its own.
Recorded ==
    /\ IsFiniteSet(pairs)
    /\ tidy => Cardinality(pairs) <= Cardinality(OpenIn(reports))

\* The leases of resource r that agents in A hold and that run at tick t.
Contenders(L, A, t, r) ==
    UNION {{a} \X {l \in L[a] : l.resource = r /\ t < l.expiry} : a \in A}

-----------------------------------------------------------------------------
\* The operators.

LEMMA InContenders ==
    ASSUME NEW L, NEW A, NEW t, NEW r, NEW c
    PROVE  c \in Contenders(L, A, t, r) <=>
               \E a \in A : \E l \in L[a] : c = <<a, l>> /\ l.resource = r /\ t < l.expiry
  <1>1. ASSUME c \in Contenders(L, A, t, r)
        PROVE  \E a \in A : \E l \in L[a] : c = <<a, l>> /\ l.resource = r /\ t < l.expiry
    <2>1. PICK a \in A : c \in {a} \X {l \in L[a] : l.resource = r /\ t < l.expiry}
      BY <1>1 DEF Contenders
    <2> QED
      BY <2>1
  <1>2. ASSUME NEW a \in A, NEW l \in L[a], c = <<a, l>>, l.resource = r, t < l.expiry
        PROVE  c \in Contenders(L, A, t, r)
    <2>1. c \in {a} \X {m \in L[a] : m.resource = r /\ t < m.expiry}
      BY <1>2
    <2> QED
      BY <2>1 DEF Contenders
  <1> QED
    BY <1>1, <1>2

LEMMA ContendersFinite ==
    ASSUME NEW L \in [Agents -> SUBSET Leases], NEW A \in SUBSET Agents, NEW t, NEW r
    PROVE  /\ Contenders(L, A, t, r) \subseteq Agents \X Leases
           /\ IsFiniteSet(Contenders(L, A, t, r))
  <1>1. Contenders(L, A, t, r) \subseteq Agents \X Leases
    BY DEF Contenders
  <1>2. IsFiniteSet(Agents \X Leases)
    BY SupervisorAssumption, FS_Product
  <1> QED
    BY <1>1, <1>2, FS_Subset

\* Of a finite set of contenders some are the oldest.
LEMMA OldestExists ==
    ASSUME NEW C, C \subseteq Agents \X Leases, C # {}
    PROVE  Oldest(C) # {}
  <1> DEFINE G == {c[2].granted : c \in C}
  <1>0. \A c \in C : c[2] \in Leases
    OBVIOUS
  <1>1. G \subseteq Nat /\ G # {}
    BY <1>0, SupervisorAssumption
  <1>2. PICK g \in G : \A h \in G : g <= h
    BY <1>1, LeastElement
  <1>3. PICK c \in C : g = c[2].granted
    OBVIOUS
  <1>4. \A d \in C : d[2].granted \in G
    OBVIOUS
  <1>5. c \in Oldest(C)
    BY <1>2, <1>3, <1>4 DEF Oldest
  <1> QED
    BY <1>5

LEMMA AtMostOne ==
    ASSUME NEW S, IsFiniteSet(S)
    PROVE  Cardinality(S) <= 1 <=> \A x, y \in S : x = y
  <1>0. Cardinality(S) \in Nat
    BY FS_CardinalityType
  <1>1. CASE S = {}
    BY <1>1, FS_EmptySet
  <1>2. CASE S # {}
    <2>1. PICK x \in S : TRUE
      BY <1>2
    <2>2. Cardinality(S) # 0
      BY <1>2, FS_EmptySet
    <2>3. Cardinality(S) = 1 <=> \E z : S = {z}
      BY FS_Singleton
    <2>4. (\E z : S = {z}) <=> \A y, z \in S : y = z
      BY <2>1
    <2> QED
      BY <1>0, <2>2, <2>3, <2>4
  <1> QED
    BY <1>1, <1>2

\* What the reconciliation of one resource decides.
LEMMA LosersFacts ==
    ASSUME NEW C, C \subseteq Agents \X Leases, IsFiniteSet(C)
    PROVE  /\ Losers(C) \subseteq C
           /\ \A c, d \in C \ Losers(C) : c[1] = d[1]
           /\ \A c \in C \ Losers(C), d \in Losers(C) : c[1] # d[1]
           /\ \A c \in Losers(C), d \in C : d[1] = c[1] =>
                  \E w \in C : w # d /\ w[2].granted <= d[2].granted
  <1>0. Oldest(C) \subseteq C /\ IsFiniteSet(Oldest(C))
    <2>1. Oldest(C) \subseteq C
      BY DEF Oldest
    <2> QED
      BY <2>1, FS_Subset
  <1>1. CASE Cardinality(C) <= 1
    <2>1. Losers(C) = {}
      BY <1>1 DEF Losers
    <2> QED
      BY <1>1, <2>1, AtMostOne
  <1>2. CASE ~(Cardinality(C) <= 1) /\ Cardinality(Oldest(C)) > 1
    <2>1. Losers(C) = C
      BY <1>2 DEF Losers
    <2>2. Cardinality(Oldest(C)) \in Nat
      BY <1>0, FS_CardinalityType
    <2>3. PICK x, y \in Oldest(C) : x # y
      BY <1>0, <1>2, <2>2, AtMostOne
    <2>4. \A d \in C : x[2].granted <= d[2].granted /\ y[2].granted <= d[2].granted
      BY <2>3 DEF Oldest
    <2>5. x \in C /\ y \in C
      BY <1>0
    <2> QED
      BY <2>1, <2>3, <2>4, <2>5
  <1>3. CASE ~(Cardinality(C) <= 1) /\ ~(Cardinality(Oldest(C)) > 1)
    <2>1. Losers(C) = {c \in C : \A w \in Oldest(C) : c[1] # w[1]}
      BY <1>3 DEF Losers
    <2>2. C # {}
      BY <1>3, FS_EmptySet
    <2>3. PICK w \in Oldest(C) : TRUE
      BY <2>2, OldestExists
    <2>4. \A x, y \in Oldest(C) : x = y
      BY <1>0, <1>3, AtMostOne, FS_CardinalityType
    <2>5. Losers(C) = {c \in C : c[1] # w[1]}
      BY <2>1, <2>3, <2>4
    <2>6. w \in C /\ \A d \in C : w[2].granted <= d[2].granted
      BY <2>3 DEF Oldest
    <2> QED
      BY <2>5, <2>6
  <1> QED
    BY <1>1, <1>2, <1>3

-----------------------------------------------------------------------------
\* Types.

\* A list of partition events is a sequence of links.
LEMMA PairListsType ==
    ASSUME NEW m \in Int, NEW q \in PairLists(m)
    PROVE  q \in Seq(Pairs) /\ Len(q) \in 0 .. m
  <1>1. PICK n \in 0 .. m : q \in [1 .. n -> Pairs]
    BY DEF PairLists
  <1> QED
    BY <1>1

\* Closing reports changes no report but by closing it, and closes at most one.
LEMMA CloseFacts ==
    ASSUME reports \in Seq(Report), NEW p
    PROVE  /\ Close(p) \in Seq(Report) /\ DOMAIN Close(p) = DOMAIN reports
           /\ \A i \in DOMAIN reports : Close(p)[i].affected_agents = reports[i].affected_agents
           /\ \E x : OpenIn(reports) \ {x} \subseteq OpenIn(Close(p))
  <1>1. \A i \in DOMAIN reports : reports[i] \in Report /\ DOMAIN reports = 1 .. Len(reports)
    BY LenProperties
  <1>2. \A i \in DOMAIN reports : [reports[i] EXCEPT !.open = FALSE] \in Report
    BY <1>1 DEF Report
  <1>3. \A i \in DOMAIN reports : Close(p)[i] \in Report
    BY <1>1, <1>2 DEF Close
  <1>4. Close(p) \in [1 .. Len(reports) -> Report]
    BY <1>1, <1>3, LenProperties DEF Close
  <1>5. Close(p) \in Seq(Report)
    BY <1>4, LenProperties
  <1>6. \A i \in DOMAIN reports : Close(p)[i].affected_agents = reports[i].affected_agents
    BY <1>1 DEF Close, Report
  <1>7. \E x : OpenIn(reports) \ {x} \subseteq OpenIn(Close(p))
    <2> DEFINE Shut(i) == i \in ClosedBy(p) /\ \A j \in ClosedBy(p) : j <= i
    <2>1. ClosedBy(p) \subseteq Nat
      BY LenProperties DEF ClosedBy
    <2>2. \A i, j : Shut(i) /\ Shut(j) => i = j
      BY <2>1
    <2>3. \A i \in DOMAIN reports : ~Shut(i) => Close(p)[i] = reports[i]
      BY DEF Close
    <2>4. DOMAIN Close(p) = DOMAIN reports
      BY DEF Close
    <2> HIDE DEF Shut
    <2>5. \E x : \A i : Shut(i) => i = x
      BY <2>2
    <2> QED
      BY <2>3, <2>4, <2>5 DEF OpenIn
  <1> QED
    BY <1>5, <1>6, <1>7 DEF Close

LEMMA TypeInit == Init => TypeOK
  <1> SUFFICES ASSUME Init PROVE TypeOK
    OBVIOUS
  <1>1. leases \in [Agents -> SUBSET Leases]
    BY SupervisorAssumption DEF Init
  <1>2. /\ added \in Seq(Pairs) /\ healed \in Seq(Pairs)
        /\ reports \in Seq([open : BOOLEAN, affected_agents : SUBSET Agents])
    BY EmptySeq DEF Init
  <1>3. result.tick = Never /\ tick \in 0 .. MaxTick
    BY SupervisorAssumption DEF Init
  <1> QED
    BY <1>1, <1>2, <1>3 DEF Init, TypeOK

LEMMA TypeStep == TypeOK /\ [Next]_vars => TypeOK'
  <1> SUFFICES ASSUME TypeOK, [Next]_vars PROVE TypeOK'
    OBVIOUS
  <1>1. ASSUME NEW f \in SUBSET Alive, NEW cut \in PairLists(MaxEvents),
               NEW heal \in PairLists(MaxEvents - Len(cut)), BeginTick(f, cut, heal)
        PROVE  TypeOK'
    <2>1. cut \in Seq(Pairs) /\ Len(cut) \in 0 .. MaxEvents
      BY SupervisorAssumption, PairListsType
    <2>2. heal \in Seq(Pairs)
      BY <2>1, SupervisorAssumption, PairListsType
    <2> QED
      BY <1>1, <2>1, <2>2, SupervisorAssumption DEF TypeOK, BeginTick, Alive, Never
  <1>2. CASE handle_partition_activation
    <2>1. Head(added) \in Pairs /\ Tail(added) \in Seq(Pairs)
      BY <1>2, HeadTailProperties DEF TypeOK, handle_partition_activation
    <2>2. [open |-> TRUE, affected_agents |-> Alive] \in Report
      BY DEF Report, Alive
    <2>3. reports' \in Seq(Report)
      BY <1>2, <2>2, AppendProperties DEF TypeOK, handle_partition_activation, Report
    <2> QED
      BY <1>2, <2>1, <2>3 DEF TypeOK, handle_partition_activation, Report
  <1>3. CASE handle_partition_heal
    <2>1. Tail(healed) \in Seq(Pairs)
      BY <1>3, HeadTailProperties DEF TypeOK, handle_partition_heal
    <2>2. reports' \in Seq(Report)
      BY <1>3, CloseFacts DEF TypeOK, handle_partition_heal, Report
    <2>3. leases' \in [Agents -> SUBSET Leases]
      BY <1>3 DEF TypeOK, handle_partition_heal
    <2>4. result'.tick \in {Never} \cup (0 .. tick')
      BY <1>3 DEF TypeOK, handle_partition_heal
    <2> QED
      BY <1>3, <2>1, <2>2, <2>3, <2>4 DEF TypeOK, handle_partition_heal, Report
  <1>4. CASE handle_node_failures
    BY <1>4 DEF TypeOK, handle_node_failures
  <1>5. CASE UNCHANGED vars
    BY <1>5 DEF TypeOK, vars
  <1> QED
    BY <1>1, <1>2, <1>3, <1>4, <1>5 DEF Next

\* Whatever the configuration schedules, the supervisor's state keeps its type
\* and no reconciliation is dated after the current tick.
THEOREM TypeCorrect == Spec => []TypeOK
  BY TypeInit, TypeStep, PTL DEF Spec

-----------------------------------------------------------------------------
\* Authority over the leases.

LEMMA ContendersHere ==
    ASSUME NEW r
    PROVE  /\ current_valid_leases(r) = Contenders(leases, Alive, tick, r)
           /\ current_valid_leases(r)' = Contenders(leases', Alive', tick', r)
  BY DEF current_valid_leases, is_valid_at_tick, Contenders

LEMMA CurrentFinite ==
    ASSUME TypeOK, NEW r
    PROVE  current_valid_leases(r) \subseteq Agents \X Leases /\ IsFiniteSet(current_valid_leases(r))
  <1>1. leases \in [Agents -> SUBSET Leases] /\ Alive \in SUBSET Agents
    BY DEF TypeOK, Alive
  <1> QED
    BY <1>1, ContendersHere, ContendersFinite

\* Leases are only taken away and agents only fail: between heals nobody
\* gains authority.
LEMMA NobodyGains ==
    ASSUME TypeOK, TypeOK', NEW r, tick <= tick', Alive' \subseteq Alive,
           \A a \in Alive' : leases'[a] \subseteq leases[a]
    PROVE  current_valid_leases(r)' \subseteq current_valid_leases(r)
  <1> SUFFICES ASSUME NEW c \in Contenders(leases', Alive', tick', r)
               PROVE  c \in Contenders(leases, Alive, tick, r)
    BY ContendersHere
  <1>1. PICK a, l : a \in Alive' /\ l \in leases'[a] /\ c = <<a, l>> /\ l.resource = r /\ tick' < l.expiry
    BY InContenders
  <1>2. l \in leases[a] /\ l \in Leases /\ a \in Alive
    BY <1>1 DEF TypeOK, Alive
  <1>3. l.expiry \in Nat
    BY <1>2, SupervisorAssumption
  <1>4. tick < l.expiry
    BY <1>1, <1>3, SupervisorAssumption DEF TypeOK
  <1> QED
    BY <1>1, <1>2, <1>4, InContenders

\* A heal leaves exactly the contenders that did not lose.
LEMMA HealKeepsWinners ==
    ASSUME TypeOK, handle_partition_heal, NEW r \in Resources
    PROVE  current_valid_leases(r)' = current_valid_leases(r) \ Losers(current_valid_leases(r))
  <1> DEFINE C(s) == Contenders(leases, Alive, tick, s)
  <1>0. leases \in [Agents -> SUBSET Leases] /\ Alive \in SUBSET Agents
    BY DEF TypeOK, Alive
  <1>1. AllLosers = UNION {Losers(C(s)) : s \in Resources}
    BY ContendersHere DEF AllLosers
  <1>2. Alive' = Alive /\ tick' = tick
    BY DEF handle_partition_heal, Alive
  <1>3. \A s : C(s) \subseteq Agents \X Leases /\ IsFiniteSet(C(s))
    BY <1>0, ContendersFinite
  <1>4. \A a \in Alive : leases'[a] =
            {l \in leases[a] : \A c \in AllLosers :
                c[1] = a => c[2].id # l.id \/ c[2].resource # l.resource}
    BY <1>0 DEF handle_partition_heal
  <1>5. ASSUME NEW c \in Contenders(leases', Alive', tick', r)
        PROVE  c \in C(r) /\ c \notin Losers(C(r))
    <2>1. PICK a, l : a \in Alive /\ l \in leases'[a] /\ c = <<a, l>> /\ l.resource = r /\ tick < l.expiry
      BY <1>2, <1>5, InContenders
    <2>2. l \in leases[a]
      BY <1>4, <2>1
    <2>3. c \in C(r)
      BY <2>1, <2>2, InContenders
    <2>4. ASSUME c \in Losers(C(r)) PROVE FALSE
      <3>1. c \in AllLosers
        BY <1>1, <2>4
      <3>2. c[1] = a /\ c[2] = l
        BY <2>1
      <3> QED
        BY <1>4, <2>1, <3>1, <3>2
    <2> QED
      BY <2>3, <2>4
  <1>6. ASSUME NEW c \in C(r), c \notin Losers(C(r))
        PROVE  c \in Contenders(leases', Alive', tick', r)
    <2>1. PICK a, l : a \in Alive /\ l \in leases[a] /\ c = <<a, l>> /\ l.resource = r /\ tick < l.expiry
      BY InContenders
    <2>2. ASSUME NEW d \in AllLosers, d[1] = a, d[2].resource = l.resource PROVE FALSE
      <3>1. PICK s \in Resources : d \in Losers(C(s))
        BY <1>1
      <3>2. d \in C(s)
        BY <1>3, <3>1, LosersFacts
      <3>3. s = r
        <4>1. PICK b, m : b \in Alive /\ m \in leases[b] /\ d = <<b, m>> /\ m.resource = s
          BY <3>2, InContenders
        <4> QED
          BY <2>1, <2>2, <4>1
      <3>4. c[1] # d[1]
        <4>1. c \in C(r) \ Losers(C(r)) /\ d \in Losers(C(r))
          BY <1>6, <3>1, <3>3
        <4> QED
          BY <1>3, <4>1, LosersFacts
      <3> QED
        BY <2>1, <2>2, <3>4
    <2>3. l \in leases'[a]
      BY <1>4, <2>1, <2>2
    <2> QED
      BY <1>2, <2>1, <2>3, InContenders
  <1> QED
    BY <1>5, <1>6, ContendersHere

\* No step but a heal gives anybody authority.
LEMMA OtherSteps ==
    ASSUME TypeOK, [Next]_vars, ~handle_partition_heal
    PROVE  /\ tick <= tick' /\ Alive' \subseteq Alive /\ result' = result
           /\ \A a \in Alive' : leases'[a] = leases[a]
           /\ tick' = tick => Alive' = Alive
  <1>1. ASSUME NEW f \in SUBSET Alive, NEW cut \in PairLists(MaxEvents),
               NEW heal \in PairLists(MaxEvents - Len(cut)), BeginTick(f, cut, heal)
        PROVE  /\ tick <= tick' /\ Alive' \subseteq Alive /\ result' = result
               /\ leases' = leases
               /\ tick' # tick
    BY <1>1 DEF BeginTick, TypeOK, Alive
  <1>2. CASE handle_partition_activation
    BY <1>2 DEF handle_partition_activation, TypeOK, Alive
  <1>3. CASE handle_node_failures
    <2>1. \A a \in Alive : leases'[a] = leases[a]
      BY <1>3 DEF handle_node_failures, TypeOK, Alive
    <2> QED
      BY <1>3, <2>1 DEF handle_node_failures, TypeOK, Alive
  <1>4. CASE UNCHANGED vars
    BY <1>4 DEF vars, TypeOK, Alive
  <1> QED
    BY <1>1, <1>2, <1>3, <1>4 DEF Next

LEMMA SplitBrainStep ==
    TypeOK /\ TypeOK' /\ SplitBrainEnds /\ [Next]_vars => SplitBrainEnds'
  <1> SUFFICES ASSUME TypeOK, TypeOK', SplitBrainEnds, [Next]_vars, result'.tick # Never,
                      NEW r \in Resources, NEW c \in current_valid_leases(r)',
                      NEW d \in current_valid_leases(r)'
               PROVE  c[1] = d[1]
    BY DEF SplitBrainEnds, Holders, Resources
  <1>1. CASE handle_partition_heal
    <2> DEFINE C == current_valid_leases(r)
    <2>1. C \subseteq Agents \X Leases /\ IsFiniteSet(C)
      BY CurrentFinite
    <2>2. c \in C \ Losers(C) /\ d \in C \ Losers(C)
      BY <1>1, HealKeepsWinners
    <2> HIDE DEF C
    <2> QED
      BY <2>1, <2>2, LosersFacts
  <1>2. CASE ~handle_partition_heal
    <2>1. c \in current_valid_leases(r) /\ d \in current_valid_leases(r)
      BY <1>2, OtherSteps, NobodyGains
    <2>2. result.tick # Never
      BY <1>2, OtherSteps
    <2> QED
      BY <2>1, <2>2 DEF SplitBrainEnds, Holders
  <1> QED
    BY <1>1, <1>2

\* Once a link has healed, no two live agents have authority over one
\* resource (handle_partition_heal), however many agents contended for it.
THEOREM SplitBrainOver == Spec => []SplitBrainEnds
  <1>1. Init => SplitBrainEnds
    BY DEF Init, SplitBrainEnds
  <1> QED
    BY <1>1, SplitBrainStep, TypeCorrect, PTL DEF Spec

LEMMA AcceptedStep ==
    TypeOK /\ TypeOK' /\ AcceptedHasOwner /\ [Next]_vars => AcceptedHasOwner'
  <1> SUFFICES ASSUME TypeOK, TypeOK', AcceptedHasOwner, [Next]_vars, result'.tick = tick'
               PROVE  result'.accepted = {r \in Resources : Holders(r)' # {}}
    BY DEF AcceptedHasOwner, Resources
  <1>0. \A r : Holders(r)' # {} <=> current_valid_leases(r)' # {}
    BY DEF Holders
  <1>1. CASE handle_partition_heal
    <2>1. result'.accepted = Accepted
      BY <1>1 DEF handle_partition_heal
    <2>2. \A r \in Resources : current_valid_leases(r)' # {} <=>
              current_valid_leases(r) \ Losers(current_valid_leases(r)) # {}
      BY <1>1, HealKeepsWinners
    <2> QED
      BY <1>0, <2>1, <2>2 DEF Accepted
  <1>2. CASE ~handle_partition_heal
    <2>1. result' = result /\ tick <= tick'
      BY <1>2, OtherSteps
    <2>2. result.tick \in {Never} \cup (0 .. tick) /\ tick \in Nat /\ tick' \in Nat
      BY SupervisorAssumption DEF TypeOK
    <2>3. tick' = tick /\ Alive' = Alive
      BY <1>2, <2>1, <2>2, OtherSteps DEF Never
    <2>4. \A a \in Alive : leases'[a] = leases[a]
      BY <1>2, <2>3, OtherSteps
    <2>5. \A r : current_valid_leases(r)' = current_valid_leases(r)
      BY <2>3, <2>4 DEF current_valid_leases, is_valid_at_tick
    <2>6. \A r : Holders(r) # {} <=> current_valid_leases(r) # {}
      BY DEF Holders
    <2> QED
      BY <1>0, <2>1, <2>3, <2>5, <2>6 DEF AcceptedHasOwner
  <1> QED
    BY <1>1, <1>2

\* In the tick of a heal its report names as accepted exactly the resources
\* that some live agent has authority over, later heals and the failures of
\* the tick included (handle_partition_heal, handle_node_failures).
THEOREM AcceptedOwned == Spec => []AcceptedHasOwner
  <1>1. Init => AcceptedHasOwner
    BY DEF Init, AcceptedHasOwner, Never
  <1> QED
    BY <1>1, AcceptedStep, TypeCorrect, PTL DEF Spec

\* A running lease that a live agent loses is lost in a heal, to another
\* contender that is not younger, and the report of the heal says so
\* (handle_partition_heal).
THEOREM RevocationJustified == Spec => RevokedForCause
  <1>1. ASSUME TypeOK, [Next]_vars, NEW a \in Alive', NEW l \in leases[a] \ leases'[a],
               tick < l.expiry
        PROVE  /\ l.resource \in result'.rejected
               /\ \E c \in current_valid_leases(l.resource) :
                      c # <<a, l>> /\ c[2].granted <= l.granted
    <2>1. handle_partition_heal
      BY <1>1, OtherSteps
    <2>2. a \in Alive /\ a \in Agents
      BY <2>1 DEF handle_partition_heal, Alive
    <2>3. PICK c \in AllLosers : c[1] = a /\ c[2].id = l.id /\ c[2].resource = l.resource
      BY <2>1, <2>2 DEF handle_partition_heal
    <2>4. PICK r \in Resources : c \in Losers(current_valid_leases(r))
      BY DEF AllLosers
    <2> DEFINE C == current_valid_leases(r)
    <2>5. C \subseteq Agents \X Leases /\ IsFiniteSet(C)
      BY <1>1, CurrentFinite
    <2>6. c \in C
      BY <2>4, <2>5, LosersFacts
    <2>7. c[2].resource = r
      <3>1. c \in Contenders(leases, Alive, tick, r)
        BY <2>6, ContendersHere
      <3>2. PICK b, m : c = <<b, m>> /\ m.resource = r
        BY <3>1, InContenders
      <3> QED
        BY <3>2
    <2>8. <<a, l>> \in C
      <3>1. <<a, l>> \in Contenders(leases, Alive, tick, r)
        BY <1>1, <2>2, <2>3, <2>7, InContenders
      <3> QED
        BY <3>1, ContendersHere
    <2>9. \E w \in C : w # <<a, l>> /\ w[2].granted <= <<a, l>>[2].granted
      <3> HIDE DEF C
      <3>1. c \in Losers(C) /\ <<a, l>>[1] = c[1]
        BY <2>3, <2>4 DEF C
      <3> QED
        BY <2>5, <2>8, <3>1, LosersFacts
    <2>10. l.resource \in result'.rejected
      BY <2>1, <2>3 DEF handle_partition_heal
    <2> QED
      BY <2>3, <2>7, <2>9, <2>10
  <1>2. TypeOK /\ [Next]_vars =>
            \A a \in Alive' : \A l \in leases[a] \ leases'[a] :
                is_valid_at_tick(l) =>
                    /\ l.resource \in result'.rejected
                    /\ \E c \in current_valid_leases(l.resource) :
                           c # <<a, l>> /\ c[2].granted <= l.granted
    BY <1>1 DEF is_valid_at_tick
  <1> QED
    BY <1>2, TypeCorrect, PTL DEF Spec, RevokedForCause

-----------------------------------------------------------------------------
\* The partition reports.

LEMMA ReportsInit == Init => Covering /\ Recorded
  <1> SUFFICES ASSUME Init PROVE Covering /\ Recorded
    OBVIOUS
  <1>1. DOMAIN reports = {} /\ pairs = {}
    BY DEF Init
  <1>2. OpenIn(reports) = {}
    BY <1>1 DEF OpenIn
  <1> QED
    BY <1>1, <1>2, FS_EmptySet DEF Covering, Recorded

\* The open reports are finitely many.
LEMMA OpenFinite ==
    ASSUME NEW q \in Seq(Report)
    PROVE  IsFiniteSet(OpenIn(q)) /\ OpenIn(q) \subseteq 1 .. Len(q)
  <1>1. OpenIn(q) \subseteq 1 .. Len(q) /\ Len(q) \in Nat
    BY LenProperties DEF OpenIn
  <1>2. IsFiniteSet(1 .. Len(q))
    BY <1>1, FS_Interval
  <1> QED
    BY <1>1, <1>2, FS_Subset

LEMMA ActivationOnRecord ==
    ASSUME TypeOK, Covering, Recorded, handle_partition_activation
    PROVE  Covering' /\ Recorded'
  <1> DEFINE new == [open |-> TRUE, affected_agents |-> Alive]
             n == Len(reports) + 1
             p == Head(added)
  <1>0. reports \in Seq(Report) /\ new \in Report /\ reports' = Append(reports, new)
    BY DEF TypeOK, Report, Alive, handle_partition_activation
  <1>1. /\ DOMAIN reports = 1 .. Len(reports) /\ Len(reports) \in Nat
        /\ DOMAIN reports' = 1 .. n
        /\ \A i \in 1 .. Len(reports) : reports'[i] = reports[i]
        /\ reports'[n] = new
    BY <1>0, AppendProperties, LenProperties
  <1>2. Covering'
    <2>1. Alive' = Alive
      BY DEF handle_partition_activation, Alive
    <2>2. \A i \in 1 .. n : i \in 1 .. Len(reports) \/ i = n
      BY <1>1
    <2> QED
      BY <1>1, <2>1, <2>2 DEF Covering
  <1>3. OpenIn(reports') = OpenIn(reports) \cup {n} /\ n \notin OpenIn(reports)
    <2>1. 1 .. n = (1 .. Len(reports)) \cup {n} /\ n \notin 1 .. Len(reports)
      BY <1>1
    <2> QED
      BY <1>1, <2>1 DEF OpenIn
  <1>4. Cardinality(OpenIn(reports')) = Cardinality(OpenIn(reports)) + 1
    BY <1>0, <1>3, OpenFinite, FS_AddElement
  <1>5. IsFiniteSet(pairs') /\ (tidy' => tidy /\ Cardinality(pairs') = Cardinality(pairs) + 1)
    BY FS_AddElement DEF handle_partition_activation, Recorded
  <1>6. /\ Cardinality(OpenIn(reports)) \in Nat
        /\ Cardinality(pairs) \in Nat
    BY <1>0, OpenFinite, FS_CardinalityType DEF Recorded
  <1>7. Recorded'
    BY <1>4, <1>5, <1>6 DEF Recorded
  <1> QED
    BY <1>2, <1>7

LEMMA HealOnRecord ==
    ASSUME TypeOK, Covering, Recorded, handle_partition_heal
    PROVE  Covering' /\ Recorded'
  <1> DEFINE p == Head(healed)
  <1>0. reports \in Seq(Report) /\ reports' = Close(p)
    BY DEF TypeOK, Report, handle_partition_heal
  <1>1. Covering'
    <2>1. Alive' = Alive
      BY DEF handle_partition_heal, Alive
    <2> QED
      BY <1>0, <2>1, CloseFacts DEF Covering
  <1>2. PICK x : OpenIn(reports) \ {x} \subseteq OpenIn(reports')
    BY <1>0, CloseFacts
  <1>3. /\ IsFiniteSet(OpenIn(reports)) /\ IsFiniteSet(OpenIn(reports'))
        /\ Cardinality(OpenIn(reports)) \in Nat /\ Cardinality(OpenIn(reports')) \in Nat
        /\ Cardinality(pairs) \in Nat
    <2>1. reports' \in Seq(Report)
      BY <1>0, CloseFacts
    <2> QED
      BY <1>0, <2>1, OpenFinite, FS_CardinalityType DEF Recorded
  <1>4. Cardinality(OpenIn(reports)) - 1 <= Cardinality(OpenIn(reports'))
    <2>1. /\ Cardinality(OpenIn(reports) \ {x}) <= Cardinality(OpenIn(reports'))
      BY <1>2, <1>3, FS_Subset
    <2>2. Cardinality(OpenIn(reports) \ {x}) >= Cardinality(OpenIn(reports)) - 1
      BY <1>3, FS_RemoveElement
    <2>3. Cardinality(OpenIn(reports) \ {x}) \in Int
      BY <1>3, FS_RemoveElement
    <2> QED
      BY <1>3, <2>1, <2>2, <2>3
  <1>5. IsFiniteSet(pairs') /\ (tidy' => tidy /\ Cardinality(pairs') = Cardinality(pairs) - 1)
    BY FS_RemoveElement DEF handle_partition_heal, Recorded
  <1>6. Recorded'
    BY <1>3, <1>4, <1>5 DEF Recorded
  <1> QED
    BY <1>1, <1>6

LEMMA ReportsStep ==
    TypeOK /\ Covering /\ Recorded /\ [Next]_vars => Covering' /\ Recorded'
  <1> SUFFICES ASSUME TypeOK, Covering, Recorded, [Next]_vars PROVE Covering' /\ Recorded'
    OBVIOUS
  <1>1. ASSUME NEW f \in SUBSET Alive, NEW cut \in PairLists(MaxEvents),
               NEW heal \in PairLists(MaxEvents - Len(cut)), BeginTick(f, cut, heal)
        PROVE  Covering' /\ Recorded'
    BY <1>1 DEF BeginTick, Covering, Recorded, Alive
  <1>2. CASE handle_node_failures
    BY <1>2 DEF handle_node_failures, Covering, Recorded, Alive
  <1>3. CASE UNCHANGED vars
    BY <1>3 DEF vars, Covering, Recorded, Alive
  <1> QED
    BY <1>1, <1>2, <1>3, ActivationOnRecord, HealOnRecord DEF Next

\* As long as a link is cut some open report covers every live agent,
\* although handle_partition_heal closes the latest report and not the one
\* of its link: heals and cuts of a tidy history pair up one to one.
THEOREM CutOnRecord == Spec => []PartitionOnRecord
  <1>1. TypeOK /\ Covering /\ Recorded => PartitionOnRecord
    <2> SUFFICES ASSUME TypeOK, Covering, Recorded, tidy, pairs # {}
                 PROVE  \E i \in DOMAIN reports :
                            reports[i].open /\ Alive \subseteq reports[i].affected_agents
      BY DEF PartitionOnRecord
    <2>1. Cardinality(pairs) \in Nat /\ Cardinality(pairs) # 0
      BY FS_CardinalityType, FS_EmptySet DEF Recorded
    <2>2. OpenIn(reports) # {}
      BY <2>1, FS_EmptySet DEF Recorded
    <2> QED
      BY <2>2 DEF OpenIn, Covering
  <1> QED
    BY <1>1, ReportsInit, ReportsStep, TypeCorrect, PTL DEF Spec

=============================================================================
