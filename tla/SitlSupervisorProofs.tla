------------------------ MODULE SitlSupervisorProofs ------------------------
(***************************************************************************)
(* Theorems about SitlSupervisor, for any number of agents and tasks, any  *)
(* manifest, any patience, any queue and any number of faults.             *)
(*                                                                         *)
(* The inductive invariant has four layers: every controller fits its      *)
(* vehicle and the telemetry between them (Fitted), the supervisor's       *)
(* variables fit the phase it is in (Phased, Opening, Ending), no task     *)
(* gets lost (Owning, NoneLost), and no task is with two agents (Apart).   *)
(***************************************************************************)
EXTENDS SitlSupervisor, WellFoundedInduction, FiniteSetTheorems, SequenceTheorems, TLAPS

\* A non-empty set of natural numbers has a least element.
LEMMA LeastElement ==
    ASSUME NEW S, S \subseteq Nat, S # {}
    PROVE  \E i \in S : \A j \in S : i <= j
  <1>1. PICK m \in S : ~ (\E y \in S : <<y, m>> \in OpToRel(<, Nat))
    BY NatLessThanWellFounded, WFMin, Zenon
  <1>2. \A y \in S : ~ (y < m)
    BY <1>1 DEF OpToRel
  <1> QED
    BY <1>2

Phases == {"config", "invalid", "starting", "polling", "recovering", "done", "error"}
Message == [kind : EventKinds, item : Nat]
Overalls == {"none", "completed", "completed_with_reallocation", "partial_failed", "failed"}
Decisions == {"none", "continue_with_survivor", "refuse_unsafe_replacement", "mark_partial_success", "mark_total_failure"}
Finals == FinalStatuses \cup Overalls \cup {"failed_recovery"}
Record == [decision : Decisions, recovered : SUBSET Task, abandoned : SUBSET Task, final : Finals]

\* A tracker of the given mission that has not come to an end.
Tracker(items) ==
    [items : {items}, status : [ToSet(items) -> TaskStatuses], current : 0 .. Len(items), final : {"none"}]

Unfinished(c) == c.finished = FALSE

States == {NoState} \cup UNION {Tracker(items) : items \in Seq(Task)}

Controller(c) ==
    /\ c \in [mission : Seq(Task), state : States, done : SUBSET Task, finished : BOOLEAN, idle : 0 .. Patience]
    /\ c.state # NoState => c.state \in Tracker(c.mission) /\ Unfinished(c)

\* What controller c has counted as completed.
Count(c) == c.done \cup IF c.state # NoState THEN completed_waypoints(c.state) ELSE {}

FlownBy(a, D, F) == \A t \in D : <<a, t>> \in F

\* Vehicle f of agent a and the telemetry q of it: no report that is on its way
\* is of an item that the vehicle has not reached.
Link(a, f, q, F) ==
    /\ f \in [on : BOOLEAN, items : Seq(Task), next : Nat \ {0}] /\ f.next <= Len(f.items) + 1
    /\ q \in Seq(Message) /\ Len(q) <= MaxQueue
    /\ \A i \in 1 .. Len(q) :
          q[i].kind = "reached" => q[i].item \in 1 .. Len(f.items) /\ <<a, f.items[q[i].item]>> \in F

\* The controller fits its vehicle: both have the same mission, and it counts
\* nothing that the vehicle did not reach.
Fit(a, c, f, q, F) ==
    /\ Controller(c) /\ Link(a, f, q, F)
    /\ c.state # NoState => f.items = c.mission
    /\ FlownBy(a, Count(c), F)

Fitted ==
    /\ ctl = [a \in Agent |-> ctl[a]] /\ fc = [a \in Agent |-> fc[a]] /\ tel = [a \in Agent |-> tel[a]]
    /\ flown \subseteq Agent \X Task
    /\ \A a \in Agent : Fit(a, ctl[a], fc[a], tel[a], flown)

\* The supervisor's own variables, in every phase.
Phased ==
    /\ phase \in Phases /\ manifest \in Configs
    /\ runs \in [Agent -> [status : FinalStatuses, completed : SUBSET Task]]
    /\ plans \in [Agent -> Seq(Task)]
    /\ records \in [Agent -> Record]
    /\ active \subseteq Agent /\ round \subseteq active
    /\ overall \in Overalls /\ faults \in 0 .. MaxFaults
    /\ phase = "recovering" => Pending # {} /\ victim \in Recoveries
    /\ phase # "recovering" => Pending = {} /\ victim = 0
    /\ Pending \subseteq active
    /\ phase \notin {"config", "invalid"} => validate_multi_agent_config(manifest)

\* Until all agents were started nothing has happened to any of them.
Opening ==
    /\ phase \in {"config", "invalid", "starting"} =>
          /\ round = {} /\ overall = "none"
          /\ \A a \in Agent :
                /\ ctl[a].mission = manifest[a] /\ Count(ctl[a]) = {}
                /\ runs[a] = NoRun /\ records[a] = NoRecord
                /\ a \notin active => Unfinished(ctl[a])
    /\ phase \in {"config", "invalid"} => active = {}
    /\ phase = "starting" => \E n \in 0 .. N - 1 : active = 1 .. n

\* An agent that is no longer active has a result, and the result is complete.
Ending ==
    /\ phase \notin {"config", "invalid", "starting"} =>
          \A a \in Agent \ active : runs[a] # NoRun /\ Count(ctl[a]) \subseteq runs[a].completed
    /\ \A a \in active : runs[a] = NoRun
    /\ \A a \in Agent : runs[a].completed \subseteq Count(ctl[a])
    /\ \A a \in Agent : runs[a].status = "completed" => ToSet(ctl[a].mission) \subseteq runs[a].completed
    /\ \A a \in Recoveries : a \notin active /\ runs[a].status # "completed"
    /\ Recoveries = {} => \A a \in Agent : ctl[a].mission = manifest[a]

\* An active agent keeps what the manifest gave it, until somebody completed it.
Owning ==
    \A m \in active : \A t \in ToSet(manifest[m]) :
        \/ Completed(t)
        \/ t \in ToSet(ctl[m].mission) /\ (plans[m] # <<>> => t \in ToSet(plans[m]))

\* As NoTaskDropped, with the mission an agent is about to have.
Coming(a) == IF plans[a] # <<>> THEN ToSet(plans[a]) ELSE ToSet(ctl[a].mission)

NoneLost ==
    (Reupload /\ phase \in {"polling", "recovering"}) =>
        \A t \in assigned_tasks :
            \/ Completed(t) \/ Abandoned(t)
            \/ \E a \in active : t \in Coming(a)
            \/ Capable[t] \cap active = {}

\* What an agent has on order.
Load(a) == ToSet(ctl[a].mission) \cup ToSet(plans[a])

\* Nothing is on order twice, or on order with one agent and completed by
\* another, or completed by two.
Within == \A a \in Agent : Load(a) \subseteq assigned_tasks /\ Count(ctl[a]) \subseteq assigned_tasks

Apart ==
    Accountable =>
        /\ \A a, b \in active : a # b => Load(a) \cap Load(b) = {}
        /\ \A a \in Agent : \A b \in active : a # b => Count(ctl[a]) \cap Load(b) = {}
        /\ \A a, b \in Agent : a # b => Count(ctl[a]) \cap Count(ctl[b]) = {}

Base == Fitted /\ Phased /\ Opening /\ Ending
Inv == Base /\ Owning /\ NoneLost /\ Within /\ Apart /\ ReportTruthful

-----------------------------------------------------------------------------
\* Sequences: their elements, and the operators that filter and flatten them.

LEMMA Elements ==
    ASSUME NEW S, NEW s \in Seq(S)
    PROVE  /\ Len(s) \in Nat /\ DOMAIN s = 1 .. Len(s) /\ ToSet(s) \subseteq S
           /\ \A i \in 1 .. Len(s) : s[i] \in S /\ s[i] \in ToSet(s)
           /\ \A x \in ToSet(s) : \E i \in 1 .. Len(s) : s[i] = x
           /\ s = <<>> <=> ToSet(s) = {}
  <1>1. Len(s) \in Nat /\ DOMAIN s = 1 .. Len(s) /\ \A i \in 1 .. Len(s) : s[i] \in S
    BY LenProperties, ElementOfSeq
  <1>2. /\ \A i \in 1 .. Len(s) : s[i] \in ToSet(s)
        /\ \A x \in ToSet(s) : \E i \in 1 .. Len(s) : s[i] = x
    BY <1>1 DEF ToSet
  <1>3. s # <<>> => 1 \in 1 .. Len(s)
    BY EmptySeq, <1>1
  <1>4. s = <<>> => Len(s) = 0
    BY EmptySeq
  <1> QED
    BY <1>1, <1>2, <1>3, <1>4

LEMMA ElementsOfEmpty == ToSet(<<>>) = {} /\ \A S : <<>> \in Seq(S) /\ Len(<<>>) = 0
  BY EmptySeq, Elements

LEMMA ElementsOfAppend ==
    ASSUME NEW S, NEW s \in Seq(S), NEW x \in S
    PROVE  Append(s, x) \in Seq(S) /\ ToSet(Append(s, x)) = ToSet(s) \cup {x}
  <1> DEFINE u == Append(s, x)
  <1>1. /\ u \in Seq(S) /\ Len(u) = Len(s) + 1
        /\ \A i \in 1 .. Len(s) : u[i] = s[i]
        /\ u[Len(s) + 1] = x
    BY AppendProperties
  <1> HIDE DEF u
  <1>2. Len(s) \in Nat
    BY LenProperties
  <1>3. ASSUME NEW y \in ToSet(u) PROVE y \in ToSet(s) \cup {x}
    <2>1. PICK i \in 1 .. Len(u) : u[i] = y
      BY <1>1, <1>3, Elements
    <2> QED
      BY <1>1, <1>2, <2>1, Elements
  <1>4. ASSUME NEW y \in ToSet(s) \cup {x} PROVE y \in ToSet(u)
    <2>1. CASE y = x
      <3>1. Len(s) + 1 \in 1 .. Len(u)
        BY <1>1, <1>2
      <3> QED
        BY <1>1, <2>1, <3>1, Elements
    <2>2. CASE y \in ToSet(s)
      <3>1. PICK i \in 1 .. Len(s) : s[i] = y
        BY <2>2, Elements
      <3>2. i \in 1 .. Len(u) /\ u[i] = y
        BY <1>1, <1>2, <3>1
      <3> QED
        BY <1>1, <3>2, Elements
    <2> QED
      BY <1>4, <2>1, <2>2
  <1>5. ToSet(u) = ToSet(s) \cup {x}
    BY <1>3, <1>4
  <1> QED
    BY <1>1, <1>5 DEF u

LEMMA ElementsOfConcat ==
    ASSUME NEW S, NEW s \in Seq(S), NEW r \in Seq(S)
    PROVE  s \o r \in Seq(S) /\ ToSet(s \o r) = ToSet(s) \cup ToSet(r)
  <1> DEFINE u == s \o r
  <1>1. /\ u \in Seq(S) /\ Len(u) = Len(s) + Len(r)
        /\ \A i \in 1 .. Len(s) + Len(r) : u[i] = IF i <= Len(s) THEN s[i] ELSE r[i - Len(s)]
    BY ConcatProperties
  <1> HIDE DEF u
  <1>2. Len(s) \in Nat /\ Len(r) \in Nat
    BY LenProperties
  <1>3. ASSUME NEW y \in ToSet(u) PROVE y \in ToSet(s) \cup ToSet(r)
    <2>1. PICK i \in 1 .. Len(u) : u[i] = y
      BY <1>1, <1>3, Elements
    <2>2. CASE i <= Len(s)
      <3>1. i \in 1 .. Len(s) /\ y = s[i]
        BY <1>1, <1>2, <2>1, <2>2
      <3> QED
        BY <3>1, Elements
    <2>3. CASE i > Len(s)
      <3>1. i - Len(s) \in 1 .. Len(r) /\ y = r[i - Len(s)]
        BY <1>1, <1>2, <2>1, <2>3
      <3> QED
        BY <3>1, Elements
    <2> QED
      BY <1>2, <2>1, <2>2, <2>3
  <1>4. ASSUME NEW y \in ToSet(s) PROVE y \in ToSet(u)
    <2>1. PICK i \in 1 .. Len(s) : s[i] = y
      BY <1>4, Elements
    <2>2. i \in 1 .. Len(u) /\ u[i] = y
      BY <1>1, <1>2, <2>1
    <2> QED
      BY <1>1, <2>2, Elements
  <1>5. ASSUME NEW y \in ToSet(r) PROVE y \in ToSet(u)
    <2>1. PICK i \in 1 .. Len(r) : r[i] = y
      BY <1>5, Elements
    <2>2. i + Len(s) \in 1 .. Len(u) /\ u[i + Len(s)] = y
      <3>1. i + Len(s) \in 1 .. Len(s) + Len(r) /\ ~(i + Len(s) <= Len(s)) /\ (i + Len(s)) - Len(s) = i
        BY <1>2
      <3> QED
        BY <1>1, <2>1, <3>1
    <2> QED
      BY <1>1, <2>2, Elements
  <1>6. ToSet(u) = ToSet(s) \cup ToSet(r)
    BY <1>3, <1>4, <1>5
  <1> QED
    BY <1>1, <1>6 DEF u

\* The recursion of the loop that filters a task list, over the sets of
\* positions that it has seen.
KeepBody(s, T, S, g) ==
    [u \in SUBSET S |->
        IF u = {} THEN <<>>
        ELSE IF s[Max(u)] \in T THEN Append(g[u \ {Max(u)}], s[Max(u)]) ELSE g[u \ {Max(u)}]]

LEMMA MaxOfInitial ==
    ASSUME NEW m \in Nat, NEW u \in SUBSET (1 .. m), m \in u
    PROVE  Max(u) = m
  <1> DEFINE x == CHOOSE y \in u : \A z \in u : y >= z
  <1>1. Max(u) = x
    BY DEF Max
  <1>2. \A z \in u : m >= z
    OBVIOUS
  <1>3. x \in u /\ \A z \in u : x >= z
    BY <1>2
  <1>4. x \in u /\ x \in 1 .. m /\ x >= m
    BY <1>3
  <1> HIDE DEF x
  <1>5. x = m
    BY <1>4
  <1> QED
    BY <1>1, <1>5

LEMMA KeepDefined ==
    ASSUME NEW s, NEW T, NEW n \in Nat
    PROVE  \E g : g = KeepBody(s, T, 1 .. n, g)
  <1> DEFINE Bad == {m \in Nat : ~\E g : g = KeepBody(s, T, 1 .. m, g)}
  <1> SUFFICES ASSUME Bad # {} PROVE FALSE
    OBVIOUS
  <1>1. PICK m \in Bad : \A j \in Bad : m <= j
    <2>1. Bad \subseteq Nat
      OBVIOUS
    <2> HIDE DEF Bad
    <2> QED
      BY <2>1, LeastElement
  <1>2. m # 0
    <2>1. SUBSET (1 .. 0) = {{}}
      OBVIOUS
    <2> DEFINE g == [u \in {{}} |-> <<>>]
    <2>2. g = KeepBody(s, T, 1 .. 0, g)
      BY <2>1 DEF KeepBody
    <2> HIDE DEF g
    <2> QED
      BY <2>2
  <1>3. m - 1 \in Nat /\ m - 1 \notin Bad
    BY <1>1, <1>2
  <1>4. PICK g : g = KeepBody(s, T, 1 .. m - 1, g)
    BY <1>3
  <1> DEFINE Next1(v, x) == IF x \in T THEN Append(v, x) ELSE v
             h == [u \in SUBSET (1 .. m) |-> IF m \in u THEN Next1(g[u \ {m}], s[m]) ELSE g[u]]
  <1>5. ASSUME NEW u \in SUBSET (1 .. m)
        PROVE  h[u] = IF u = {} THEN <<>> ELSE Next1(h[u \ {Max(u)}], s[Max(u)])
    <2>1. CASE m \in u
      <3>1. Max(u) = m
        BY <2>1, MaxOfInitial
      <3>2. u \ {m} \in SUBSET (1 .. m) /\ m \notin u \ {m} /\ u # {}
        BY <2>1
      <3>3. h[u \ {m}] = g[u \ {m}]
        BY <3>2
      <3>4. h[u] = Next1(g[u \ {m}], s[m])
        BY <2>1
      <3> HIDE DEF h, Next1
      <3> QED
        BY <3>1, <3>2, <3>3, <3>4
    <2>2. CASE m \notin u
      <3>1. u \in SUBSET (1 .. m - 1)
        BY <1>3, <2>2
      <3>2. h[u] = g[u]
        BY <2>2
      <3>3. u \ {Max(u)} \in SUBSET (1 .. m) /\ m \notin u \ {Max(u)}
        BY <2>2
      <3>4. h[u \ {Max(u)}] = g[u \ {Max(u)}]
        BY <3>3
      <3>5. g[u] = IF u = {} THEN <<>> ELSE Next1(g[u \ {Max(u)}], s[Max(u)])
        BY <1>4, <3>1, Zenon DEF KeepBody
      <3> HIDE DEF h, Next1
      <3> QED
        BY <3>2, <3>4, <3>5
    <2> QED
      BY <2>1, <2>2
  <1>6. h = KeepBody(s, T, 1 .. m, h)
    <2>1. h = [u \in SUBSET (1 .. m) |-> h[u]]
      OBVIOUS
    <2> HIDE DEF h
    <2> QED
      BY <1>5, <2>1 DEF KeepBody
  <1> HIDE DEF h
  <1> QED
    BY <1>1, <1>6

\* The filter keeps exactly the elements that are wanted.
LEMMA KeepFacts ==
    ASSUME NEW S, NEW s \in Seq(S), NEW T
    PROVE  Keep(s, T) \in Seq(S) /\ ToSet(Keep(s, T)) = ToSet(s) \cap T
  <1> DEFINE n == Len(s)
             h == CHOOSE g : g = KeepBody(s, T, 1 .. n, g)
             Picked(u) == {s[i] : i \in u} \cap T
             Good(u) == h[u] \in Seq(S) /\ ToSet(h[u]) = Picked(u)
  <1>0. n \in Nat /\ DOMAIN s = 1 .. n /\ \A i \in 1 .. n : s[i] \in S
    BY Elements
  <1>1. Keep(s, T) = h[1 .. n]
    <2>1. Keep(s, T) = (CHOOSE g : g = KeepBody(s, T, DOMAIN s, g))[DOMAIN s]
      BY Zenon DEF Keep, FoldLeft, MapThenFoldSet, KeepBody
    <2> QED
      BY <1>0, <2>1
  <1>2. h = KeepBody(s, T, 1 .. n, h)
    <2>1. \E g : g = KeepBody(s, T, 1 .. n, g)
      BY <1>0, KeepDefined
    <2> QED
      BY <2>1
  <1> HIDE DEF h
  <1>3. \A u \in SUBSET (1 .. n) :
            h[u] = IF u = {} THEN <<>>
                   ELSE IF s[Max(u)] \in T THEN Append(h[u \ {Max(u)}], s[Max(u)]) ELSE h[u \ {Max(u)}]
    BY <1>2, Zenon DEF KeepBody
  <1> DEFINE Bad == {m \in 0 .. n : \E u \in SUBSET (1 .. m) : ~Good(u)}
  <1>4. Bad = {}
    <2> SUFFICES ASSUME Bad # {} PROVE FALSE
      OBVIOUS
    <2>1. PICK m \in Bad : \A j \in Bad : m <= j
      <3>1. Bad \subseteq Nat
        BY <1>0
      <3> HIDE DEF Bad
      <3> QED
        BY <3>1, LeastElement
    <2>2. PICK u \in SUBSET (1 .. m) : ~Good(u)
      BY <2>1
    <2>3. u \in SUBSET (1 .. n) /\ m \in 0 .. n /\ m \in Nat
      BY <1>0, <2>1
    <2>4. u # {}
      <3>1. ASSUME u = {} PROVE Good(u)
        <4>1. h[u] = <<>>
          BY <1>3, <2>3, <3>1
        <4>2. Picked(u) = {}
          BY <3>1
        <4> QED
          BY <4>1, <4>2, ElementsOfEmpty
      <3> QED
        BY <2>2, <3>1
    <2>5. m # 0
      <3>1. 1 .. 0 = {}
        OBVIOUS
      <3> QED
        BY <2>4, <3>1
    <2>6. m \in u
      <3>1. m - 1 \in 0 .. n /\ m - 1 \notin Bad
        <4> HIDE DEF Bad
        <4> QED
          BY <1>0, <2>1, <2>3, <2>5
      <3>2. u \notin SUBSET (1 .. m - 1)
        BY <2>2, <3>1
      <3> QED
        BY <2>3, <3>2
    <2>7. Good(u \ {m})
      <3>1. m - 1 \in 0 .. n /\ m - 1 \notin Bad
        <4> HIDE DEF Bad
        <4> QED
          BY <1>0, <2>1, <2>3, <2>5
      <3>2. u \ {m} \in SUBSET (1 .. m - 1)
        BY <2>3
      <3> QED
        BY <3>1, <3>2
    <2>8. h[u] = IF s[m] \in T THEN Append(h[u \ {m}], s[m]) ELSE h[u \ {m}]
      BY <1>3, <2>3, <2>4, <2>6, MaxOfInitial
    <2>9. s[m] \in S
      BY <1>0, <2>3, <2>5
    <2>10. Picked(u) = Picked(u \ {m}) \cup ({s[m]} \cap T)
      BY <2>6
    <2>11. CASE s[m] \in T
      <3>1. h[u] \in Seq(S) /\ ToSet(h[u]) = ToSet(h[u \ {m}]) \cup {s[m]}
        <4>1. h[u \ {m}] \in Seq(S) /\ h[u] = Append(h[u \ {m}], s[m])
          BY <2>7, <2>8, <2>11
        <4>2. \A v \in Seq(S), x \in S : Append(v, x) \in Seq(S) /\ ToSet(Append(v, x)) = ToSet(v) \cup {x}
          BY ElementsOfAppend
        <4> HIDE DEF Good, Picked, Bad
        <4> QED
          BY <2>9, <4>1, <4>2
      <3>2. {s[m]} \cap T = {s[m]}
        BY <2>11
      <3> QED
        BY <2>2, <2>7, <2>10, <3>1, <3>2
    <2>12. CASE s[m] \notin T
      <3>1. {s[m]} \cap T = {}
        BY <2>12
      <3>2. h[u] = h[u \ {m}] /\ Picked(u) = Picked(u \ {m})
        BY <2>8, <2>10, <2>12, <3>1
      <3> HIDE DEF Picked
      <3> QED
        BY <2>2, <2>7, <3>2
    <2> QED
      BY <2>11, <2>12
  <1>5. Good(1 .. n)
    <2>1. n \notin Bad /\ n \in 0 .. n
      <3> HIDE DEF Bad
      <3> QED
        BY <1>0, <1>4
    <2> QED
      BY <2>1
  <1>6. Picked(1 .. n) = ToSet(s) \cap T
    BY <1>0 DEF ToSet
  <1> QED
    BY <1>1, <1>5, <1>6

\* The recursion of the loop that chains the task lists of the manifest.
FlatBody(q, m, g) == [i \in 1 .. m |-> IF i = 1 THEN q[i] ELSE g[i - 1] \o q[i]]

LEMMA FlatDefined ==
    ASSUME NEW q, NEW n \in Nat
    PROVE  \E g : g = FlatBody(q, n, g)
  <1> DEFINE Bad == {m \in Nat : ~\E g : g = FlatBody(q, m, g)}
  <1> SUFFICES ASSUME Bad # {} PROVE FALSE
    OBVIOUS
  <1>1. PICK m \in Bad : \A j \in Bad : m <= j
    <2>1. Bad \subseteq Nat
      OBVIOUS
    <2> HIDE DEF Bad
    <2> QED
      BY <2>1, LeastElement
  <1>2. m # 0
    <2> DEFINE g == [i \in 1 .. 0 |-> q[i]]
    <2>1. \A i \in 1 .. 0 : FALSE
      OBVIOUS
    <2>2. g = FlatBody(q, 0, g)
      BY <2>1 DEF FlatBody
    <2> HIDE DEF g
    <2> QED
      BY <2>2
  <1>3. m - 1 \in Nat /\ m - 1 \notin Bad
    BY <1>1, <1>2
  <1>4. PICK g : g = FlatBody(q, m - 1, g)
    BY <1>3
  <1> DEFINE h == [i \in 1 .. m |-> IF i < m THEN g[i] ELSE IF m = 1 THEN q[m] ELSE g[m - 1] \o q[m]]
  <1>5. ASSUME NEW i \in 1 .. m
        PROVE  h[i] = IF i = 1 THEN q[i] ELSE h[i - 1] \o q[i]
    <2>1. CASE i = m
      <3>1. h[i] = IF m = 1 THEN q[m] ELSE g[m - 1] \o q[m]
        BY <2>1
      <3>2. m # 1 => h[m - 1] = g[m - 1]
        BY <1>2, <1>3
      <3> HIDE DEF h
      <3> QED
        BY <2>1, <3>1, <3>2
    <2>2. CASE i < m
      <3>1. h[i] = g[i] /\ i \in 1 .. m - 1
        BY <2>2, <1>3
      <3>2. i # 1 => h[i - 1] = g[i - 1]
        BY <2>2, <1>3
      <3>3. g[i] = IF i = 1 THEN q[i] ELSE g[i - 1] \o q[i]
        BY <1>4, <3>1, Zenon DEF FlatBody
      <3> HIDE DEF h
      <3> QED
        BY <3>1, <3>2, <3>3
    <2>3. i = m \/ i < m
      BY <1>3
    <2> QED
      BY <2>1, <2>2, <2>3
  <1>6. h = FlatBody(q, m, h)
    <2>1. h = [i \in 1 .. m |-> h[i]]
      OBVIOUS
    <2> HIDE DEF h
    <2> QED
      BY <1>5, <2>1 DEF FlatBody
  <1> HIDE DEF h
  <1> QED
    BY <1>1, <1>6

\* Chained lists have the elements of all of them.
LEMMA FlattenFacts ==
    ASSUME NEW S, NEW n \in Nat \ {0}, NEW q \in [1 .. n -> Seq(S)]
    PROVE  FlattenSeq(q) \in Seq(S) /\ ToSet(FlattenSeq(q)) = UNION {ToSet(q[i]) : i \in 1 .. n}
  <1> DEFINE h == CHOOSE g : g = FlatBody(q, n, g)
             Upto(j) == UNION {ToSet(q[i]) : i \in 1 .. j}
             Good(j) == h[j] \in Seq(S) /\ ToSet(h[j]) = Upto(j)
  <1>0. Len(q) = n
    <2>1. q \in Seq(Seq(S))
      BY SeqDef
    <2> QED
      BY <2>1, LenProperties
  <1>1. FlattenSeq(q) = h[n]
    <2>1. FlattenSeq(q) = (CHOOSE g : g = FlatBody(q, Len(q), g))[Len(q)]
      BY <1>0 DEF FlattenSeq, FlatBody
    <2> QED
      BY <1>0, <2>1
  <1>2. h = FlatBody(q, n, h)
    <2>1. \E g : g = FlatBody(q, n, g)
      BY FlatDefined
    <2> QED
      BY <2>1
  <1> HIDE DEF h
  <1>3. \A i \in 1 .. n : h[i] = IF i = 1 THEN q[i] ELSE h[i - 1] \o q[i]
    BY <1>2, Zenon DEF FlatBody
  <1> DEFINE Bad == {m \in 1 .. n : ~Good(m)}
  <1>4. Bad = {}
    <2> SUFFICES ASSUME Bad # {} PROVE FALSE
      OBVIOUS
    <2>1. PICK m \in Bad : \A j \in Bad : m <= j
      <3>1. Bad \subseteq Nat
        OBVIOUS
      <3> HIDE DEF Bad
      <3> QED
        BY <3>1, LeastElement
    <2>2. m \in 1 .. n /\ ~Good(m)
      BY <2>1
    <2>3. q[m] \in Seq(S)
      BY <2>2
    <2>4. m # 1
      <3>1. ASSUME m = 1 PROVE Good(m)
        <4>1. h[m] = q[m]
          BY <1>3, <2>2, <3>1
        <4>2. 1 .. m = {m}
          BY <3>1
        <4>3. Upto(m) = ToSet(q[m])
          BY <4>2
        <4> QED
          BY <2>3, <4>1, <4>3
      <3> QED
        BY <2>2, <3>1
    <2>5. Good(m - 1)
      <3>1. m - 1 \in 1 .. n /\ m - 1 \notin Bad
        <4> HIDE DEF Bad
        <4> QED
          BY <2>1, <2>2, <2>4
      <3> QED
        BY <3>1
    <2>6. h[m] = h[m - 1] \o q[m]
      BY <1>3, <2>2, <2>4
    <2>7. ToSet(h[m]) = ToSet(h[m - 1]) \cup ToSet(q[m]) /\ h[m] \in Seq(S)
      <3>1. \A u, v \in Seq(S) : u \o v \in Seq(S) /\ ToSet(u \o v) = ToSet(u) \cup ToSet(v)
        BY ElementsOfConcat
      <3>2. h[m - 1] \in Seq(S)
        BY <2>5
      <3> HIDE DEF Good, Bad, Upto
      <3> QED
        BY <2>3, <2>6, <3>1, <3>2
    <2>8. Upto(m) = Upto(m - 1) \cup ToSet(q[m])
      <3>1. 1 .. m = (1 .. m - 1) \cup {m}
        BY <2>2
      <3> QED
        BY <3>1
    <2> HIDE DEF Upto
    <2> QED
      BY <2>2, <2>5, <2>7, <2>8
  <1>5. Good(n)
    <2>1. n \notin Bad /\ n \in 1 .. n
      <3> HIDE DEF Bad
      <3> QED
        BY <1>4
    <2> QED
      BY <2>1
  <1> QED
    BY <1>1, <1>5

\* The least agent that is still to get a replacement is one of them.
LEMMA LeastPending ==
    ASSUME Pending # {}
    PROVE  Min(Pending) \in Pending
  <1>1. Pending \subseteq Nat
    BY DEF Pending, Agent
  <1> HIDE DEF Pending
  <1>2. \E x \in Pending : \A y \in Pending : x =< y
    BY <1>1, LeastElement
  <1> QED
    BY <1>2 DEF Min

-----------------------------------------------------------------------------
\* The sum of the counts.

\* The recursion of the sum over the runs.
SumBody(R, S, g) ==
    [s \in SUBSET S |-> IF s = {} THEN 0
                        ELSE LET x == CHOOSE x \in s : TRUE IN Cardinality(R[x].completed) + g[s \ {x}]]

\* When no task is counted by two runs, the counts add up to the number of tasks
\* that were counted.
LEMMA CountsAddUp ==
    ASSUME NEW R, NEW U, IsFiniteSet(U), \A a \in Agent : R[a].completed \subseteq U,
           \A a, b \in Agent : a # b => R[a].completed \cap R[b].completed = {}
    PROVE  completed_task_count(R) = Cardinality(UNION {R[a].completed : a \in Agent})
  <1> DEFINE D(s) == UNION {R[a].completed : a \in s}
             first(s) == CHOOSE x \in s : TRUE
             k == [s \in SUBSET Agent |-> Cardinality(D(s))]
             h == CHOOSE g : g = SumBody(R, Agent, g)
  <1>1. ASSUME NEW s \in SUBSET Agent, s # {}
        PROVE  /\ first(s) \in s /\ s \ {first(s)} \in SUBSET Agent
               /\ Cardinality(D(s)) = Cardinality(R[first(s)].completed) + Cardinality(D(s \ {first(s)}))
    <2>1. first(s) \in s
      BY <1>1
    <2> DEFINE x == first(s)
               A == R[x].completed
               B == D(s \ {x})
    <2>2. x \in Agent /\ s \ {x} \in SUBSET Agent
      BY <2>1
    <2> HIDE DEF first
    <2>3. D(s) = A \cup B
      BY <2>1
    <2>4. A \cap B = {}
      BY <2>2
    <2>5. A \in SUBSET U /\ B \in SUBSET U
      BY <2>2
    <2> HIDE DEF D, A, B
    <2>6. IsFiniteSet(A) /\ IsFiniteSet(B)
      BY <2>5, FS_Subset
    <2>7. Cardinality(A \cap B) = 0 /\ Cardinality(A) \in Nat /\ Cardinality(B) \in Nat
      BY <2>4, <2>6, FS_EmptySet, FS_CardinalityType
    <2>8. Cardinality(A \cup B) = Cardinality(A) + Cardinality(B)
      <3>1. Cardinality(A \cup B) = Cardinality(A) + Cardinality(B) - Cardinality(A \cap B)
        BY <2>6, FS_Union
      <3> QED
        BY <2>7, <3>1
    <2> QED
      BY <2>1, <2>2, <2>3, <2>8 DEF A, B
  <1>2. k = SumBody(R, Agent, k)
    <2>1. ASSUME NEW s \in SUBSET Agent
          PROVE  k[s] = IF s = {} THEN 0 ELSE Cardinality(R[first(s)].completed) + k[s \ {first(s)}]
      <3>1. CASE s = {}
        <4>1. D(s) = {}
          BY <3>1
        <4> HIDE DEF D
        <4> QED
          BY <3>1, <4>1, FS_EmptySet
      <3>2. CASE s # {}
        <4>1. /\ Cardinality(D(s)) = Cardinality(R[first(s)].completed) + Cardinality(D(s \ {first(s)}))
              /\ s \ {first(s)} \in SUBSET Agent
          BY <1>1, <3>2
        <4> HIDE DEF D, first
        <4> QED
          BY <3>2, <4>1
      <3> QED
        BY <3>1, <3>2
    <2>2. k = [s \in SUBSET Agent |-> k[s]]
      OBVIOUS
    <2> HIDE DEF k
    <2> QED
      BY <2>1, <2>2 DEF SumBody
  <1>3. h = SumBody(R, Agent, h)
    <2> HIDE DEF k
    <2> QED
      BY <1>2
  <1>4. completed_task_count(R) = h[Agent]
    BY Zenon DEF completed_task_count, MapThenSumSet, MapThenFoldSet, SumBody
  <1> HIDE DEF h
  <1>5. \A s \in SUBSET Agent : h[s] = IF s = {} THEN 0 ELSE Cardinality(R[first(s)].completed) + h[s \ {first(s)}]
    BY <1>3, Zenon DEF SumBody
  <1> DEFINE Off(s) == h[s] # Cardinality(D(s))
             Bad == {c \in Nat : \E s \in SUBSET Agent : Cardinality(s) = c /\ Off(s)}
  <1>6. \A s \in SUBSET Agent : IsFiniteSet(s) /\ Cardinality(s) \in Nat
    <2>1. IsFiniteSet(Agent)
      BY FS_Interval, SitlAssumption DEF Agent
    <2> QED
      BY <2>1, FS_Subset, FS_CardinalityType
  <1>7. Bad = {}
    <2> SUFFICES ASSUME Bad # {} PROVE FALSE
      OBVIOUS
    <2>1. PICK c \in Bad : \A j \in Bad : c <= j
      <3>1. Bad \subseteq Nat
        OBVIOUS
      <3> HIDE DEF Bad
      <3> QED
        BY <3>1, LeastElement
    <2>2. PICK s \in SUBSET Agent : Cardinality(s) = c /\ Off(s)
      BY <2>1
    <2>0. c \in Nat
      OBVIOUS
    <2> DEFINE x == first(s)
    <2>3. s # {}
      <3>1. ASSUME s = {} PROVE FALSE
        <4>1. h[s] = 0
          BY <1>5, <3>1
        <4>2. D(s) = {}
          BY <3>1
        <4> HIDE DEF D
        <4> QED
          BY <2>2, <4>1, <4>2, FS_EmptySet
      <3> QED
        BY <3>1
    <2>4. /\ x \in s /\ s \ {x} \in SUBSET Agent
          /\ Cardinality(D(s)) = Cardinality(R[x].completed) + Cardinality(D(s \ {x}))
      BY <1>1, <2>3
    <2>5. h[s] = Cardinality(R[x].completed) + h[s \ {x}]
      BY <1>5, <2>3
    <2> HIDE DEF x
    <2>6. Off(s \ {x})
      <3> HIDE DEF D
      <3> QED
        BY <2>2, <2>4, <2>5
    <2>7. Cardinality(s \ {x}) = c - 1 /\ c - 1 \in Nat
      <3>1. Cardinality(s \ {x}) = Cardinality(s) - 1 /\ IsFiniteSet(s)
        BY <1>6, <2>4, FS_RemoveElement
      <3>2. Cardinality(s) \in Nat /\ Cardinality(s \ {x}) \in Nat
        BY <1>6, <2>4
      <3> QED
        BY <2>2, <3>1, <3>2
    <2>8. c - 1 \in Bad
      <3> HIDE DEF Off
      <3> QED
        BY <2>4, <2>6, <2>7
    <2> HIDE DEF Bad
    <2> QED
      BY <2>0, <2>1, <2>7, <2>8
  <1>8. ~Off(Agent)
    <2>1. Agent \in SUBSET Agent /\ Cardinality(Agent) \in Nat
      BY <1>6
    <2> HIDE DEF Off
    <2> QED
      BY <1>7, <2>1
  <1> QED
    BY <1>4, <1>8

-----------------------------------------------------------------------------
\* The tracker.

LEMMA TrackerParts ==
    ASSUME NEW items \in Seq(Task), NEW p \in Tracker(items)
    PROVE  /\ p = [items |-> items, status |-> p.status, current |-> p.current, final |-> "none"]
           /\ p.items = items /\ p.final = "none" /\ p.current \in 0 .. Len(items)
           /\ p.status \in [ToSet(items) -> TaskStatuses]
           /\ p # NoState /\ p \in States
           /\ completed_waypoints(p) \subseteq ToSet(items)
  <1>1. /\ p = [items |-> items, status |-> p.status, current |-> p.current, final |-> "none"]
        /\ p.items = items /\ p.final = "none" /\ p.current \in 0 .. Len(items)
        /\ p.status \in [ToSet(items) -> TaskStatuses]
    BY DEF Tracker
  <1>2. p # NoState
    <2>1. "final" \in DOMAIN p
      BY <1>1
    <2>2. "final" \notin DOMAIN NoState
      BY DEF NoState
    <2> QED
      BY <2>1, <2>2
  <1>3. completed_waypoints(p) \subseteq ToSet(items)
    BY <1>1 DEF completed_waypoints
  <1>4. p \in States
    BY DEF States
  <1> QED
    BY <1>1, <1>2, <1>3, <1>4

\* What one event makes of a tracker.
Takes(items, p, e, q) ==
    /\ q.final \in FinalStatuses
    /\ q.final = "none" => q \in Tracker(items)
    /\ completed_waypoints(p) \subseteq completed_waypoints(q) /\ completed_waypoints(q) \subseteq ToSet(items)
    /\ \A t \in completed_waypoints(q) \ completed_waypoints(p) : e.kind = "reached" /\ t = items[e.item]
    /\ q.final = "completed" => completed_waypoints(q) = ToSet(items)

LEMMA FailedTracker ==
    ASSUME NEW items \in Seq(Task), NEW p \in Tracker(items), NEW e, NEW f \in FinalStatuses \ {"none", "completed"}
    PROVE  Takes(items, p, e, mark_failed(p, f))
  <1> DEFINE st == [t \in DOMAIN p.status |-> IF p.status[t] = "completed" THEN "completed" ELSE "failed"]
             q == mark_failed(p, f)
  <1>1. q = [p EXCEPT !.status = st, !.final = f]
    BY DEF mark_failed
  <1>2. /\ p = [items |-> items, status |-> p.status, current |-> p.current, final |-> "none"]
        /\ p.status \in [ToSet(items) -> TaskStatuses]
    BY TrackerParts
  <1>3. /\ DOMAIN p.status = ToSet(items) /\ DOMAIN st = ToSet(items)
        /\ \A t \in ToSet(items) : st[t] = "completed" <=> p.status[t] = "completed"
    BY <1>2
  <1> HIDE DEF st
  <1>4. q.status = st /\ q.final = f
    BY <1>1, <1>2
  <1> HIDE DEF q
  <1>5. completed_waypoints(q) = completed_waypoints(p) /\ completed_waypoints(p) \subseteq ToSet(items)
    BY <1>3, <1>4 DEF completed_waypoints
  <1> QED
    BY <1>4, <1>5 DEF Takes, q

LEMMA TrackerTakes ==
    ASSUME NEW items \in Seq(Task), NEW p \in Tracker(items), NEW e \in Message, KnownItem(p, e)
    PROVE  Takes(items, p, e, apply_event(p, e))
  <1> DEFINE it == e.item
             q == apply_event(p, e)
  <1>1. /\ p = [items |-> items, status |-> p.status, current |-> p.current, final |-> "none"]
        /\ p.items = items /\ p.current \in 0 .. Len(items)
        /\ p.status \in [ToSet(items) -> TaskStatuses]
        /\ DOMAIN p.status = ToSet(items)
    BY TrackerParts
  <1>2. e.kind \in EventKinds /\ it \in Nat
    BY DEF Message
  <1>3. ASSUME e.kind \in {"current", "reached"}
        PROVE  it \in 1 .. Len(items) /\ it \in 0 .. Len(items) /\ items[it] \in ToSet(items)
    <2>1. it \in DOMAIN items
      BY <1>1, <1>3 DEF KnownItem
    <2>2. it \in 1 .. Len(items) /\ items[it] \in ToSet(items) /\ Len(items) \in Nat
      BY <2>1, Elements
    <2> QED
      BY <2>2
  <1>4. CASE e.kind = "current"
    <2> DEFINE st == [p.status EXCEPT ![items[it]] = IF @ \in {"completed", "failed"} THEN @ ELSE "in_progress"]
    <2>1. q = [p EXCEPT !.current = it, !.status = st]
      BY <1>1, <1>4 DEF apply_event, Current
    <2>2. st \in [ToSet(items) -> TaskStatuses]
      BY <1>1, <1>3, <1>4 DEF TaskStatuses
    <2>3. \A t \in ToSet(items) : st[t] = "completed" <=> p.status[t] = "completed"
      BY <1>1, <1>3, <1>4
    <2> HIDE DEF st
    <2>4. q = [items |-> items, status |-> st, current |-> it, final |-> "none"]
      BY <2>1 DEF Tracker
    <2> HIDE DEF q
    <2>5. q \in Tracker(items) /\ q.status = st /\ q.final = "none"
      BY <1>3, <1>4, <2>2, <2>4 DEF Tracker
    <2>6. completed_waypoints(q) = completed_waypoints(p) /\ completed_waypoints(p) \subseteq ToSet(items)
      BY <1>1, <2>2, <2>3, <2>5 DEF completed_waypoints
    <2> QED
      BY <2>5, <2>6 DEF Takes, FinalStatuses, q
  <1>5. CASE e.kind = "reached"
    <2> DEFINE st == [p.status EXCEPT ![items[it]] = "completed"]
               r == [p EXCEPT !.current = it, !.status = st]
    <2>0. r = [p EXCEPT !.current = it, !.status[p.items[it]] = "completed"]
      BY <1>1 DEF Tracker
    <2>1. q = IF AllReached(r) THEN [r EXCEPT !.final = "completed"] ELSE r
      BY <1>5, <2>0 DEF apply_event, Reached
    <2>2. st \in [ToSet(items) -> TaskStatuses] /\ DOMAIN st = ToSet(items)
      BY <1>1, <1>3, <1>5 DEF TaskStatuses
    <2>3. \A t \in ToSet(items) : st[t] = "completed" <=> p.status[t] = "completed" \/ t = items[it]
      BY <1>1, <1>3, <1>5
    <2> HIDE DEF st, q
    <2>5. r \in Tracker(items) /\ r.status = st /\ r.final = "none"
      BY <1>3, <1>5, <2>2 DEF Tracker
    <2> HIDE DEF r
    <2> DEFINE s == [r EXCEPT !.final = "completed"]
    <2>6. s.status = st /\ s.final = "completed"
      BY <2>5 DEF Tracker
    <2> HIDE DEF s
    <2>7. /\ completed_waypoints(r) = completed_waypoints(s)
          /\ completed_waypoints(r) = {t \in ToSet(items) : p.status[t] = "completed" \/ t = items[it]}
      BY <2>2, <2>3, <2>5, <2>6 DEF completed_waypoints
    <2>8. completed_waypoints(p) = {t \in ToSet(items) : p.status[t] = "completed"}
      BY <1>1 DEF completed_waypoints
    <2>9. AllReached(r) => completed_waypoints(r) = ToSet(items)
      BY <2>2, <2>5 DEF AllReached
    <2>10. CASE AllReached(r)
      <3>1. q = s
        BY <2>1, <2>10 DEF s
      <3> QED
        BY <1>5, <2>6, <2>7, <2>8, <2>9, <2>10, <3>1 DEF Takes, FinalStatuses, q
    <2>11. CASE ~AllReached(r)
      <3>1. q = r
        BY <2>1, <2>11
      <3> QED
        BY <1>5, <2>5, <2>7, <2>8, <3>1 DEF Takes, FinalStatuses, q
    <2> QED
      BY <2>10, <2>11
  <1>6. CASE e.kind = "complete"
    <2>1. q = IF AllReached(p) THEN [p EXCEPT !.final = "completed"] ELSE mark_failed(p, "failed")
      BY <1>6 DEF apply_event, Complete
    <2>2. CASE AllReached(p)
      <3> DEFINE s == [p EXCEPT !.final = "completed"]
      <3>1. s.status = p.status /\ s.final = "completed"
        BY <1>1
      <3>2. q = s
        BY <2>1, <2>2
      <3> HIDE DEF s, q
      <3>3. completed_waypoints(s) = completed_waypoints(p) /\ completed_waypoints(p) = ToSet(items)
        BY <1>1, <2>2, <3>1 DEF completed_waypoints, AllReached
      <3> QED
        BY <3>1, <3>2, <3>3 DEF Takes, FinalStatuses, q
    <2>3. CASE ~AllReached(p)
      <3>1. "failed" \in FinalStatuses \ {"none", "completed"}
        BY DEF FinalStatuses
      <3> QED
        BY <2>1, <2>3, <3>1, FailedTracker
    <2> QED
      BY <2>2, <2>3
  <1>7. CASE e.kind \in {"rejected", "disconnected"}
    <2>1. q = mark_failed(p, e.kind)
      BY <1>7 DEF apply_event
    <2>2. e.kind \in FinalStatuses \ {"none", "completed"}
      BY <1>7 DEF FinalStatuses
    <2> QED
      BY <2>1, <2>2, FailedTracker
  <1> QED
    BY <1>2, <1>4, <1>5, <1>6, <1>7 DEF EventKinds

-----------------------------------------------------------------------------
\* One agent: what the operations make of a controller and its vehicle.

\* The vehicle after an accepted upload, the controller after an event and after
\* the end of a run.
Advanced(c, p, n) == [c EXCEPT !.state = p, !.idle = n]
Airborne(items) == [on |-> TRUE, items |-> items, next |-> 1]
Ended(c, D) == [c EXCEPT !.done = D, !.state = NoState, !.finished = FALSE, !.idle = 0]

LEMMA FreshTracker ==
    ASSUME NEW items \in Seq(Task)
    PROVE  from_waypoints(items) \in Tracker(items) /\ completed_waypoints(from_waypoints(items)) = {}
  <1>1. Len(items) \in Nat
    BY LenProperties
  <1>2. [t \in ToSet(items) |-> "unassigned"] \in [ToSet(items) -> TaskStatuses]
    BY DEF TaskStatuses
  <1> QED
    BY <1>1, <1>2 DEF from_waypoints, Tracker, completed_waypoints

LEMMA CountBounds ==
    ASSUME NEW c, Controller(c)
    PROVE  Count(c) \subseteq Task /\ Count(c) \subseteq c.done \cup ToSet(c.mission)
  <1>1. c.state # NoState => completed_waypoints(c.state) \subseteq ToSet(c.mission)
    BY TrackerParts DEF Controller
  <1>2. ToSet(c.mission) \subseteq Task
    BY Elements DEF Controller
  <1> QED
    BY <1>1, <1>2 DEF Count, Controller

LEMMA LinkGrows ==
    ASSUME NEW a, NEW f, NEW q, NEW F, NEW G, F \subseteq G, Link(a, f, q, F)
    PROVE  Link(a, f, q, G)
  BY DEF Link

LEMMA FitGrows ==
    ASSUME NEW a, NEW c, NEW f, NEW q, NEW F, NEW G, F \subseteq G, Fit(a, c, f, q, F)
    PROVE  Fit(a, c, f, q, G)
  BY LinkGrows DEF Fit, FlownBy

LEMMA FreshLink ==
    ASSUME NEW a, NEW F, NEW items \in Seq(Task), NEW on \in BOOLEAN
    PROVE  Link(a, [on |-> on, items |-> items, next |-> 1], <<>>, F)
  <1>1. Len(items) \in Nat
    BY LenProperties
  <1>2. <<>> \in Seq(Message) /\ Len(<<>>) = 0
    BY EmptySeq
  <1> QED
    BY <1>1, <1>2, SitlAssumption DEF Link

LEMMA GroundedLink ==
    ASSUME NEW a, NEW F
    PROVE  Link(a, Grounded, <<>>, F)
  BY FreshLink, EmptySeq DEF Grounded

\* An accepted upload.
LEMMA UploadFits ==
    ASSUME NEW a, NEW F, NEW c, Controller(c), Unfinished(c), NEW items \in Seq(Task),
           FlownBy(a, c.done, F)
    PROVE  /\ Fit(a, Tracking(c, items), Airborne(items), <<>>, F)
           /\ Count(Tracking(c, items)) = c.done /\ Tracking(c, items).mission = items
  <1> DEFINE p == from_waypoints(items)
             d == Tracking(c, items)
  <1>1. p \in Tracker(items) /\ completed_waypoints(p) = {} /\ p # NoState /\ p \in States
    BY FreshTracker, TrackerParts
  <1>2. d.mission = items /\ d.state = p /\ d.done = c.done /\ d.finished = c.finished
    BY DEF Tracking, Controller
  <1>3. Controller(d)
    <2>1. 0 \in 0 .. Patience
      BY SitlAssumption
    <2>2. d \in [mission : Seq(Task), state : States, done : SUBSET Task, finished : BOOLEAN, idle : 0 .. Patience]
      BY <1>1, <2>1 DEF Tracking, Controller
    <2> QED
      BY <1>1, <1>2, <2>2 DEF Controller, Unfinished
  <1> HIDE DEF p
  <1>4. Count(d) = c.done
    BY <1>1, <1>2 DEF Count
  <1>5. Link(a, Airborne(items), <<>>, F) /\ Airborne(items).items = items
    BY FreshLink DEF Airborne
  <1> QED
    BY <1>2, <1>3, <1>4, <1>5 DEF Fit

\* A refused upload.
LEMMA RefusalFits ==
    ASSUME NEW a, NEW F, NEW c, Controller(c), NEW items \in Seq(Task), NEW f, NEW q, Link(a, f, q, F),
           FlownBy(a, c.done, F)
    PROVE  /\ Fit(a, Failing(c, items), f, q, F)
           /\ Count(Failing(c, items)) = c.done /\ Failing(c, items).mission = items
  <1> DEFINE d == Failing(c, items)
  <1>2. d.mission = items /\ d.state = NoState /\ d.done = c.done
    BY DEF Failing, Controller
  <1>3. Controller(d)
    BY <1>2 DEF Failing, Controller, States
  <1>4. Count(d) = c.done
    BY <1>2 DEF Count
  <1> QED
    BY <1>2, <1>3, <1>4 DEF Fit

\* The end of a run.
LEMMA EndFits ==
    ASSUME NEW a, NEW F, NEW c, Controller(c), NEW D \in SUBSET Task, FlownBy(a, D, F)
    PROVE  Fit(a, Ended(c, D), Grounded, <<>>, F) /\ Count(Ended(c, D)) = D /\ Ended(c, D).mission = c.mission
  <1> DEFINE d == Ended(c, D)
  <1>2. d.mission = c.mission /\ d.state = NoState /\ d.done = D
    BY DEF Controller, Ended
  <1>3. Controller(d)
    <2>1. 0 \in 0 .. Patience
      BY SitlAssumption
    <2>2. d \in [mission : Seq(Task), state : States, done : SUBSET Task, finished : BOOLEAN, idle : 0 .. Patience]
      BY <2>1 DEF Controller, States, Ended
    <2> QED
      BY <1>2, <2>2 DEF Controller
  <1>4. Count(d) = D
    BY <1>2 DEF Count
  <1> QED
    BY <1>2, <1>3, <1>4, GroundedLink DEF Fit

\* The next event of the telemetry.
LEMMA EventFits ==
    ASSUME NEW a, NEW F, NEW c, NEW f, NEW q, Fit(a, c, f, q, F), c.state # NoState, q # <<>>,
           KnownItem(c.state, Head(q)), NEW n \in 0 .. Patience,
           NEW p, p = apply_event(c.state, Head(q))
    PROVE  /\ Takes(c.mission, c.state, Head(q), p)
           /\ FlownBy(a, completed_waypoints(p), F)
           /\ p.final = "none" =>
                 /\ Fit(a, Advanced(c, p, n), f, Tail(q), F)
                 /\ Count(Advanced(c, p, n)) = c.done \cup completed_waypoints(p)
                 /\ Advanced(c, p, n).mission = c.mission
  <1> DEFINE e == Head(q)
             d == Advanced(c, p, n)
  <1>0. /\ Controller(c) /\ Link(a, f, q, F) /\ f.items = c.mission /\ c.mission \in Seq(Task)
        /\ c.state \in Tracker(c.mission) /\ Unfinished(c)
    BY DEF Fit, Controller
  <1>1. /\ q \in Seq(Message) /\ Tail(q) \in Seq(Message) /\ Len(q) \in Nat \ {0} /\ Len(Tail(q)) = Len(q) - 1
        /\ e = q[1] /\ e \in Message /\ \A i \in 1 .. Len(Tail(q)) : Tail(q)[i] = q[i + 1]
    BY <1>0, HeadTailProperties, EmptySeq, LenProperties, ElementOfSeq DEF Link
  <1>2. Takes(c.mission, c.state, e, p)
    BY <1>0, <1>1, TrackerTakes
  <1>3. FlownBy(a, completed_waypoints(c.state), F)
    BY DEF Fit, Count, FlownBy
  <1>4. e.kind = "reached" => <<a, c.mission[e.item]>> \in F
    <2>1. 1 \in 1 .. Len(q)
      BY <1>1
    <2> QED
      BY <1>0, <1>1, <2>1 DEF Link
  <1> HIDE DEF e
  <1>5. FlownBy(a, completed_waypoints(p), F)
    BY <1>2, <1>3, <1>4 DEF Takes, FlownBy
  <1>6. Link(a, f, Tail(q), F)
    <2>1. \A i \in 1 .. Len(Tail(q)) : i + 1 \in 1 .. Len(q) /\ Tail(q)[i] = q[i + 1]
      BY <1>1
    <2>2. Len(Tail(q)) <= MaxQueue
      BY <1>0, <1>1, SitlAssumption DEF Link
    <2>3. \A i \in 1 .. Len(Tail(q)) :
              Tail(q)[i].kind = "reached" =>
                  Tail(q)[i].item \in 1 .. Len(f.items) /\ <<a, f.items[Tail(q)[i].item]>> \in F
      BY <1>0, <2>1 DEF Link
    <2> QED
      BY <1>0, <1>1, <2>2, <2>3 DEF Link
  <1>7. ASSUME p.final = "none"
        PROVE  /\ Fit(a, d, f, Tail(q), F)
               /\ Count(d) = c.done \cup completed_waypoints(p) /\ d.mission = c.mission
    <2>1. p \in Tracker(c.mission)
      BY <1>2, <1>7 DEF Takes
    <2>2. p # NoState /\ p \in States
      BY <1>0, <2>1, TrackerParts
    <2>3. d.mission = c.mission /\ d.state = p /\ d.done = c.done /\ d.finished = c.finished
      BY <1>0 DEF Controller, Advanced
    <2>4. Controller(d)
      BY <1>0, <2>1, <2>2, <2>3 DEF Controller, Unfinished, Advanced
    <2> HIDE DEF d
    <2>5. Count(d) = c.done \cup completed_waypoints(p)
      BY <2>2, <2>3 DEF Count
    <2>6. FlownBy(a, c.done, F)
      BY DEF Fit, Count, FlownBy
    <2> QED
      BY <1>0, <1>5, <1>6, <2>3, <2>4, <2>5, <2>6 DEF Fit, FlownBy
  <1> QED
    BY <1>2, <1>5, <1>7 DEF e

\* The mission of an agent that is not running is only noted.
LEMMA NoteFits ==
    ASSUME NEW a, NEW F, NEW c, NEW f, NEW q, Fit(a, c, f, q, F), c.state = NoState, NEW items \in Seq(Task)
    PROVE  LET d == [c EXCEPT !.mission = items]
           IN  Fit(a, d, f, q, F) /\ Count(d) = Count(c) /\ d.mission = items
  <1> DEFINE d == [c EXCEPT !.mission = items]
  <1>1. Controller(c)
    BY DEF Fit
  <1>2. d.mission = items /\ d.state = NoState /\ d.done = c.done
    BY <1>1 DEF Controller
  <1>3. Controller(d)
    BY <1>1, <1>2 DEF Controller
  <1>4. Count(d) = Count(c)
    BY <1>2 DEF Count
  <1> QED
    BY <1>2, <1>3, <1>4 DEF Fit

\* Completions are merged before a mission is replaced.
LEMMA MergeFits ==
    ASSUME NEW a, NEW F, NEW c, NEW f, NEW q, Fit(a, c, f, q, F)
    PROVE  LET d == [c EXCEPT !.done = Count(c)]
           IN  /\ Controller(d) /\ d.done = Count(c) /\ d.finished = c.finished
               /\ FlownBy(a, d.done, F)
  <1> DEFINE d == [c EXCEPT !.done = Count(c)]
  <1>1. Controller(c) /\ Count(c) \in SUBSET Task
    BY CountBounds DEF Fit
  <1>2. d.mission = c.mission /\ d.state = c.state /\ d.done = Count(c) /\ d.finished = c.finished
    BY <1>1 DEF Controller
  <1>3. Controller(d)
    BY <1>1, <1>2 DEF Controller, Unfinished
  <1> QED
    BY <1>2, <1>3 DEF Fit

\* One more poll without progress.
LEMMA IdleFits ==
    ASSUME NEW a, NEW F, NEW c, NEW f, NEW q, Fit(a, c, f, q, F), c.idle < Patience
    PROVE  LET d == [c EXCEPT !.idle = @ + 1]
           IN  Fit(a, d, f, q, F) /\ Count(d) = Count(c) /\ d.mission = c.mission
  <1> DEFINE d == [c EXCEPT !.idle = @ + 1]
  <1>1. Controller(c) /\ c.idle + 1 \in 0 .. Patience
    BY SitlAssumption DEF Fit, Controller
  <1>2. d.mission = c.mission /\ d.state = c.state /\ d.done = c.done /\ d.finished = c.finished
    BY <1>1 DEF Controller
  <1>3. Controller(d)
    BY <1>1, <1>2 DEF Controller, Unfinished
  <1>4. Count(d) = Count(c)
    BY <1>2 DEF Count
  <1> QED
    BY <1>2, <1>3, <1>4 DEF Fit

-----------------------------------------------------------------------------
\* The agents as a whole: a step touches one of them.

Touches(a) ==
    /\ ctl' = [x \in Agent |-> IF x = a THEN ctl'[a] ELSE ctl[x]]
    /\ fc' = [x \in Agent |-> IF x = a THEN fc'[a] ELSE fc[x]]
    /\ tel' = [x \in Agent |-> IF x = a THEN tel'[a] ELSE tel[x]]

LEMMA TouchKeeps ==
    ASSUME Fitted, NEW a \in Agent, Touches(a), Fit(a, ctl'[a], fc'[a], tel'[a], flown'),
           flown \subseteq flown', flown' \subseteq Agent \X Task
    PROVE  Fitted' /\ \A x \in Agent : x # a => ctl'[x] = ctl[x]
  <1>1. \A x \in Agent : x # a => ctl'[x] = ctl[x] /\ fc'[x] = fc[x] /\ tel'[x] = tel[x]
    BY DEF Touches
  <1>2. \A x \in Agent : Fit(x, ctl'[x], fc'[x], tel'[x], flown')
    BY <1>1, FitGrows DEF Fitted
  <1>3. ctl' = [x \in Agent |-> ctl'[x]] /\ fc' = [x \in Agent |-> fc'[x]] /\ tel' = [x \in Agent |-> tel'[x]]
    BY DEF Touches
  <1> QED
    BY <1>1, <1>2, <1>3 DEF Fitted

LEMMA CountOf ==
    ASSUME NEW a
    PROVE  completed_waypoints_of(a) = Count(ctl[a])
  BY DEF completed_waypoints_of, Count, Running

\* The start of an agent.
LEMMA StartAgent ==
    ASSUME Fitted, NEW a \in Agent, Unfinished(ctl[a]), start_current_mission(a), flown' = flown,
           Count(ctl[a]) = {}
    PROVE  /\ Fitted' /\ \A x \in Agent : x # a => ctl'[x] = ctl[x]
           /\ ctl'[a].mission = ctl[a].mission /\ Count(ctl'[a]) = {}
  <1> DEFINE c == ctl[a]
  <1>1. /\ Fit(a, c, fc[a], tel[a], flown) /\ flown \subseteq Agent \X Task
        /\ ctl = [x \in Agent |-> ctl[x]] /\ fc = [x \in Agent |-> fc[x]] /\ tel = [x \in Agent |-> tel[x]]
    BY DEF Fitted
  <1>2. Controller(c) /\ c.mission \in Seq(Task) /\ c.done = {} /\ Link(a, fc[a], tel[a], flown)
    BY <1>1 DEF Fit, Controller, Count
  <1>3. CASE /\ ctl' = [ctl EXCEPT ![a] = Tracking(@, @.mission)]
             /\ Uploaded(a, ctl[a].mission)
    <2>1. /\ ctl'[a] = Tracking(c, c.mission) /\ tel'[a] = <<>>
          /\ fc'[a] = Airborne(c.mission)
      BY <1>1, <1>3 DEF Uploaded, Airborne
    <2>2. Touches(a)
      BY <1>1, <1>3 DEF Uploaded, Touches
    <2>3. Fit(a, ctl'[a], fc'[a], tel'[a], flown) /\ Count(ctl'[a]) = {} /\ ctl'[a].mission = c.mission
      <3> HIDE DEF c
      <3>1. Unfinished(c) /\ FlownBy(a, c.done, flown)
        BY <1>2 DEF c, FlownBy
      <3> DEFINE d == Tracking(c, c.mission)
      <3>2. Fit(a, d, Airborne(c.mission), <<>>, flown) /\ Count(d) = c.done /\ d.mission = c.mission
        <4>1. \A cc, items : Controller(cc) /\ Unfinished(cc) /\ items \in Seq(Task) /\ FlownBy(a, cc.done, flown)
                  => /\ Fit(a, Tracking(cc, items), Airborne(items), <<>>, flown)
                     /\ Count(Tracking(cc, items)) = cc.done /\ Tracking(cc, items).mission = items
          BY UploadFits
        <4> QED
          BY <1>2, <3>1, <4>1
      <3> HIDE DEF d
      <3>3. ctl'[a] = d /\ fc'[a] = Airborne(c.mission) /\ tel'[a] = <<>>
        BY <2>1 DEF d
      <3> QED
        BY <1>2, <3>2, <3>3
    <2> QED
      BY <1>1, <2>2, <2>3, TouchKeeps
  <1>4. CASE /\ ctl' = [ctl EXCEPT ![a] = Failing(@, @.mission)]
             /\ UNCHANGED <<fc, tel>>
    <2>1. ctl'[a] = Failing(c, c.mission) /\ tel'[a] = tel[a] /\ fc'[a] = fc[a]
      BY <1>1, <1>4
    <2>2. Touches(a)
      BY <1>1, <1>4 DEF Touches
    <2>3. Fit(a, ctl'[a], fc'[a], tel'[a], flown) /\ Count(ctl'[a]) = {} /\ ctl'[a].mission = c.mission
      <3> HIDE DEF c
      <3>1. FlownBy(a, c.done, flown)
        BY <1>2 DEF FlownBy
      <3>2. /\ Fit(a, Failing(c, c.mission), fc[a], tel[a], flown)
            /\ Count(Failing(c, c.mission)) = c.done /\ Failing(c, c.mission).mission = c.mission
        <4>1. \A cc, items, f, q : Controller(cc) /\ items \in Seq(Task) /\ Link(a, f, q, flown) /\ FlownBy(a, cc.done, flown)
                  => /\ Fit(a, Failing(cc, items), f, q, flown)
                     /\ Count(Failing(cc, items)) = cc.done /\ Failing(cc, items).mission = items
          BY RefusalFits
        <4>2. Controller(c) /\ c.mission \in Seq(Task) /\ Link(a, fc[a], tel[a], flown) /\ FlownBy(a, c.done, flown)
          BY <1>2, <3>1
        <4> QED
          BY <4>1, <4>2
      <3> QED
        BY <1>2, <2>1, <3>2
    <2> QED
      BY <1>1, <2>2, <2>3, TouchKeeps
  <1> QED
    BY <1>3, <1>4 DEF start_current_mission

\* The replacement of a mission: nothing that was counted is forgotten.
LEMMA ReplaceAgent ==
    ASSUME Fitted, NEW a \in Agent, NEW items \in Seq(Task), replace_mission(a, items), flown' = flown
    PROVE  /\ Fitted' /\ \A x \in Agent : x # a => ctl'[x] = ctl[x]
           /\ ctl'[a].mission = items /\ Count(ctl'[a]) = Count(ctl[a])
  <1> DEFINE c == ctl[a]
             kept == [c EXCEPT !.done = Count(c)]
  <1>1. /\ Fit(a, c, fc[a], tel[a], flown) /\ flown \subseteq Agent \X Task
        /\ ctl = [x \in Agent |-> ctl[x]] /\ fc = [x \in Agent |-> fc[x]] /\ tel = [x \in Agent |-> tel[x]]
    BY DEF Fitted
  <1>2. /\ Controller(kept) /\ kept.done = Count(c) /\ kept.finished = c.finished
        /\ FlownBy(a, kept.done, flown)
    BY <1>1, MergeFits
  <1>3. kept = [ctl[a] EXCEPT !.done = completed_waypoints_of(a)]
    BY CountOf
  <1> HIDE DEF kept
  <1>4. CASE /\ ~Running(a)
             /\ ctl' = [ctl EXCEPT ![a].mission = items] /\ UNCHANGED <<fc, tel, faults>>
    <2>1. ctl'[a] = [c EXCEPT !.mission = items] /\ tel'[a] = tel[a] /\ fc'[a] = fc[a]
      BY <1>1, <1>4
    <2>2. Touches(a)
      BY <1>1, <1>4 DEF Touches
    <2>3. Fit(a, ctl'[a], fc'[a], tel'[a], flown) /\ Count(ctl'[a]) = Count(c) /\ ctl'[a].mission = items
      <3> DEFINE d == [c EXCEPT !.mission = items]
      <3>1. Fit(a, d, fc[a], tel[a], flown) /\ Count(d) = Count(c) /\ d.mission = items
        BY <1>1, <1>4, NoteFits DEF Running
      <3> HIDE DEF d
      <3>2. ctl'[a] = d
        BY <2>1 DEF d
      <3> QED
        BY <2>1, <3>1, <3>2
    <2> QED
      BY <1>1, <2>2, <2>3, TouchKeeps
  <1>5. CASE Running(a) /\ ctl' = [ctl EXCEPT ![a] = Tracking(kept, items)] /\ Uploaded(a, items)
    <2>0. Unfinished(kept)
      BY <1>1, <1>2, <1>5 DEF Running, Fit, Controller, Unfinished
    <2>1. /\ ctl'[a] = Tracking(kept, items) /\ tel'[a] = <<>>
          /\ fc'[a] = Airborne(items)
      BY <1>1, <1>5 DEF Uploaded, Airborne
    <2>2. Touches(a)
      BY <1>1, <1>5 DEF Uploaded, Touches
    <2>3. Fit(a, ctl'[a], fc'[a], tel'[a], flown) /\ Count(ctl'[a]) = Count(c) /\ ctl'[a].mission = items
      <3> DEFINE d == Tracking(kept, items)
      <3>1. Fit(a, d, Airborne(items), <<>>, flown) /\ Count(d) = kept.done /\ d.mission = items
        <4>1. \A cc, its : Controller(cc) /\ Unfinished(cc) /\ its \in Seq(Task) /\ FlownBy(a, cc.done, flown)
                  => /\ Fit(a, Tracking(cc, its), Airborne(its), <<>>, flown)
                     /\ Count(Tracking(cc, its)) = cc.done /\ Tracking(cc, its).mission = its
          BY UploadFits
        <4> QED
          BY <1>2, <2>0, <4>1
      <3> HIDE DEF d
      <3>2. ctl'[a] = d /\ fc'[a] = Airborne(items) /\ tel'[a] = <<>>
        BY <2>1 DEF d
      <3> QED
        BY <1>2, <3>1, <3>2
    <2> QED
      BY <1>1, <2>2, <2>3, TouchKeeps
  <1>6. CASE /\ Running(a) /\ ctl' = [ctl EXCEPT ![a] = Failing(kept, items)]
             /\ fc' = [fc EXCEPT ![a] = Grounded] /\ tel' = [tel EXCEPT ![a] = <<>>]
    <2>1. ctl'[a] = Failing(kept, items) /\ tel'[a] = <<>> /\ fc'[a] = Grounded
      BY <1>1, <1>6
    <2>2. Touches(a)
      BY <1>1, <1>6 DEF Touches
    <2>3. Fit(a, ctl'[a], fc'[a], tel'[a], flown) /\ Count(ctl'[a]) = Count(c) /\ ctl'[a].mission = items
      <3> DEFINE d == Failing(kept, items)
      <3>1. Link(a, Grounded, <<>>, flown)
        BY GroundedLink
      <3>2. Fit(a, d, Grounded, <<>>, flown) /\ Count(d) = kept.done /\ d.mission = items
        BY <1>2, <3>1, RefusalFits
      <3> HIDE DEF d
      <3>3. ctl'[a] = d
        BY <2>1 DEF d
      <3> QED
        BY <1>2, <2>1, <3>2, <3>3
    <2> QED
      BY <1>1, <2>2, <2>3, TouchKeeps
  <1> QED
    BY <1>3, <1>4, <1>5, <1>6 DEF replace_mission

\* The end of a run.
LEMMA EndAgent ==
    ASSUME Fitted, NEW a \in Agent, NEW status, NEW D \in SUBSET Task, EndRun(a, status, D), flown' = flown,
           FlownBy(a, D, flown)
    PROVE  /\ Fitted' /\ \A x \in Agent : x # a => ctl'[x] = ctl[x]
           /\ ctl'[a].mission = ctl[a].mission /\ Count(ctl'[a]) = D
  <1> DEFINE c == ctl[a]
  <1>1. /\ Fit(a, c, fc[a], tel[a], flown) /\ flown \subseteq Agent \X Task
        /\ ctl = [x \in Agent |-> ctl[x]] /\ fc = [x \in Agent |-> fc[x]] /\ tel = [x \in Agent |-> tel[x]]
    BY DEF Fitted
  <1>2. Controller(c)
    BY <1>1 DEF Fit
  <1>3. /\ ctl' = [ctl EXCEPT ![a].done = D, ![a].state = NoState, ![a].finished = FALSE, ![a].idle = 0]
        /\ fc' = [fc EXCEPT ![a] = Grounded] /\ tel' = [tel EXCEPT ![a] = <<>>]
    BY DEF EndRun
  <1>4. ctl'[a] = Ended(c, D) /\ tel'[a] = <<>> /\ fc'[a] = Grounded
    BY <1>1, <1>3 DEF Ended
  <1>5. Touches(a)
    BY <1>1, <1>3 DEF Touches
  <1>6. Fit(a, ctl'[a], fc'[a], tel'[a], flown) /\ Count(ctl'[a]) = D /\ ctl'[a].mission = c.mission
    <2> HIDE DEF c
    <2>1. Fit(a, Ended(c, D), Grounded, <<>>, flown) /\ Count(Ended(c, D)) = D /\ Ended(c, D).mission = c.mission
      BY <1>2, EndFits
    <2> QED
      BY <1>4, <2>1
  <1> QED
    BY <1>1, <1>5, <1>6, TouchKeeps

-----------------------------------------------------------------------------
\* Facts about the supervisor's state.

LEMMA FiniteAgents ==
    /\ IsFiniteSet(Agent) /\ Cardinality(Agent) = N
    /\ \A A \in SUBSET Agent : IsFiniteSet(A) /\ Cardinality(A) \in Nat /\ Cardinality(A) <= N
  <1>1. N \in Nat \ {0}
    BY SitlAssumption
  <1>2. IsFiniteSet(Agent) /\ Cardinality(Agent) = N
    BY <1>1, FS_Interval DEF Agent
  <1> QED
    BY <1>2, FS_Subset, FS_CardinalityType

LEMMA ManifestFacts ==
    ASSUME manifest \in Configs
    PROVE  /\ manifest \in [Agent -> Seq(Task)] /\ assigned_tasks \subseteq Task /\ IsFiniteSet(assigned_tasks)
           /\ \A a \in Agent : manifest[a] \in Seq(Task) /\ ToSet(manifest[a]) \subseteq assigned_tasks
           /\ \A t \in assigned_tasks : \E a \in Agent : t \in ToSet(manifest[a])
  <1>1. manifest \in [Agent -> Seq(Task)]
    BY SitlAssumption
  <1>2. \A a \in Agent : manifest[a] \in Seq(Task) /\ ToSet(manifest[a]) \subseteq Task
    BY <1>1, Elements
  <1>3. assigned_tasks \in SUBSET Task
    BY <1>2 DEF assigned_tasks
  <1>4. IsFiniteSet(assigned_tasks)
    BY <1>3, FS_Subset, SitlAssumption
  <1> QED
    BY <1>1, <1>2, <1>3, <1>4 DEF assigned_tasks

LEMMA CompletedIs ==
    ASSUME Ending, NEW t
    PROVE  Completed(t) <=> \E a \in Agent : t \in Count(ctl[a])
  <1>1. \A a \in Agent : completed_waypoints_of(a) = Count(ctl[a])
    BY CountOf
  <1>2. \A a \in Agent : runs[a].completed \subseteq Count(ctl[a])
    BY DEF Ending
  <1> QED
    BY <1>1, <1>2 DEF Completed

LEMMA AccountableBefore ==
    ASSUME Recoveries \subseteq Recoveries', Accountable'
    PROVE  Accountable
  <1>1. Recoveries' \in SUBSET Agent
    BY DEF Recoveries
  <1>2. IsFiniteSet(Recoveries') /\ Cardinality(Recoveries') \in Nat
    BY <1>1, FiniteAgents
  <1>3. Cardinality(Recoveries) <= Cardinality(Recoveries') /\ Cardinality(Recoveries) \in Nat
    BY <1>2, FS_Subset, FS_CardinalityType
  <1>4. N <= 3 \/ Cardinality(Recoveries') <= 1
    BY DEF Accountable
  <1> QED
    BY <1>2, <1>3, <1>4 DEF Accountable

\* Counts grow, and only within the mission of an active agent.
Grows ==
    \A x \in Agent :
        /\ Count(ctl[x]) \subseteq Count(ctl'[x])
        /\ Count(ctl'[x]) # Count(ctl[x]) =>
              x \in active /\ Count(ctl'[x]) \subseteq Count(ctl[x]) \cup ToSet(ctl[x].mission)

\* Nobody gets anything to do that it did not have.
Goes ==
    /\ manifest' = manifest /\ active' \subseteq active /\ Recoveries \subseteq Recoveries'
    /\ Grows
    /\ \A x \in Agent : Load(x)' \subseteq Load(x)

LEMMA CompletedStays ==
    ASSUME Ending, Ending', Grows, NEW t, Completed(t)
    PROVE  Completed(t)'
  <1>1. PICK a \in Agent : t \in Count(ctl[a])
    BY CompletedIs
  <1>2. t \in Count(ctl'[a])
    BY <1>1 DEF Grows
  <1>3. \A a1 \in Agent : completed_waypoints_of(a1)' = Count(ctl'[a1])
    BY DEF completed_waypoints_of, Count, Running
  <1> QED
    BY <1>2, <1>3 DEF Completed

LEMMA WithinStays ==
    ASSUME Within, Goes
    PROVE  Within'
  <1>1. assigned_tasks' = assigned_tasks
    BY DEF assigned_tasks, Goes
  <1>2. \A x \in Agent : ToSet(ctl[x].mission) \subseteq Load(x)
    BY DEF Load
  <1>3. \A x \in Agent : Count(ctl'[x]) \subseteq assigned_tasks
    BY <1>2 DEF Within, Goes, Grows
  <1>4. \A x \in Agent : Load(x)' \subseteq assigned_tasks
    BY DEF Within, Goes
  <1> QED
    BY <1>1, <1>3, <1>4 DEF Within

\* The three parts of Apart, by name.
LoadsApart == \A a, b \in active : a # b => Load(a) \cap Load(b) = {}
CountsOff == \A a \in Agent : \A b \in active : a # b => Count(ctl[a]) \cap Load(b) = {}
CountsApart == \A a, b \in Agent : a # b => Count(ctl[a]) \cap Count(ctl[b]) = {}

\* Completions alone never make a task count twice.
LEMMA CountsStayApart ==
    ASSUME Grows, LoadsApart, CountsOff, CountsApart, active \subseteq Agent
    PROVE  /\ CountsApart'
           /\ \A a \in Agent : \A b \in active : a # b => Count(ctl'[a]) \cap Load(b) = {}
  <1>1. ASSUME NEW a \in Agent, NEW b \in active, a # b PROVE Count(ctl'[a]) \cap Load(b) = {}
    <2>1. CASE Count(ctl'[a]) = Count(ctl[a])
      BY <1>1, <2>1 DEF CountsOff
    <2>2. CASE Count(ctl'[a]) # Count(ctl[a])
      <3>1. a \in active /\ Count(ctl'[a]) \subseteq Count(ctl[a]) \cup Load(a)
        BY <2>2 DEF Grows, Load
      <3>2. Load(a) \cap Load(b) = {} /\ Count(ctl[a]) \cap Load(b) = {}
        BY <1>1, <3>1 DEF LoadsApart, CountsOff
      <3> QED
        BY <3>1, <3>2
    <2> QED
      BY <2>1, <2>2
  <1>2. ASSUME NEW a \in Agent, NEW b \in Agent, a # b PROVE Count(ctl'[a]) \cap Count(ctl'[b]) = {}
    <2>1. Count(ctl[a]) \cap Count(ctl[b]) = {}
      BY <1>2 DEF CountsApart
    <2>2. CASE Count(ctl'[b]) = Count(ctl[b]) /\ Count(ctl'[a]) = Count(ctl[a])
      BY <2>1, <2>2
    <2>3. CASE Count(ctl'[b]) # Count(ctl[b]) /\ Count(ctl'[a]) = Count(ctl[a])
      <3>1. b \in active /\ Count(ctl'[b]) \subseteq Count(ctl[b]) \cup Load(b)
        BY <2>3 DEF Grows, Load
      <3>2. Count(ctl'[a]) \cap Load(b) = {}
        BY <1>1, <1>2, <3>1
      <3> QED
        BY <2>1, <2>3, <3>1, <3>2
    <2>4. CASE Count(ctl'[b]) = Count(ctl[b]) /\ Count(ctl'[a]) # Count(ctl[a])
      <3>1. a \in active /\ Count(ctl'[a]) \subseteq Count(ctl[a]) \cup Load(a)
        BY <2>4 DEF Grows, Load
      <3>2. Count(ctl'[b]) \cap Load(a) = {}
        BY <1>1, <1>2, <3>1
      <3> QED
        BY <2>1, <2>4, <3>1, <3>2
    <2>5. CASE Count(ctl'[b]) # Count(ctl[b]) /\ Count(ctl'[a]) # Count(ctl[a])
      <3>1. /\ a \in active /\ Count(ctl'[a]) \subseteq Count(ctl[a]) \cup Load(a)
            /\ b \in active /\ Count(ctl'[b]) \subseteq Count(ctl[b]) \cup Load(b)
        BY <2>5 DEF Grows, Load
      <3>2. Count(ctl'[b]) \cap Load(a) = {} /\ Count(ctl'[a]) \cap Load(b) = {}
        BY <1>1, <1>2, <3>1
      <3> QED
        BY <2>1, <3>1, <3>2
    <2> QED
      BY <2>2, <2>3, <2>4, <2>5
  <1> QED
    BY <1>1, <1>2 DEF CountsApart

LEMMA ApartStays ==
    ASSUME Apart, Goes, active \subseteq Agent
    PROVE  Apart'
  <1> SUFFICES ASSUME Accountable' PROVE LoadsApart' /\ CountsOff' /\ CountsApart'
    BY DEF Apart, LoadsApart, CountsOff, CountsApart
  <1>1. LoadsApart /\ CountsOff /\ CountsApart
    BY AccountableBefore DEF Goes, Apart, LoadsApart, CountsOff, CountsApart
  <1>2. /\ CountsApart'
        /\ \A a \in Agent : \A b \in active : a # b => Count(ctl'[a]) \cap Load(b) = {}
    BY <1>1, CountsStayApart DEF Goes
  <1>3. active' \subseteq active /\ \A x \in Agent : Load(x)' \subseteq Load(x)
    BY DEF Goes
  <1>4. LoadsApart'
    BY <1>1, <1>3 DEF LoadsApart
  <1>5. CountsOff'
    BY <1>2, <1>3 DEF CountsOff
  <1> QED
    BY <1>2, <1>4, <1>5

LEMMA ReportStays ==
    ASSUME ReportTruthful, manifest' = manifest, overall' = overall, flown \subseteq flown',
           Recoveries \subseteq Recoveries'
    PROVE  ReportTruthful'
  <1>1. assigned_tasks' = assigned_tasks
    BY DEF assigned_tasks
  <1>2. Accountable' => Accountable
    BY AccountableBefore
  <1> QED
    BY <1>1, <1>2 DEF ReportTruthful

LEMMA OwningStays ==
    ASSUME Owning, Ending, Ending', Goes, active \subseteq Agent,
           \A x \in active' : ctl'[x].mission = ctl[x].mission /\ (plans'[x] = plans[x] \/ plans'[x] = <<>>)
    PROVE  Owning'
  <1> SUFFICES ASSUME NEW m \in active', NEW t \in ToSet(manifest'[m]), ~Completed(t)'
               PROVE  t \in ToSet(ctl'[m].mission) /\ (plans'[m] # <<>> => t \in ToSet(plans'[m]))
    BY DEF Owning
  <1>1. m \in active /\ t \in ToSet(manifest[m])
    BY DEF Goes
  <1>2. ~Completed(t)
    BY CompletedStays DEF Goes
  <1> QED
    BY <1>1, <1>2 DEF Owning

-----------------------------------------------------------------------------
\* Steps that move one agent at most and decide nothing.

LEMMA QuietKeeps ==
    ASSUME Inv, Fitted', UNCHANGED <<phase, manifest, active, runs, plans, records, victim, overall>>,
           round' \subseteq active, phase # "polling" => round' = round /\ ctl' = ctl,
           faults' \in 0 .. MaxFaults, flown \subseteq flown',
           \A x \in Agent : ctl'[x].mission = ctl[x].mission, Grows
    PROVE  Inv'
  <1>0. Base /\ Owning /\ NoneLost /\ Within /\ Apart /\ ReportTruthful
    BY DEF Inv
  <1>1. Fitted /\ Phased /\ Opening /\ Ending
    BY <1>0 DEF Base
  <1>2. /\ phase' = phase /\ manifest' = manifest /\ active' = active /\ runs' = runs /\ plans' = plans
        /\ records' = records /\ victim' = victim /\ overall' = overall
    OBVIOUS
  <1>3. Recoveries' = Recoveries /\ Pending' = Pending /\ assigned_tasks' = assigned_tasks
    BY <1>2 DEF Recoveries, Pending, assigned_tasks
  <1>4. Phased'
    BY <1>1, <1>2, <1>3 DEF Phased
  <1>5. Opening'
    <2>1. CASE phase \in {"config", "invalid", "starting"}
      <3>1. round' = round /\ ctl' = ctl
        BY <2>1
      <3> QED
        BY <1>1, <1>2, <3>1 DEF Opening
    <2>2. CASE phase \notin {"config", "invalid", "starting"}
      BY <1>2, <2>2 DEF Opening
    <2> QED
      BY <2>1, <2>2
  <1>6. Ending'
    <2>1. \A x \in Agent \ active : Count(ctl'[x]) = Count(ctl[x])
      BY DEF Grows
    <2>2. \A x \in Agent : Count(ctl[x]) \subseteq Count(ctl'[x])
      BY DEF Grows
    <2> QED
      BY <1>1, <1>2, <1>3, <2>1, <2>2 DEF Ending
  <1>7. Goes
    BY <1>2, <1>3 DEF Goes, Load
  <1>8. active \subseteq Agent
    BY <1>1 DEF Phased
  <1>9. Owning' /\ Within' /\ Apart' /\ ReportTruthful'
    BY <1>0, <1>1, <1>2, <1>3, <1>6, <1>7, <1>8, OwningStays, WithinStays, ApartStays, ReportStays
  <1>10. NoneLost'
    <2>1. \A t : Completed(t) => Completed(t)'
      BY <1>1, <1>6, CompletedStays
    <2>2. \A t : Abandoned(t) => Abandoned(t)'
      BY <1>2 DEF Abandoned
    <2>3. \A x \in active : Coming(x)' = Coming(x)
      BY <1>2, <1>8 DEF Coming
    <2> QED
      BY <1>0, <1>2, <1>3, <2>1, <2>2, <2>3 DEF NoneLost
  <1> QED
    BY <1>4, <1>5, <1>6, <1>9, <1>10 DEF Inv, Base

LEMMA NextRoundKeeps ==
    ASSUME Inv, NextRound
    PROVE  Inv'
  <1>1. /\ phase = "polling" /\ round' = active /\ ctl' = ctl /\ fc' = fc /\ tel' = tel /\ flown' = flown
        /\ faults' = faults
        /\ UNCHANGED <<phase, manifest, active, runs, plans, records, victim, overall>>
    BY DEF NextRound
  <1>2. Fitted' /\ faults \in 0 .. MaxFaults
    BY <1>1 DEF Fitted, Inv, Base, Phased
  <1>3. Grows
    BY <1>1 DEF Grows
  <1> QED
    BY <1>1, <1>2, <1>3, QuietKeeps

LEMMA PollNothingKeeps ==
    ASSUME Inv, NEW a \in Agent, PollNothing(a)
    PROVE  Inv'
  <1> DEFINE c == ctl[a]
  <1>1. /\ phase = "polling" /\ round' = round \ {a} /\ fc' = fc /\ tel' = tel /\ flown' = flown
        /\ faults' = faults /\ c.idle < Patience /\ ctl' = [ctl EXCEPT ![a].idle = @ + 1]
        /\ UNCHANGED <<phase, manifest, active, runs, plans, records, victim, overall>>
    BY DEF PollNothing, Turn
  <1>2. /\ Fitted /\ Fit(a, c, fc[a], tel[a], flown) /\ flown \subseteq Agent \X Task
        /\ ctl = [x \in Agent |-> ctl[x]] /\ fc = [x \in Agent |-> fc[x]] /\ tel = [x \in Agent |-> tel[x]]
        /\ faults \in 0 .. MaxFaults /\ round \subseteq active
    BY DEF Inv, Base, Fitted, Phased
  <1>3. ctl'[a] = [c EXCEPT !.idle = @ + 1] /\ Touches(a)
    BY <1>1, <1>2 DEF Touches
  <1>4. Fit(a, ctl'[a], fc'[a], tel'[a], flown') /\ Count(ctl'[a]) = Count(c) /\ ctl'[a].mission = c.mission
    <2> DEFINE d == [c EXCEPT !.idle = @ + 1]
    <2>1. Fit(a, d, fc[a], tel[a], flown) /\ Count(d) = Count(c) /\ d.mission = c.mission
      BY <1>1, <1>2, IdleFits
    <2>2. ctl'[a] = d
      BY <1>3
    <2> HIDE DEF d
    <2> QED
      BY <1>1, <2>1, <2>2
  <1>5. Fitted' /\ \A x \in Agent : x # a => ctl'[x] = ctl[x]
    BY <1>1, <1>2, <1>3, <1>4, TouchKeeps
  <1>6. Grows /\ \A x \in Agent : ctl'[x].mission = ctl[x].mission
    BY <1>4, <1>5 DEF Grows
  <1> QED
    BY <1>1, <1>2, <1>5, <1>6, QuietKeeps

\* An event that does not end the mission.
LEMMA PollEventKeeps ==
    ASSUME Inv, NEW a \in Agent, PollEvent(a), apply_event(ctl[a].state, Head(tel[a])).final = "none"
    PROVE  Inv'
  <1> DEFINE c == ctl[a]
             p == apply_event(c.state, Head(tel[a]))
             n == IF event_advances_progress(c.state, Head(tel[a]), p) THEN 0 ELSE c.idle + 1
  <1>1. /\ phase = "polling" /\ a \in round /\ round' = round \ {a} /\ fc' = fc /\ flown' = flown
        /\ tel' = [tel EXCEPT ![a] = Tail(@)]
        /\ faults' = faults /\ c.idle < Patience /\ c.state # NoState
        /\ tel[a] # <<>> /\ KnownItem(c.state, Head(tel[a]))
        /\ UNCHANGED <<phase, manifest, active, runs, plans, records, victim, overall>>
    BY DEF PollEvent, Turn, Running
  <1>2. ctl' = [ctl EXCEPT ![a].state = p,
                           ![a].idle = IF event_advances_progress(c.state, Head(tel[a]), p) THEN 0 ELSE @ + 1]
    BY DEF PollEvent
  <1>3. /\ Fitted /\ Fit(a, c, fc[a], tel[a], flown) /\ flown \subseteq Agent \X Task
        /\ ctl = [x \in Agent |-> ctl[x]] /\ fc = [x \in Agent |-> fc[x]] /\ tel = [x \in Agent |-> tel[x]]
        /\ faults \in 0 .. MaxFaults /\ round \subseteq active
    BY DEF Inv, Base, Fitted, Phased
  <1>4. n \in 0 .. Patience
    BY <1>1, <1>3, SitlAssumption DEF Fit, Controller
  <1> HIDE DEF p
  <1>5. ctl'[a] = [c EXCEPT !.state = p, !.idle = n] /\ tel'[a] = Tail(tel[a]) /\ fc'[a] = fc[a]
    BY <1>1, <1>2, <1>3
  <1>6. Touches(a)
    BY <1>1, <1>2, <1>3 DEF Touches
  <1> HIDE DEF n
  <1>7. /\ Takes(c.mission, c.state, Head(tel[a]), p)
        /\ Fit(a, ctl'[a], fc'[a], tel'[a], flown') /\ ctl'[a].mission = c.mission
        /\ Count(ctl'[a]) = c.done \cup completed_waypoints(p)
    <2> DEFINE d == Advanced(c, p, n)
    <2>0. p.final = "none"
      BY DEF p
    <2>1. /\ Takes(c.mission, c.state, Head(tel[a]), p)
          /\ Fit(a, d, fc[a], Tail(tel[a]), flown)
          /\ Count(d) = c.done \cup completed_waypoints(p) /\ d.mission = c.mission
      <3> HIDE DEF c
      <3>1. /\ Fit(a, c, fc[a], tel[a], flown) /\ c.state # NoState /\ tel[a] # <<>>
            /\ KnownItem(c.state, Head(tel[a])) /\ p = apply_event(c.state, Head(tel[a]))
        BY <1>1, <1>3 DEF p, c
      <3> QED
        BY <1>4, <2>0, <3>1, EventFits
    <2>2. ctl'[a] = d
      BY <1>5 DEF Advanced
    <2> HIDE DEF d
    <2> QED
      BY <1>1, <1>5, <2>1, <2>2
  <1>8. Count(c) \subseteq Count(ctl'[a]) /\ Count(ctl'[a]) \subseteq Count(c) \cup ToSet(c.mission)
    <2>1. Count(c) = c.done \cup completed_waypoints(c.state)
      BY <1>1 DEF Count
    <2> QED
      BY <1>7, <2>1 DEF Takes
  <1>9. Fitted' /\ \A x \in Agent : x # a => ctl'[x] = ctl[x]
    BY <1>1, <1>3, <1>6, <1>7, TouchKeeps
  <1>10. Grows /\ \A x \in Agent : ctl'[x].mission = ctl[x].mission
    BY <1>1, <1>3, <1>7, <1>8, <1>9 DEF Grows
  <1> QED
    BY <1>1, <1>3, <1>9, <1>10, QuietKeeps

-----------------------------------------------------------------------------
\* The vehicles.

LEMMA SaysFits ==
    ASSUME NEW a \in Agent, NEW f, NEW q, NEW F, Link(a, f, q, F), Len(q) < MaxQueue, NEW e \in Message,
           e.kind = "reached" => e.item \in 1 .. Len(f.items) /\ <<a, f.items[e.item]>> \in F
    PROVE  Link(a, f, Append(q, e), F)
  <1> DEFINE r == Append(q, e)
  <1>1. q \in Seq(Message) /\ Len(q) \in Nat
    BY LenProperties DEF Link
  <1>2. /\ r \in Seq(Message) /\ Len(r) = Len(q) + 1 /\ \A i \in 1 .. Len(q) : r[i] = q[i]
        /\ r[Len(q) + 1] = e
    BY <1>1, AppendProperties
  <1> HIDE DEF r
  <1>3. Len(r) <= MaxQueue
    BY <1>1, <1>2, SitlAssumption
  <1>4. ASSUME NEW i \in 1 .. Len(r), r[i].kind = "reached"
        PROVE  r[i].item \in 1 .. Len(f.items) /\ <<a, f.items[r[i].item]>> \in F
    <2>1. i \in 1 .. Len(q) \/ i = Len(q) + 1
      BY <1>1, <1>2
    <2>2. CASE i \in 1 .. Len(q)
      <3>1. r[i] = q[i]
        BY <1>2, <2>2
      <3> QED
        BY <1>4, <2>2, <3>1 DEF Link
    <2>3. CASE i = Len(q) + 1
      <3>1. r[i] = e
        BY <1>2, <2>3
      <3> QED
        BY <1>4, <3>1
    <2> QED
      BY <2>1, <2>2, <2>3
  <1>5. Link(a, f, r, F)
    BY <1>2, <1>3, <1>4 DEF Link
  <1> QED
    BY <1>5 DEF r

\* A step of a vehicle leaves the supervisor alone.
LEMMA VehicleMoves ==
    ASSUME Inv, NEW a \in Agent, UNCHANGED <<sup, ctl>>, Touches(a), Link(a, fc'[a], tel'[a], flown'),
           fc'[a].items = fc[a].items, flown \subseteq flown', flown' \subseteq Agent \X Task,
           faults' \in 0 .. MaxFaults
    PROVE  Inv'
  <1>1. /\ ctl' = ctl /\ round' = round
        /\ UNCHANGED <<phase, manifest, active, runs, plans, records, victim, overall>>
    BY DEF sup
  <1>2. Fitted /\ Fit(a, ctl[a], fc[a], tel[a], flown) /\ round \subseteq active
    BY DEF Inv, Base, Fitted, Phased
  <1>3. Fit(a, ctl'[a], fc'[a], tel'[a], flown')
    BY <1>1, <1>2 DEF Fit, FlownBy
  <1>4. Fitted'
    BY <1>2, <1>3, TouchKeeps
  <1>5. Grows
    BY <1>1 DEF Grows
  <1> QED
    BY <1>1, <1>2, <1>4, <1>5, QuietKeeps

LEMMA VehicleKeeps ==
    ASSUME Inv, NEW a \in Agent, Vehicle(a)
    PROVE  Inv'
  <1> DEFINE f == fc[a]
             q == tel[a]
  <1>1. /\ Fitted /\ Link(a, f, q, flown) /\ flown \subseteq Agent \X Task
        /\ ctl = [x \in Agent |-> ctl[x]] /\ fc = [x \in Agent |-> fc[x]] /\ tel = [x \in Agent |-> tel[x]]
        /\ faults \in 0 .. MaxFaults
    BY DEF Inv, Base, Fitted, Phased, Fit
  <1>2. /\ f \in [on : BOOLEAN, items : Seq(Task), next : Nat \ {0}] /\ f.items \in Seq(Task) /\ f.next \in Nat \ {0}
        /\ Len(f.items) \in Nat
    BY <1>1, LenProperties DEF Link
  <1>3. \A n : Charge(n) => faults' = faults + n /\ faults + n <= MaxFaults
    BY DEF Charge
  <1>4. CASE VehicleCurrent(a)
    <2> DEFINE e == Event("current", f.next)
    <2>1. /\ tel' = [tel EXCEPT ![a] = Append(@, e)] /\ fc' = fc /\ flown' = flown /\ faults' = faults
          /\ UNCHANGED <<sup, ctl>> /\ Len(q) < MaxQueue
      BY <1>4 DEF VehicleCurrent, Reports, Flying
    <2>2. e \in Message /\ e.kind # "reached"
      BY <1>2 DEF Event, Message, EventKinds
    <2> HIDE DEF e
    <2>3. Touches(a) /\ tel'[a] = Append(q, e) /\ fc'[a] = f
      BY <1>1, <2>1 DEF Touches
    <2>4. Link(a, f, Append(q, e), flown)
      BY <1>1, <2>1, <2>2, SaysFits
    <2> QED
      BY <1>1, <2>1, <2>3, <2>4, VehicleMoves
  <1>5. CASE VehicleReached(a)
    <2> DEFINE e == Event("reached", f.next)
               g == [f EXCEPT !.next = @ + 1]
    <2>1. /\ flown' = flown \cup {<<a, f.items[f.next]>>} /\ fc' = [fc EXCEPT ![a].next = @ + 1]
          /\ UNCHANGED <<sup, ctl>> /\ Len(q) < MaxQueue /\ f.next <= Len(f.items)
          /\ \/ tel' = [tel EXCEPT ![a] = Append(@, e)] /\ faults' = faults
             \/ Charge(1) /\ tel' = tel
      BY <1>5 DEF VehicleReached, Reports, Flying
    <2>2. f.next \in 1 .. Len(f.items) /\ f.items[f.next] \in Task
      BY <1>2, <2>1, Elements
    <2>3. flown \subseteq flown' /\ flown' \subseteq Agent \X Task /\ <<a, f.items[f.next]>> \in flown'
      BY <1>1, <2>1, <2>2
    <2>4. faults' \in 0 .. MaxFaults
      BY <1>1, <1>3, <2>1, SitlAssumption
    <2>5. e \in Message /\ e.kind = "reached" /\ e.item = f.next
      BY <1>2 DEF Event, Message, EventKinds
    <2> HIDE DEF e
    <2>6. g.items = f.items /\ g \in [on : BOOLEAN, items : Seq(Task), next : Nat \ {0}] /\ g.next = f.next + 1
      BY <1>2
    <2>7. fc'[a] = g
      BY <1>1, <2>1
    <2> HIDE DEF g
    <2>8. Link(a, f, q, flown')
      BY <1>1, <2>3, LinkGrows
    <2>9. \A r : Link(a, f, r, flown') => Link(a, g, r, flown')
      BY <1>2, <2>2, <2>6 DEF Link
    <2>10. CASE tel' = [tel EXCEPT ![a] = Append(@, e)] /\ faults' = faults
      <3>1. Link(a, f, Append(q, e), flown')
        BY <2>1, <2>2, <2>3, <2>5, <2>8, SaysFits
      <3>2. Touches(a) /\ tel'[a] = Append(q, e)
        BY <1>1, <2>1, <2>10 DEF Touches
      <3> QED
        BY <2>1, <2>3, <2>4, <2>6, <2>7, <2>9, <3>1, <3>2, VehicleMoves
    <2>11. CASE Charge(1) /\ tel' = tel
      <3>1. Touches(a) /\ tel'[a] = q
        BY <1>1, <2>1, <2>11 DEF Touches
      <3> QED
        BY <2>1, <2>3, <2>4, <2>6, <2>7, <2>8, <2>9, <3>1, VehicleMoves
    <2> QED
      BY <2>1, <2>10, <2>11
  <1>6. CASE VehicleAck(a)
    <2>1. PICK kind \in {"complete", "rejected"} : tel' = [tel EXCEPT ![a] = Append(@, Event(kind, 0))]
      BY <1>6 DEF VehicleAck, Reports
    <2> DEFINE e == Event(kind, 0)
    <2>2. fc' = fc /\ flown' = flown /\ Charge(1) /\ UNCHANGED <<sup, ctl>> /\ Len(q) < MaxQueue
      BY <1>6 DEF VehicleAck
    <2>3. e \in Message /\ e.kind # "reached"
      BY DEF Event, Message, EventKinds
    <2> HIDE DEF e
    <2>4. Touches(a) /\ tel'[a] = Append(q, e) /\ fc'[a] = f
      BY <1>1, <2>1, <2>2 DEF Touches, e
    <2>5. Link(a, f, Append(q, e), flown)
      BY <1>1, <2>2, <2>3, SaysFits
    <2>6. faults' \in 0 .. MaxFaults
      BY <1>1, <1>3, <2>2, SitlAssumption
    <2> QED
      BY <1>1, <2>2, <2>4, <2>5, <2>6, VehicleMoves
  <1> QED
    BY <1>4, <1>5, <1>6 DEF Vehicle

-----------------------------------------------------------------------------
\* The start, and the steps that end the supervisor's work.

LEMMA InvInit == Init => Inv
  <1> SUFFICES ASSUME Init PROVE Inv
    OBVIOUS
  <1>1. /\ phase = "config" /\ manifest \in Configs /\ active = {} /\ round = {} /\ victim = 0 /\ overall = "none"
        /\ runs = [a \in Agent |-> NoRun] /\ plans = [a \in Agent |-> <<>>] /\ records = [a \in Agent |-> NoRecord]
        /\ fc = [a \in Agent |-> Grounded] /\ tel = [a \in Agent |-> <<>>] /\ flown = {} /\ faults = 0
        /\ ctl = [a \in Agent |-> [mission |-> manifest[a], state |-> NoState, done |-> {},
                                   finished |-> FALSE, idle |-> 0]]
    BY DEF Init
  <1>2. \A a \in Agent : manifest[a] \in Seq(Task) /\ ToSet(manifest[a]) \subseteq assigned_tasks
    BY <1>1, ManifestFacts
  <1>3. ASSUME NEW a \in Agent
        PROVE  /\ Controller(ctl[a]) /\ Unfinished(ctl[a]) /\ Count(ctl[a]) = {}
               /\ ctl[a].mission = manifest[a] /\ ctl[a].state = NoState
    <2> DEFINE c == [mission |-> manifest[a], state |-> NoState, done |-> {}, finished |-> FALSE, idle |-> 0]
    <2>1. ctl[a] = c
      BY <1>1
    <2>2. NoState \in States /\ 0 \in 0 .. Patience
      BY SitlAssumption DEF States
    <2>3. c.mission = manifest[a] /\ c.state = NoState /\ c.done = {}
      OBVIOUS
    <2>4. Controller(c)
      BY <1>2, <2>2 DEF Controller
    <2>5. Count(c) = {}
      BY <2>3 DEF Count
    <2>6. Unfinished(c)
      BY DEF Unfinished
    <2> QED
      BY <2>1, <2>3, <2>4, <2>5, <2>6
  <1>4. Fitted
    <2>1. ASSUME NEW a \in Agent PROVE Fit(a, ctl[a], fc[a], tel[a], flown)
      <3>1. Link(a, fc[a], tel[a], flown)
        BY <1>1, GroundedLink
      <3> QED
        BY <1>3, <3>1 DEF Fit, FlownBy
    <2> QED
      BY <1>1, <2>1 DEF Fitted
  <1>5. Recoveries = {} /\ Pending = {}
    BY <1>1 DEF Recoveries, Pending, NoRecord
  <1>6. Phased
    <2>1. NoRun \in [status : FinalStatuses, completed : SUBSET Task]
      BY DEF NoRun, FinalStatuses
    <2>2. NoRecord \in Record
      BY DEF NoRecord, Record, Decisions, Finals, Overalls
    <2>3. <<>> \in Seq(Task)
      BY EmptySeq
    <2>4. 0 \in 0 .. MaxFaults
      BY SitlAssumption
    <2> QED
      BY <1>1, <1>5, <2>1, <2>2, <2>3, <2>4 DEF Phased, Phases, Overalls
  <1>7. Opening
    BY <1>1, <1>3 DEF Opening
  <1>8. Ending
    BY <1>1, <1>3, <1>5 DEF Ending, NoRun
  <1>9. Owning /\ NoneLost
    BY <1>1 DEF Owning, NoneLost
  <1>10. Within
    BY <1>1, <1>2, <1>3, ElementsOfEmpty DEF Within, Load
  <1>11. Apart
    BY <1>1, <1>3 DEF Apart
  <1>12. ReportTruthful
    BY <1>1 DEF ReportTruthful
  <1> QED
    BY <1>4, <1>6, <1>7, <1>8, <1>9, <1>10, <1>11, <1>12 DEF Inv, Base

\* The configuration is accepted or refused.
LEMMA BuildKeeps ==
    ASSUME Inv, build_multi_agent_manifest
    PROVE  Inv'
  <1>1. /\ phase = "config" /\ phase' = IF validate_multi_agent_config(manifest) THEN "starting" ELSE "invalid"
        /\ manifest' = manifest /\ ctl' = ctl /\ active' = active /\ round' = round /\ runs' = runs /\ plans' = plans
        /\ records' = records /\ victim' = victim /\ overall' = overall /\ fc' = fc /\ tel' = tel /\ flown' = flown
        /\ faults' = faults
    BY DEF build_multi_agent_manifest
  <1>2. Fitted /\ Phased /\ Opening /\ Ending /\ Owning /\ NoneLost /\ Within /\ Apart /\ ReportTruthful
    BY DEF Inv, Base
  <1>3. Recoveries' = Recoveries /\ Pending' = Pending /\ assigned_tasks' = assigned_tasks
    BY <1>1 DEF Recoveries, Pending, assigned_tasks
  <1>4. Fitted'
    BY <1>1, <1>2 DEF Fitted
  <1>5. Phased'
    BY <1>1, <1>2, <1>3 DEF Phased, Phases
  <1>6. active = {} /\ 0 \in 0 .. N - 1 /\ active = 1 .. 0
    BY <1>1, <1>2, SitlAssumption DEF Opening
  <1>7. Opening'
    BY <1>1, <1>2, <1>6 DEF Opening
  <1>8. Ending'
    BY <1>1, <1>2, <1>3 DEF Ending
  <1>9. Goes
    BY <1>1, <1>3 DEF Goes, Grows, Load
  <1>10. Owning' /\ Within' /\ Apart' /\ ReportTruthful'
    BY <1>1, <1>2, <1>3, <1>6, <1>8, <1>9, OwningStays, WithinStays, ApartStays, ReportStays
  <1>11. NoneLost'
    BY <1>1 DEF NoneLost
  <1> QED
    BY <1>4, <1>5, <1>7, <1>8, <1>10, <1>11 DEF Inv, Base

\* The supervisor gives up without a report.
LEMMA PollErrorKeeps ==
    ASSUME Inv, NEW a \in Agent, PollError(a)
    PROVE  Inv'
  <1>1. /\ phase = "polling" /\ phase' = "error"
        /\ manifest' = manifest /\ ctl' = ctl /\ active' = active /\ round' = round /\ runs' = runs /\ plans' = plans
        /\ records' = records /\ victim' = victim /\ overall' = overall /\ fc' = fc /\ tel' = tel /\ flown' = flown
        /\ (faults' = faults \/ Charge(1))
    BY DEF PollError, Turn
  <1>2. Fitted /\ Phased /\ Opening /\ Ending /\ Owning /\ NoneLost /\ Within /\ Apart /\ ReportTruthful
    BY DEF Inv, Base
  <1>3. Recoveries' = Recoveries /\ Pending' = Pending /\ assigned_tasks' = assigned_tasks
    BY <1>1 DEF Recoveries, Pending, assigned_tasks
  <1>4. Fitted' /\ Opening'
    BY <1>1, <1>2 DEF Fitted, Opening
  <1>5. faults' \in 0 .. MaxFaults
    BY <1>1, <1>2, SitlAssumption DEF Phased, Charge
  <1>6. Phased'
    BY <1>1, <1>2, <1>3, <1>5 DEF Phased, Phases
  <1>7. Ending'
    BY <1>1, <1>2, <1>3 DEF Ending
  <1>8. Goes /\ active \subseteq Agent
    BY <1>1, <1>2, <1>3 DEF Goes, Grows, Load, Phased
  <1>9. Owning' /\ Within' /\ Apart' /\ ReportTruthful'
    BY <1>1, <1>2, <1>3, <1>7, <1>8, OwningStays, WithinStays, ApartStays, ReportStays
  <1>10. NoneLost'
    BY <1>1 DEF NoneLost
  <1> QED
    BY <1>4, <1>6, <1>7, <1>9, <1>10 DEF Inv, Base

\* The report: if the counts say that everything was done, it was.
LEMMA CountsSuffice ==
    ASSUME Inv, phase = "polling", active = {}, Accountable,
           live_overall_status(runs) \in {"completed", "completed_with_reallocation"}
    PROVE  \A t \in assigned_tasks : \E a \in Agent : <<a, t>> \in flown
  <1>0. Fitted /\ Phased /\ Ending /\ Within /\ Apart
    BY DEF Inv, Base
  <1>1. \A a \in Agent : runs[a] # NoRun /\ runs[a].completed = Count(ctl[a])
    BY <1>0 DEF Ending
  <1>2. \A a \in Agent : \A t \in runs[a].completed : <<a, t>> \in flown
    BY <1>0, <1>1 DEF Fitted, Fit, FlownBy
  <1>3. /\ assigned_tasks \subseteq Task /\ IsFiniteSet(assigned_tasks)
        /\ \A t \in assigned_tasks : \E a \in Agent : t \in ToSet(manifest[a])
    BY <1>0, ManifestFacts DEF Phased
  <1>4. CASE \A a \in Agent : runs[a].status = "completed"
    <2>1. Recoveries = {}
      BY <1>0, <1>4 DEF Ending, Recoveries
    <2>2. \A a \in Agent : ToSet(manifest[a]) \subseteq runs[a].completed
      BY <1>0, <1>4, <2>1 DEF Ending
    <2> QED
      BY <1>2, <1>3, <2>2
  <1>5. CASE ~\A a \in Agent : runs[a].status = "completed"
    <2>1. completed_task_count(runs) >= Cardinality(assigned_tasks)
      <3>1. ~\A a \in {x \in Agent : runs[x] # NoRun} : runs[a].status = "completed"
        BY <1>1, <1>5
      <3> QED
        BY <3>1 DEF live_overall_status
    <2>2. \A a \in Agent : runs[a].completed \subseteq assigned_tasks
      BY <1>0, <1>1 DEF Within
    <2>3. \A a, b \in Agent : a # b => runs[a].completed \cap runs[b].completed = {}
      BY <1>0, <1>1 DEF Apart
    <2> DEFINE all == UNION {runs[a].completed : a \in Agent}
    <2>4. completed_task_count(runs) = Cardinality(all)
      BY <1>3, <2>2, <2>3, CountsAddUp
    <2>5. all \in SUBSET assigned_tasks
      BY <2>2
    <2>6. \A t \in all : \E a \in Agent : t \in runs[a].completed
      OBVIOUS
    <2> HIDE DEF all
    <2>7. all = assigned_tasks
      <3>1. Cardinality(all) <= Cardinality(assigned_tasks) /\ IsFiniteSet(all)
        BY <1>3, <2>5, FS_Subset
      <3>2. Cardinality(all) \in Nat /\ Cardinality(assigned_tasks) \in Nat
        BY <1>3, <3>1, FS_CardinalityType
      <3>3. Cardinality(assigned_tasks) = Cardinality(all)
        BY <2>1, <2>4, <3>1, <3>2
      <3> QED
        BY <1>3, <2>5, <3>3, FS_Subset
    <2> QED
      BY <1>2, <2>6, <2>7
  <1> QED
    BY <1>4, <1>5

LEMMA FinishKeeps ==
    ASSUME Inv, Finish
    PROVE  Inv'
  <1>1. /\ phase = "polling" /\ active = {} /\ phase' = "done" /\ overall' = live_overall_status(runs)
        /\ manifest' = manifest /\ ctl' = ctl /\ active' = active /\ round' = round /\ runs' = runs /\ plans' = plans
        /\ records' = records /\ victim' = victim /\ fc' = fc /\ tel' = tel /\ flown' = flown
        /\ faults' = faults
    BY DEF Finish
  <1>2. Fitted /\ Phased /\ Opening /\ Ending /\ Owning /\ NoneLost /\ Within /\ Apart /\ ReportTruthful
    BY DEF Inv, Base
  <1>3. Recoveries' = Recoveries /\ Pending' = Pending /\ assigned_tasks' = assigned_tasks
    BY <1>1 DEF Recoveries, Pending, assigned_tasks
  <1>4. Fitted' /\ Opening'
    BY <1>1, <1>2 DEF Fitted, Opening
  <1>5. overall' \in Overalls
    BY <1>1 DEF live_overall_status, Overalls
  <1>6. Phased'
    BY <1>1, <1>2, <1>3, <1>5 DEF Phased, Phases
  <1>7. Ending'
    BY <1>1, <1>2, <1>3 DEF Ending
  <1>8. Goes /\ active \subseteq Agent
    BY <1>1, <1>2, <1>3 DEF Goes, Grows, Load, Phased
  <1>9. Owning' /\ Within' /\ Apart'
    BY <1>1, <1>2, <1>3, <1>7, <1>8, OwningStays, WithinStays, ApartStays
  <1>10. NoneLost'
    BY <1>1 DEF NoneLost
  <1>11. ReportTruthful'
    <2>1. Accountable' => Accountable
      BY <1>3, AccountableBefore
    <2> QED
      BY <1>1, <1>3, <2>1, CountsSuffice DEF ReportTruthful
  <1> QED
    BY <1>4, <1>6, <1>7, <1>9, <1>10, <1>11 DEF Inv, Base

-----------------------------------------------------------------------------
\* The start of one agent; the last one opens the first round.

LEMMA StartKeeps ==
    ASSUME Inv, Start
    PROVE  Inv'
  <1>0. Fitted /\ Phased /\ Opening /\ Ending /\ ReportTruthful
    BY DEF Inv, Base
  <1>1. phase = "starting" /\ victim = 0 /\ Pending = {} /\ validate_multi_agent_config(manifest)
    BY <1>0 DEF Start, Phased
  <1>2. PICK n \in 0 .. N - 1 : active = 1 .. n
    BY <1>0, <1>1 DEF Opening
  <1> DEFINE a == n + 1
  <1>3. Cardinality(active) = n /\ n \in Nat /\ N \in Nat /\ a \in Agent /\ a \notin active /\ active \cup {a} = 1 .. a
    <2>1. n \in Nat /\ N \in Nat
      BY SitlAssumption
    <2>2. Cardinality(active) = n
      <3>1. 1 \in Int /\ n \in Int /\ n - 1 + 1 = n
        BY <2>1
      <3>2. Cardinality(1 .. n) = IF 1 > n THEN 0 ELSE n - 1 + 1
        BY <3>1, FS_Interval
      <3> QED
        BY <1>2, <2>1, <3>1, <3>2
    <2>3. a \in Agent /\ a \notin active
      BY <1>2, <2>1 DEF Agent
    <2>4. active \cup {a} = 1 .. a
      BY <1>2, <2>1
    <2> QED
      BY <2>1, <2>2, <2>3, <2>4
  <1>4. /\ start_current_mission(a) /\ active' = 1 .. a
        /\ phase' = IF a = N THEN "polling" ELSE "starting"
        /\ round' = IF a = N THEN Agent ELSE {}
        /\ manifest' = manifest /\ runs' = runs /\ plans' = plans /\ records' = records /\ victim' = victim
        /\ overall' = overall /\ flown' = flown
    BY <1>3 DEF Start
  <1> HIDE DEF a
  <1>5. /\ overall = "none"
        /\ \A x \in Agent : /\ ctl[x].mission = manifest[x] /\ Count(ctl[x]) = {}
                            /\ runs[x] = NoRun /\ records[x] = NoRecord
                            /\ x \notin active => Unfinished(ctl[x])
    BY <1>0, <1>1 DEF Opening
  <1>6. /\ Fitted' /\ \A x \in Agent : x # a => ctl'[x] = ctl[x]
        /\ ctl'[a].mission = ctl[a].mission /\ Count(ctl'[a]) = {}
    BY <1>0, <1>3, <1>4, <1>5, StartAgent
  <1>7. \A x \in Agent : ctl'[x].mission = manifest[x] /\ Count(ctl'[x]) = {}
    BY <1>5, <1>6
  <1>8. faults' \in 0 .. MaxFaults
    <2>1. faults \in 0 .. MaxFaults /\ (faults' = faults \/ Charge(1))
      BY <1>0, <1>4 DEF Phased, start_current_mission
    <2> QED
      BY <2>1, SitlAssumption DEF Charge
  <1>9. Recoveries' = {} /\ Pending' = {} /\ assigned_tasks' = assigned_tasks
    <2>1. Recoveries' = Recoveries /\ Pending' = Pending /\ assigned_tasks' = assigned_tasks
      BY <1>4 DEF Recoveries, Pending, assigned_tasks
    <2>2. Recoveries = {}
      BY <1>5 DEF Recoveries, NoRecord
    <2> QED
      BY <1>1, <2>1, <2>2
  <1>10. active' \subseteq Agent /\ (a = N => active' = Agent)
    BY <1>3, <1>4 DEF Agent
  <1>11. a # N => a \in 0 .. N - 1
    BY <1>3 DEF Agent
  <1>12. phase' \in {"polling", "starting"} /\ (phase' = "starting" => a # N) /\ (phase' = "polling" => a = N)
    BY <1>4
  <1>13. Phased'
    <2>1. round' \subseteq active'
      BY <1>4, <1>10
    <2>2. phase' \in Phases /\ phase' # "recovering" /\ phase' \notin {"config", "invalid"}
      BY <1>4 DEF Phases
    <2>3. /\ manifest' \in Configs /\ runs' \in [Agent -> [status : FinalStatuses, completed : SUBSET Task]]
          /\ plans' \in [Agent -> Seq(Task)] /\ records' \in [Agent -> Record] /\ overall' \in Overalls
          /\ victim' = 0 /\ validate_multi_agent_config(manifest')
      BY <1>0, <1>1, <1>4 DEF Phased
    <2> QED
      BY <1>8, <1>9, <1>10, <2>1, <2>2, <2>3 DEF Phased, validate_multi_agent_config
  <1>14. Opening'
    <2>1. phase' \notin {"config", "invalid"}
      BY <1>4
    <2>2. ASSUME phase' = "starting" PROVE round' = {} /\ \E m \in 0 .. N - 1 : active' = 1 .. m
      BY <1>4, <1>11, <1>12, <2>2
    <2>3. ASSUME NEW x \in Agent, x \notin active' PROVE Unfinished(ctl'[x])
      <3>1. x # a /\ x \notin active
        BY <1>2, <1>3, <1>4, <2>3
      <3> QED
        BY <1>5, <1>6, <3>1
    <2>4. \A x \in Agent : /\ ctl'[x].mission = manifest'[x] /\ Count(ctl'[x]) = {}
                           /\ runs'[x] = NoRun /\ records'[x] = NoRecord
      BY <1>4, <1>5, <1>7
    <2> QED
      BY <1>4, <1>5, <2>1, <2>2, <2>3, <2>4 DEF Opening
  <1>15. Ending'
    <2>1. \A x \in Agent : runs'[x] = NoRun /\ runs'[x].completed = {} /\ runs'[x].status # "completed"
      BY <1>4, <1>5 DEF NoRun
    <2>2. phase' \notin {"config", "invalid", "starting"} => Agent \ active' = {}
      BY <1>10, <1>12
    <2> QED
      BY <1>4, <1>7, <1>9, <1>10, <2>1, <2>2 DEF Ending
  <1>16. \A x \in Agent : plans'[x] = <<>> /\ Load(x)' = ToSet(manifest[x])
    <2>1. \A x \in Agent : plans'[x] = <<>>
      BY <1>9 DEF Pending
    <2> QED
      BY <1>7, <2>1, ElementsOfEmpty DEF Load
  <1>17. Owning'
    BY <1>4, <1>7, <1>10, <1>16 DEF Owning
  <1>18. /\ \A x \in Agent : ToSet(manifest[x]) \subseteq assigned_tasks
         /\ \A t \in assigned_tasks : \E x \in Agent : t \in ToSet(manifest[x])
    BY <1>0, ManifestFacts DEF Phased
  <1>19. NoneLost'
    <2> SUFFICES ASSUME phase' = "polling", NEW t \in assigned_tasks
                 PROVE  \E x \in active' : t \in Coming(x)'
      BY <1>9, <1>12 DEF NoneLost
    <2>1. PICK x \in Agent : t \in ToSet(manifest[x])
      BY <1>18
    <2> QED
      BY <1>7, <1>10, <1>12, <1>16, <2>1 DEF Coming
  <1>20. Within'
    BY <1>7, <1>9, <1>16, <1>18 DEF Within
  <1>21. Apart'
    <2>1. \A x, y \in Agent : x # y => ToSet(manifest[x]) \cap ToSet(manifest[y]) = {}
      BY <1>1 DEF validate_multi_agent_config
    <2> QED
      BY <1>7, <1>10, <1>16, <2>1 DEF Apart
  <1>22. ReportTruthful'
    BY <1>4, <1>5 DEF ReportTruthful
  <1> QED
    BY <1>6, <1>13, <1>14, <1>15, <1>17, <1>19, <1>20, <1>21, <1>22 DEF Inv, Base

-----------------------------------------------------------------------------
\* A replacement is handed over, or refused.

Continued == {"continue_with_survivor", "refuse_unsafe_replacement"}

LEMMA PlanTaken ==
    ASSUME Inv, phase = "recovering", NEW b \in Pending,
           plans' = [plans EXCEPT ![b] = <<>>],
           phase' = IF Pending = {b} THEN "polling" ELSE "recovering",
           victim' = IF Pending = {b} THEN 0 ELSE victim,
           UNCHANGED <<manifest, active, round, runs, overall, flown>>, faults' \in 0 .. MaxFaults,
           NEW r \in Record, records' = [records EXCEPT ![victim] = r],
           r.decision \in Continued, records[victim].abandoned \subseteq r.abandoned,
           Fitted', \A x \in Agent : Count(ctl'[x]) = Count(ctl[x]),
           \A x \in Agent : x # b => ctl'[x].mission = ctl[x].mission,
           \/ ctl'[b].mission = plans[b]
           \/ ctl'[b].mission = ctl[b].mission /\ ToSet(plans[b]) \subseteq r.abandoned
    PROVE  Inv'
  <1>0. Fitted /\ Phased /\ Opening /\ Ending /\ Owning /\ NoneLost /\ Within /\ Apart /\ ReportTruthful
    BY DEF Inv, Base
  <1>1. /\ victim \in Recoveries /\ Pending \subseteq active /\ active \subseteq Agent /\ round \subseteq active
        /\ plans \in [Agent -> Seq(Task)] /\ records \in [Agent -> Record]
    BY <1>0 DEF Phased
  <1>2. b \in active /\ b \in Agent /\ plans[b] # <<>> /\ plans[b] \in Seq(Task) /\ victim \in Agent
        /\ records[victim].decision \in Continued
    BY <1>1 DEF Pending, Recoveries, Continued
  <1>3. plans' \in [Agent -> Seq(Task)] /\ plans'[b] = <<>> /\ \A x \in Agent : x # b => plans'[x] = plans[x]
    BY <1>1, <1>2, ElementsOfEmpty
  <1>4. Pending' = Pending \ {b}
    BY <1>2, <1>3 DEF Pending
  <1>5. /\ records' \in [Agent -> Record] /\ records'[victim] = r
        /\ \A x \in Agent : x # victim => records'[x] = records[x]
    BY <1>1, <1>2
  <1>6. Recoveries' = Recoveries
    BY <1>2, <1>5 DEF Recoveries, Continued
  <1>7. \A t : Abandoned(t) => Abandoned(t)'
    BY <1>5 DEF Abandoned
  <1>8. assigned_tasks' = assigned_tasks /\ manifest' = manifest /\ active' = active /\ runs' = runs /\ round' = round
        /\ overall' = overall /\ flown' = flown
    BY DEF assigned_tasks
  <1>9. phase' \in {"polling", "recovering"} /\ (phase' = "recovering" <=> Pending' # {})
    BY <1>4
  <1>10. Phased'
    <2>1. /\ manifest' \in Configs /\ runs' \in [Agent -> [status : FinalStatuses, completed : SUBSET Task]]
          /\ overall' \in Overalls /\ validate_multi_agent_config(manifest')
      BY <1>0, <1>8 DEF Phased
    <2>2. phase' \in Phases
      BY <1>9 DEF Phases
    <2>3. victim' = IF phase' = "recovering" THEN victim ELSE 0
      BY <1>9
    <2> QED
      BY <1>1, <1>3, <1>4, <1>5, <1>6, <1>8, <1>9, <2>1, <2>2, <2>3 DEF Phased, validate_multi_agent_config
  <1>11. Opening'
    BY <1>9 DEF Opening
  <1>12. Ending'
    <2>1. runs[b].status # "completed"
      BY <1>0, <1>2 DEF Ending, NoRun
    <2>2. \A x \in Agent : runs'[x].status = "completed" => ctl'[x].mission = ctl[x].mission
      BY <1>8, <2>1
    <2>3. phase \notin {"config", "invalid", "starting"} /\ Recoveries' # {}
      BY <1>1, <1>6
    <2> QED
      BY <1>0, <1>6, <1>8, <2>2, <2>3 DEF Ending
  <1>13. \A x \in Agent : Load(x)' \subseteq Load(x)
    <2>1. Load(b)' \subseteq Load(b)
      BY <1>3, ElementsOfEmpty DEF Load
    <2>2. \A x \in Agent : x # b => Load(x)' = Load(x)
      BY <1>3 DEF Load
    <2> QED
      BY <2>1, <2>2
  <1>14. Goes
    BY <1>6, <1>8, <1>13 DEF Goes, Grows
  <1>15. Within' /\ Apart' /\ ReportTruthful'
    BY <1>0, <1>1, <1>6, <1>8, <1>14, WithinStays, ApartStays, ReportStays
  <1>16. \A t : Completed(t) => Completed(t)'
    BY <1>0, <1>12, <1>14, CompletedStays DEF Goes
  <1>17. Owning'
    <2> SUFFICES ASSUME NEW m \in active, NEW t \in ToSet(manifest[m]), ~Completed(t)
                 PROVE  t \in ToSet(ctl'[m].mission) /\ (plans'[m] # <<>> => t \in ToSet(plans'[m]))
      BY <1>8, <1>16 DEF Owning
    <2>1. t \in ToSet(ctl[m].mission) /\ (plans[m] # <<>> => t \in ToSet(plans[m]))
      BY <1>0 DEF Owning
    <2> QED
      BY <1>1, <1>2, <1>3, <2>1
  <1>18. NoneLost'
    <2> SUFFICES ASSUME Reupload, NEW t \in assigned_tasks
                 PROVE  \/ Completed(t)' \/ Abandoned(t)'
                        \/ \E x \in active : t \in Coming(x)'
                        \/ Capable[t] \cap active = {}
      BY <1>8 DEF NoneLost
    <2>1. \/ Completed(t) \/ Abandoned(t) \/ Capable[t] \cap active = {}
          \/ \E x \in active : t \in Coming(x)
      BY <1>0 DEF NoneLost
    <2>2. ASSUME NEW x \in active, t \in Coming(x) PROVE t \in Coming(x)' \/ Abandoned(t)'
      <3>1. CASE x = b
        <4>1. t \in ToSet(plans[b])
          BY <1>2, <2>2, <3>1 DEF Coming
        <4>2. CASE ctl'[b].mission = plans[b]
          BY <1>3, <3>1, <4>1, <4>2 DEF Coming
        <4>3. CASE ToSet(plans[b]) \subseteq r.abandoned
          BY <1>2, <1>5, <4>1, <4>3 DEF Abandoned
        <4> QED
          BY <4>2, <4>3
      <3>2. CASE x # b
        BY <1>1, <1>3, <2>2, <3>2 DEF Coming
      <3> QED
        BY <3>1, <3>2
    <2> QED
      BY <1>7, <1>16, <2>1, <2>2
  <1> QED
    BY <1>10, <1>11, <1>12, <1>15, <1>17, <1>18 DEF Inv, Base

LEMMA HandOverKeeps ==
    ASSUME Inv, HandOver
    PROVE  Inv'
  <1> DEFINE b == Min(Pending)
             r == records[victim]
             new == ToSet(plans[b]) \ ToSet(manifest[b])
             taken == [r EXCEPT !.recovered = r.recovered \cup new]
             last == Pending = {b}
             settled == IF last /\ taken.recovered # {} /\ taken.abandoned = {}
                        THEN [taken EXCEPT !.final = "completed_with_reallocation"] ELSE taken
             refused == [r EXCEPT !.decision = "refuse_unsafe_replacement",
                                  !.abandoned = r.abandoned \cup ToSet(plans[b]), !.final = "failed_recovery"]
  <1>0. Fitted /\ Phased /\ Opening /\ Ending
    BY DEF Inv, Base
  <1>1. /\ phase = "recovering" /\ plans' = [plans EXCEPT ![b] = <<>>]
        /\ phase' = IF last THEN "polling" ELSE "recovering"
        /\ victim' = IF last THEN 0 ELSE victim
        /\ UNCHANGED <<manifest, active, round, runs, overall, flown>>
        /\ \/ replace_mission(b, plans[b]) /\ records' = [records EXCEPT ![victim] = settled]
           \/ Charge(1) /\ records' = [records EXCEPT ![victim] = refused] /\ UNCHANGED <<ctl, fc, tel>>
    <2>1. /\ phase = "recovering" /\ plans' = [plans EXCEPT ![b] = <<>>]
          /\ phase' = IF last THEN "polling" ELSE "recovering"
          /\ victim' = IF last THEN 0 ELSE victim
          /\ UNCHANGED <<manifest, active, round, runs, overall, flown>>
      BY DEF HandOver
    <2>2. \/ replace_mission(b, plans[b]) /\ records' = [records EXCEPT ![victim] = settled]
          \/ Charge(1) /\ records' = [records EXCEPT ![victim] = refused] /\ UNCHANGED <<ctl, fc, tel>>
      BY Zenon DEF HandOver
    <2> QED
      BY <2>1, <2>2
  <1>2. b \in Pending
    BY <1>0, <1>1, LeastPending DEF Phased
  <1>3. /\ b \in Agent /\ plans[b] \in Seq(Task) /\ victim \in Agent /\ r \in Record
        /\ r.decision \in Continued /\ manifest \in Configs /\ faults \in 0 .. MaxFaults
    BY <1>0, <1>1, <1>2 DEF Phased, Pending, Recoveries, Continued
  <1>4. ToSet(plans[b]) \subseteq Task /\ new \subseteq Task
    BY <1>3, Elements
  <1> HIDE DEF b
  <1>5. CASE replace_mission(b, plans[b]) /\ records' = [records EXCEPT ![victim] = settled]
    <2>1. /\ Fitted' /\ \A x \in Agent : x # b => ctl'[x] = ctl[x]
          /\ ctl'[b].mission = plans[b] /\ Count(ctl'[b]) = Count(ctl[b])
      BY <1>0, <1>1, <1>3, <1>5, ReplaceAgent
    <2>2. settled \in Record /\ settled.decision \in Continued /\ r.abandoned \subseteq settled.abandoned
      <3> HIDE DEF r, new
      <3>1. taken \in Record /\ taken.decision = r.decision /\ taken.abandoned = r.abandoned
        BY <1>3, <1>4 DEF Record
      <3> HIDE DEF taken
      <3>2. "completed_with_reallocation" \in Finals
        BY DEF Finals, Overalls
      <3>3. settled \in Record /\ settled.decision = taken.decision /\ settled.abandoned = taken.abandoned
        BY <3>1, <3>2 DEF Record
      <3> QED
        BY <1>3, <3>1, <3>3
    <2>3. faults' \in 0 .. MaxFaults
      <3>1. faults' = faults \/ Charge(1)
        BY <1>5 DEF replace_mission
      <3> QED
        BY <1>3, <3>1, SitlAssumption DEF Charge
    <2> HIDE DEF settled
    <2> QED
      BY <1>1, <1>2, <1>3, <1>5, <2>1, <2>2, <2>3, PlanTaken
  <1>6. CASE Charge(1) /\ records' = [records EXCEPT ![victim] = refused] /\ UNCHANGED <<ctl, fc, tel>>
    <2>1. Fitted'
      BY <1>0, <1>1, <1>6 DEF Fitted
    <2>2. /\ refused \in Record /\ refused.decision \in Continued
          /\ r.abandoned \subseteq refused.abandoned /\ ToSet(plans[b]) \subseteq refused.abandoned
      <3> HIDE DEF r
      <3>1. refused.decision = "refuse_unsafe_replacement" /\ refused.abandoned = r.abandoned \cup ToSet(plans[b])
        BY <1>3 DEF Record
      <3>2. "refuse_unsafe_replacement" \in Decisions /\ "failed_recovery" \in Finals
        BY DEF Decisions, Finals
      <3>3. refused \in Record
        BY <1>3, <1>4, <3>2 DEF Record
      <3> QED
        BY <3>1, <3>3 DEF Continued
    <2>3. faults' \in 0 .. MaxFaults
      BY <1>3, <1>6, SitlAssumption DEF Charge
    <2> HIDE DEF refused
    <2> QED
      BY <1>1, <1>2, <1>3, <1>6, <2>1, <2>2, <2>3, PlanTaken
  <1> QED
    BY <1>1, <1>5, <1>6

-----------------------------------------------------------------------------
\* The replacement missions of a recovery.

\* What the allocation gives to agent b.
Gets(target, b) == {t \in DOMAIN target : target[t] = b}

\* A replacement is the target's own list and what it gets, without what is known to be done.
Replaces(p, target, K) ==
    /\ p \in [Agent -> Seq(Task)]
    /\ \A b \in Agent : Gets(target, b) = {} => p[b] = <<>>
    /\ \A b \in Agent : Gets(target, b) # {} =>
            p[b] # <<>> /\ ToSet(p[b]) = (ToSet(manifest[b]) \ K) \cup Gets(target, b)

LEMMA PlanContent ==
    ASSUME manifest \in Configs, NEW R, NEW A \in SUBSET Agent, NEW S \in SUBSET released_tasks(R, A),
           NEW target \in [S -> A],
           NEW p, p = mission_replacement_plans(R, A, target), NEW K, K = completed_live_task_ids(R, A)
    PROVE  Replaces(p, target, K)
  <1> DEFINE q == [a \in Agent |-> manifest[a]]
  <1>1. /\ \A a \in Agent : manifest[a] \in Seq(Task) /\ ToSet(manifest[a]) \subseteq assigned_tasks
        /\ assigned_tasks \subseteq Task
    BY ManifestFacts
  <1>2. S \subseteq assigned_tasks /\ S \cap K = {}
    <2>1. \A t \in released_tasks(R, A) : t \notin K /\ \E a \in Agent : t \in ToSet(manifest[a])
      BY DEF released_tasks
    <2>2. \A t \in S : t \notin K /\ t \in assigned_tasks
      BY <1>1, <2>1
    <2> QED
      BY <2>2
  <1>3. FlattenSeq(q) \in Seq(Task) /\ ToSet(FlattenSeq(q)) = assigned_tasks
    <2>1. q \in [1 .. N -> Seq(Task)] /\ N \in Nat \ {0}
      BY <1>1, SitlAssumption DEF Agent
    <2>2. assigned_tasks = UNION {ToSet(q[a]) : a \in 1 .. N}
      BY DEF assigned_tasks, Agent
    <2> HIDE DEF q
    <2> QED
      BY <2>1, <2>2, FlattenFacts
  <1>4. ASSUME NEW b \in Agent
        PROVE  p[b] = IF Gets(target, b) = {} THEN <<>> ELSE replacement_waypoints(b, Gets(target, b), K)
    BY DEF mission_replacement_plans, Gets
  <1>5. ASSUME NEW b \in Agent
        PROVE  /\ replacement_waypoints(b, Gets(target, b), K) \in Seq(Task)
               /\ ToSet(replacement_waypoints(b, Gets(target, b), K)) = (ToSet(manifest[b]) \ K) \cup Gets(target, b)
    <2> DEFINE own == Keep(manifest[b], Task \ K)
               got == Keep(FlattenSeq(q), Gets(target, b) \ K)
    <2>1. own \in Seq(Task) /\ ToSet(own) = ToSet(manifest[b]) \cap (Task \ K)
      BY <1>1, KeepFacts
    <2>2. got \in Seq(Task) /\ ToSet(got) = assigned_tasks \cap (Gets(target, b) \ K)
      <3> HIDE DEF q
      <3> QED
        BY <1>3, KeepFacts
    <2>3. replacement_waypoints(b, Gets(target, b), K) = own \o got
      BY DEF replacement_waypoints, push_recovered_tasks_in_manifest_order
    <2>4. Gets(target, b) \subseteq S
      BY DEF Gets
    <2> HIDE DEF own, got
    <2>5. own \o got \in Seq(Task) /\ ToSet(own \o got) = ToSet(own) \cup ToSet(got)
      BY <2>1, <2>2, ElementsOfConcat
    <2>6. ToSet(own) \cup ToSet(got) = (ToSet(manifest[b]) \ K) \cup Gets(target, b)
      BY <1>1, <1>2, <2>1, <2>2, <2>4
    <2> QED
      BY <2>3, <2>5, <2>6
  <1>6. p = [b \in Agent |-> p[b]]
    BY DEF mission_replacement_plans
  <1>7. \A b \in Agent : p[b] \in Seq(Task)
    BY <1>4, <1>5, ElementsOfEmpty
  <1>8. p \in [Agent -> Seq(Task)]
    BY <1>6, <1>7
  <1>9. \A b \in Agent : Gets(target, b) = {} => p[b] = <<>>
    BY <1>4
  <1>10. \A b \in Agent : Gets(target, b) # {} => p[b] # <<>> /\ ToSet(p[b]) = (ToSet(manifest[b]) \ K) \cup Gets(target, b)
    BY <1>4, <1>5, ElementsOfEmpty
  <1> QED
    BY <1>8, <1>9, <1>10 DEF Replaces

-----------------------------------------------------------------------------
\* The end of a run.

\* Agent a ends with status and with D completed: what is the same for every kind of end.
Ends(a, status, D) ==
    /\ phase = "polling" /\ a \in active /\ status \in FinalStatuses \ {"none"}
    /\ Count(ctl[a]) \subseteq D /\ D \subseteq Count(ctl[a]) \cup ToSet(ctl[a].mission) /\ FlownBy(a, D, flown)
    /\ status = "completed" => ToSet(ctl[a].mission) \subseteq D
    /\ EndRun(a, status, D)
    /\ flown' = flown /\ faults' \in 0 .. MaxFaults

\* What it does, apart from the recovery.
Ended1(a, status, D) ==
    /\ runs' = [runs EXCEPT ![a] = [status |-> status, completed |-> D]]
    /\ runs' \in [Agent -> [status : FinalStatuses, completed : SUBSET Task]]
    /\ runs'[a].status = status /\ runs'[a].completed = D /\ runs'[a] # NoRun
    /\ \A x \in Agent : x # a => runs'[x] = runs[x] /\ ctl'[x] = ctl[x]
    /\ \A x \in Agent : ctl'[x].mission = ctl[x].mission
    /\ Count(ctl'[a]) = D
    /\ active' = active \ {a} /\ round' \subseteq active' /\ active' \subseteq Agent /\ a \in Agent
    /\ manifest' = manifest /\ overall' = overall /\ assigned_tasks' = assigned_tasks
    /\ Pending = {} /\ victim = 0 /\ a \notin Recoveries

LEMMA EndFacts ==
    ASSUME Inv, NEW a, NEW status, NEW D, Ends(a, status, D)
    PROVE  Ended1(a, status, D) /\ Fitted' /\ Grows
  <1>0. Fitted /\ Phased /\ Ending
    BY DEF Inv, Base
  <1>1. /\ phase = "polling" /\ a \in active /\ status \in FinalStatuses \ {"none"}
        /\ Count(ctl[a]) \subseteq D /\ D \subseteq Count(ctl[a]) \cup ToSet(ctl[a].mission) /\ FlownBy(a, D, flown)
        /\ EndRun(a, status, D) /\ flown' = flown
    BY DEF Ends
  <1>2. /\ active \subseteq Agent /\ round \subseteq active /\ Pending = {} /\ victim = 0
        /\ runs \in [Agent -> [status : FinalStatuses, completed : SUBSET Task]]
    BY <1>0, <1>1 DEF Phased
  <1>3. a \in Agent /\ a \notin Recoveries
    BY <1>0, <1>1, <1>2 DEF Ending
  <1>4. D \in SUBSET Task
    <2>1. \A t \in D : <<a, t>> \in Agent \X Task
      BY <1>0, <1>1 DEF FlownBy, Fitted
    <2> QED
      BY <2>1
  <1>5. /\ Fitted' /\ \A x \in Agent : x # a => ctl'[x] = ctl[x]
        /\ ctl'[a].mission = ctl[a].mission /\ Count(ctl'[a]) = D
    <2>1. \A b \in Agent : \A s : \A E \in SUBSET Task : EndRun(b, s, E) /\ FlownBy(b, E, flown)
             => /\ Fitted' /\ \A x \in Agent : x # b => ctl'[x] = ctl[x]
                /\ ctl'[b].mission = ctl[b].mission /\ Count(ctl'[b]) = E
      BY <1>0, <1>1, EndAgent
    <2> QED
      BY <1>1, <1>3, <1>4, <2>1
  <1>6. /\ runs' = [runs EXCEPT ![a] = [status |-> status, completed |-> D]]
        /\ active' = active \ {a} /\ round' = round \ {a} /\ manifest' = manifest /\ overall' = overall
    BY <1>1 DEF EndRun
  <1>7. /\ runs' \in [Agent -> [status : FinalStatuses, completed : SUBSET Task]]
        /\ runs'[a] = [status |-> status, completed |-> D]
        /\ \A x \in Agent : x # a => runs'[x] = runs[x]
    BY <1>1, <1>2, <1>3, <1>4, <1>6
  <1>8. runs'[a].status = status /\ runs'[a].completed = D
    BY <1>7
  <1>9. runs'[a] # NoRun
    BY <1>1, <1>8 DEF NoRun
  <1>10. Grows
    BY <1>1, <1>5 DEF Grows
  <1>11. assigned_tasks' = assigned_tasks
    BY <1>6 DEF assigned_tasks
  <1>12. \A x \in Agent : ctl'[x].mission = ctl[x].mission
    BY <1>5
  <1> QED
    BY <1>2, <1>3, <1>5, <1>6, <1>7, <1>8, <1>9, <1>10, <1>11, <1>12 DEF Ended1

\* The result of the agent is complete, whatever is decided about its tasks.
LEMMA EndEnding ==
    ASSUME Ending, NEW a, NEW status, NEW D, Ends(a, status, D), Ended1(a, status, D),
           Recoveries' = Recoveries \/ (Recoveries' = Recoveries \cup {a} /\ status # "completed")
    PROVE  Ending'
  <1>1. /\ phase \notin {"config", "invalid", "starting"}
        /\ status = "completed" => ToSet(ctl[a].mission) \subseteq D
    BY DEF Ends
  <1>2. \A x \in Agent \ active' : runs'[x] # NoRun /\ Count(ctl'[x]) \subseteq runs'[x].completed
    BY <1>1 DEF Ended1, Ending
  <1>3. \A x \in active' : runs'[x] = NoRun
    BY DEF Ended1, Ending
  <1>4. \A x \in Agent : runs'[x].completed \subseteq Count(ctl'[x])
    BY DEF Ended1, Ending
  <1>5. \A x \in Agent : runs'[x].status = "completed" => ToSet(ctl'[x].mission) \subseteq runs'[x].completed
    BY <1>1 DEF Ended1, Ending
  <1>6. \A x \in Recoveries' : x \notin active' /\ runs'[x].status # "completed"
    <2>1. Recoveries \subseteq Agent
      BY DEF Recoveries
    <2> QED
      BY <2>1 DEF Ended1, Ending
  <1>7. Recoveries' = {} => \A x \in Agent : ctl'[x].mission = manifest'[x]
    BY DEF Ended1, Ending
  <1> QED
    BY <1>2, <1>3, <1>4, <1>5, <1>6, <1>7 DEF Ending

\* An end that gives nothing to anybody.
LEMMA EndQuietly ==
    ASSUME Inv, NEW a, NEW status, NEW D, Ends(a, status, D), plans' = plans, victim' = victim, phase' = "polling",
           records' \in [Agent -> Record], Recoveries' = Recoveries, NoneLost'
    PROVE  Inv'
  <1>0. Phased /\ Ending /\ Owning /\ Within /\ Apart /\ ReportTruthful
    BY DEF Inv, Base
  <1>1. Ended1(a, status, D) /\ Fitted' /\ Grows
    BY EndFacts
  <1>2. faults' \in 0 .. MaxFaults /\ flown' = flown /\ phase = "polling"
    BY DEF Ends
  <1>3. Pending' = {} /\ victim' = 0
    BY <1>1 DEF Ended1, Pending
  <1>4. Phased'
    <2>1. /\ manifest' \in Configs /\ plans' \in [Agent -> Seq(Task)] /\ overall' \in Overalls
          /\ validate_multi_agent_config(manifest')
      BY <1>0, <1>1, <1>2 DEF Phased, Ended1
    <2>2. /\ runs' \in [Agent -> [status : FinalStatuses, completed : SUBSET Task]]
          /\ active' \subseteq Agent /\ round' \subseteq active'
      BY <1>1 DEF Ended1
    <2> QED
      BY <1>2, <1>3, <2>1, <2>2 DEF Phased, Phases, validate_multi_agent_config
  <1>5. Opening'
    BY DEF Opening
  <1>6. Ending'
    BY <1>0, <1>1, EndEnding
  <1>7. Goes /\ active \subseteq Agent
    <2>1. \A x \in Agent : Load(x)' = Load(x)
      BY <1>1 DEF Ended1, Load
    <2>2. manifest' = manifest /\ active' \subseteq active
      BY <1>1 DEF Ended1
    <2> QED
      BY <1>0, <1>1, <2>1, <2>2 DEF Goes, Phased
  <1>8. \A x \in active' : ctl'[x].mission = ctl[x].mission /\ plans'[x] = plans[x]
    BY <1>1 DEF Ended1
  <1>9. Owning' /\ Within' /\ Apart'
    BY <1>0, <1>6, <1>7, <1>8, OwningStays, WithinStays, ApartStays
  <1>10. ReportTruthful'
    BY <1>0, <1>1, <1>2, ReportStays DEF Ended1
  <1> QED
    BY <1>1, <1>4, <1>5, <1>6, <1>9, <1>10 DEF Inv, Base

\* A run that completed its mission.
LEMMA CompletedKeeps ==
    ASSUME Inv, NEW a, NEW D, Ends(a, "completed", D)
    PROVE  Inv'
  <1>0. Phased /\ Ending /\ NoneLost
    BY DEF Inv, Base
  <1>1. Ended1(a, "completed", D) /\ Grows
    BY EndFacts
  <1>2. phase = "polling" /\ ToSet(ctl[a].mission) \subseteq D /\ EndRun(a, "completed", D)
    BY DEF Ends
  <1>3. phase' = phase /\ plans' = plans /\ records' = records /\ victim' = victim
    BY <1>2 DEF EndRun
  <1>4. Recoveries' = Recoveries /\ records' \in [Agent -> Record]
    BY <1>0, <1>3 DEF Recoveries, Phased
  <1>5. Ending'
    BY <1>0, <1>1, <1>4, EndEnding
  <1>6. \A t : Completed(t) => Completed(t)'
    BY <1>0, <1>1, <1>5, CompletedStays
  <1>7. \A t \in D : Completed(t)'
    BY <1>1 DEF Completed, Ended1
  <1>8. NoneLost'
    <2> SUFFICES ASSUME Reupload, NEW t \in assigned_tasks
                 PROVE  \/ Completed(t)' \/ Abandoned(t)'
                        \/ \E x \in active' : t \in Coming(x)'
                        \/ Capable[t] \cap active' = {}
      BY <1>1 DEF NoneLost, Ended1
    <2>1. \/ Completed(t) \/ Abandoned(t) \/ Capable[t] \cap active = {}
          \/ \E x \in active : t \in Coming(x)
      BY <1>0, <1>2 DEF NoneLost
    <2>2. Abandoned(t) => Abandoned(t)'
      BY <1>3 DEF Abandoned
    <2>3. active' = active \ {a} /\ active \subseteq Agent
      BY <1>0, <1>1 DEF Ended1, Phased
    <2>4. ASSUME NEW x \in active, t \in Coming(x) PROVE Completed(t)' \/ (x \in active' /\ t \in Coming(x)')
      <3>1. CASE x = a
        <4>1. plans[a] = <<>>
          BY <1>1 DEF Ended1, Pending
        <4> QED
          BY <1>2, <1>7, <2>4, <3>1, <4>1 DEF Coming
      <3>2. CASE x # a
        <4>1. ctl'[x] = ctl[x]
          BY <1>1, <2>3, <3>2 DEF Ended1
        <4> QED
          BY <1>3, <2>3, <2>4, <3>2, <4>1 DEF Coming
      <3> QED
        BY <3>1, <3>2
    <2> QED
      BY <1>6, <2>1, <2>2, <2>3, <2>4
  <1> QED
    BY <1>2, <1>3, <1>4, <1>8, EndQuietly

\* A failure after which nobody is left, or nobody is asked.
LEMMA TerminalKeeps ==
    ASSUME Inv, NEW a, NEW status, NEW D, Ends(a, status, D), status # "completed",
           ~Reupload \/ active \ {a} = {}
    PROVE  Inv'
  <1> DEFINE d == terminal_decision_for_run(runs'[a])
             f == live_overall_status(runs')
  <1>0. Phased
    BY DEF Inv, Base
  <1>1. Ended1(a, status, D)
    BY EndFacts
  <1>2. a \in Agent /\ a \notin Recoveries /\ active' = active \ {a}
    BY <1>1 DEF Ended1
  <1>3. /\ records' = [records EXCEPT ![a] = [records[a] EXCEPT !.decision = d, !.final = f]]
        /\ phase' = "polling" /\ plans' = plans /\ victim' = victim
    <2>1. Recover(a, runs', active \ {a})
      BY DEF Ends, EndRun
    <2> QED
      BY <2>1 DEF Recover
  <1>4. d \in {"mark_partial_success", "mark_total_failure"} /\ f \in Overalls
    BY DEF terminal_decision_for_run, live_overall_status, Overalls
  <1> HIDE DEF d, f
  <1>5. records \in [Agent -> Record] /\ records[a] \in Record
    BY <1>0, <1>2 DEF Phased
  <1> DEFINE r == [records[a] EXCEPT !.decision = d, !.final = f]
  <1>6. r \in Record /\ r.decision = d
    <2>1. d \in Decisions /\ f \in Finals
      BY <1>4 DEF Decisions, Finals
    <2> QED
      BY <1>5, <2>1 DEF Record
  <1> HIDE DEF r
  <1>7. /\ records' \in [Agent -> Record] /\ records'[a] = r
        /\ \A x \in Agent : x # a => records'[x] = records[x]
    BY <1>2, <1>3, <1>5, <1>6 DEF r
  <1>8. Recoveries' = Recoveries
    BY <1>2, <1>4, <1>6, <1>7 DEF Recoveries
  <1>9. NoneLost'
    <2>1. CASE ~Reupload
      BY <2>1 DEF NoneLost
    <2>2. CASE active \ {a} = {}
      BY <1>2, <2>2 DEF NoneLost
    <2> QED
      BY <2>1, <2>2
  <1> QED
    BY <1>3, <1>7, <1>8, <1>9, EndQuietly

\* What the supervisor knows to be done, when it recovers, is all that is counted.
LEMMA KnownDone ==
    ASSUME Inv, NEW a, NEW status, NEW D, Ends(a, status, D)
    PROVE  \A t : t \in completed_live_task_ids(runs', active \ {a}) <=> \E x \in Agent : t \in Count(ctl'[x])
  <1>0. Phased /\ Ending /\ phase \notin {"config", "invalid", "starting"}
    BY DEF Inv, Base, Ends
  <1>1. Ended1(a, status, D)
    BY EndFacts
  <1>2. active \subseteq Agent /\ a \in Agent
    BY <1>0, <1>1 DEF Phased, Ended1
  <1> TAKE t
  <1>3. t \in completed_live_task_ids(runs', active \ {a})
          <=> (\E x \in Agent : t \in runs'[x].completed) \/ \E x \in active \ {a} : t \in completed_waypoints_of(x)
    BY DEF completed_live_task_ids
  <1>4. \A x \in active \ {a} : completed_waypoints_of(x) = Count(ctl'[x])
    BY <1>1, <1>2, CountOf DEF Ended1
  <1>5. \A x \in Agent : runs'[x].completed \subseteq Count(ctl'[x])
    BY <1>0, <1>1 DEF Ending, Ended1
  <1>6. \A x \in Agent : x \notin active \ {a} => Count(ctl'[x]) \subseteq runs'[x].completed
    BY <1>0, <1>1 DEF Ending, Ended1
  <1> QED
    BY <1>2, <1>3, <1>4, <1>5, <1>6

\* With at most three agents, two of them failed, only one is left.
LEMMA OneLeft ==
    ASSUME NEW a \in Agent, NEW r \in Agent, r # a, NEW x \in Agent, NEW y \in Agent,
           x \notin {a, r}, y \notin {a, r}, N <= 3
    PROVE  x = y
  <1>1. N \in Nat
    BY SitlAssumption
  <1> QED
    BY <1>1 DEF Agent

LEMMA TwoFailed ==
    ASSUME NEW a, NEW r, a # r, {a, r} \subseteq Recoveries', Accountable'
    PROVE  N <= 3
  <1>1. IsFiniteSet(Recoveries') /\ Cardinality(Recoveries') \in Nat
    <2>1. Recoveries' \in SUBSET Agent
      BY DEF Recoveries
    <2> QED
      BY <2>1, FiniteAgents
  <1>2. IsFiniteSet({a, r}) /\ Cardinality({a, r}) = 2
    <2>1. IsFiniteSet({a}) /\ Cardinality({a}) = 1
      BY FS_Singleton
    <2>2. IsFiniteSet({a} \cup {r}) /\ Cardinality({a} \cup {r}) = 1 + 1
      BY <2>1, FS_AddElement
    <2>3. {a} \cup {r} = {a, r}
      OBVIOUS
    <2> QED
      BY <2>2, <2>3
  <1>3. Cardinality({a, r}) <= Cardinality(Recoveries')
    BY <1>1, FS_Subset
  <1> QED
    BY <1>1, <1>2, <1>3 DEF Accountable

\* A failure whose tasks go to the survivors.
LEMMA RecoveryKeeps ==
    ASSUME Inv, NEW a, NEW status, NEW D, Ends(a, status, D), status # "completed",
           Reupload, active \ {a} # {}
    PROVE  Inv'
  <1> DEFINE A == active \ {a}
             K == completed_live_task_ids(runs', A)
             S == {t \in released_tasks(runs', A) : Capable[t] \cap A # {}}
  <1>0. Phased /\ Ending /\ Owning /\ Within /\ Apart /\ ReportTruthful
    BY DEF Inv, Base
  <1>1. Ended1(a, status, D) /\ Fitted' /\ Grows
    BY EndFacts
  <1>2. /\ faults' \in 0 .. MaxFaults /\ flown' = flown /\ phase = "polling" /\ EndRun(a, status, D)
        /\ status \in FinalStatuses
    BY DEF Ends
  <1>3. /\ a \in Agent /\ a \notin Recoveries /\ active' = A /\ manifest' = manifest /\ assigned_tasks' = assigned_tasks
        /\ A \in SUBSET Agent /\ runs'[a].status = status
    BY <1>1 DEF Ended1
  <1>4. PICK target \in [S -> A] :
           /\ plans' = mission_replacement_plans(runs', A, target)
           /\ records' = [records EXCEPT ![a] = [records[a] EXCEPT !.decision = "continue_with_survivor",
                                                                   !.final = runs'[a].status]]
           /\ phase' = IF S = {} THEN "polling" ELSE "recovering"
           /\ victim' = IF S = {} THEN 0 ELSE a
    <2>1. Recover(a, runs', A)
      BY <1>2 DEF EndRun
    <2>2. PICK target \in [S -> A] :
           /\ plans' = mission_replacement_plans(runs', A, target)
           /\ records' = [records EXCEPT ![a] = [records[a] EXCEPT !.decision = "continue_with_survivor",
                                                                   !.final = runs'[a].status]]
           /\ phase' = IF DOMAIN target = {} THEN "polling" ELSE "recovering"
           /\ victim' = IF DOMAIN target = {} THEN 0 ELSE a
      BY <2>1 DEF Recover
    <2>3. DOMAIN target = S
      OBVIOUS
    <2> QED
      BY <2>2, <2>3
  <1>5. \A t : t \in K <=> \E x \in Agent : t \in Count(ctl'[x])
    BY KnownDone
  <1>6. /\ \A t \in S : t \notin K /\ Capable[t] \cap A # {} /\ \E x \in Agent \ A : t \in ToSet(manifest[x])
        /\ \A x \in Agent \ A : \A t \in ToSet(manifest[x]) : t \notin K /\ Capable[t] \cap A # {} => t \in S
    BY DEF released_tasks
  <1>7. /\ plans' \in [Agent -> Seq(Task)]
        /\ \A b \in Agent : Gets(target, b) = {} => plans'[b] = <<>>
        /\ \A b \in Agent : Gets(target, b) # {} =>
                plans'[b] # <<>> /\ ToSet(plans'[b]) = (ToSet(manifest[b]) \ K) \cup Gets(target, b)
    <2>1. manifest \in Configs /\ S \in SUBSET released_tasks(runs', A)
      BY <1>0 DEF Phased
    <2>2. K = completed_live_task_ids(runs', A) /\ plans' = mission_replacement_plans(runs', A, target)
      BY <1>4
    <2>3. \A R1, p1, K1 : \A A1 \in SUBSET Agent : \A S1 \in SUBSET released_tasks(R1, A1) : \A t1 \in [S1 -> A1] :
            p1 = mission_replacement_plans(R1, A1, t1) /\ K1 = completed_live_task_ids(R1, A1) => Replaces(p1, t1, K1)
      BY <2>1, PlanContent
    <2> HIDE DEF S, A, K
    <2>4. Replaces(plans', target, K)
      BY <1>3, <2>1, <2>2, <2>3
    <2> QED
      BY <2>4 DEF Replaces
  <1> HIDE DEF K, S, A
  <1>8. \A b \in Agent : Gets(target, b) = {t \in S : target[t] = b}
    BY <1>4 DEF Gets
  <1>9. \A b \in Agent : Gets(target, b) # {} => b \in A
    BY <1>4, <1>8
  <1>10. \A t \in S : target[t] \in A /\ t \in Gets(target, target[t])
    BY <1>3, <1>4, <1>8
  <1>11. Pending' \subseteq A /\ (S = {} <=> Pending' = {})
    <2>1. \A b \in Agent : b \in Pending' <=> Gets(target, b) # {}
      BY <1>7 DEF Pending
    <2>2. Pending' \subseteq Agent
      BY DEF Pending
    <2> QED
      BY <1>3, <1>8, <1>9, <1>10, <2>1, <2>2
  <1>12. /\ records' \in [Agent -> Record] /\ records'[a].decision = "continue_with_survivor"
         /\ records'[a].abandoned = records[a].abandoned
         /\ \A x \in Agent : x # a => records'[x] = records[x]
    <2> DEFINE r == [records[a] EXCEPT !.decision = "continue_with_survivor", !.final = runs'[a].status]
    <2>1. records \in [Agent -> Record] /\ records[a] \in Record
      BY <1>0, <1>3 DEF Phased
    <2>2. "continue_with_survivor" \in Decisions /\ runs'[a].status \in Finals
      BY <1>2, <1>3 DEF Decisions, Finals
    <2>3. r \in Record /\ r.decision = "continue_with_survivor" /\ r.abandoned = records[a].abandoned
      BY <2>1, <2>2 DEF Record
    <2>4. records' = [records EXCEPT ![a] = r]
      BY <1>4
    <2> HIDE DEF r
    <2> QED
      BY <1>3, <2>1, <2>3, <2>4
  <1>13. Recoveries' = Recoveries \cup {a}
    BY <1>3, <1>12 DEF Recoveries
  <1>14. Phased'
    <2>1. /\ manifest' \in Configs /\ overall' \in Overalls /\ validate_multi_agent_config(manifest')
      BY <1>0, <1>1, <1>2 DEF Phased, Ended1
    <2>2. /\ runs' \in [Agent -> [status : FinalStatuses, completed : SUBSET Task]]
          /\ active' \subseteq Agent /\ round' \subseteq active'
      BY <1>1 DEF Ended1
    <2>3. phase' \in Phases /\ (phase' = "recovering" <=> S # {})
      BY <1>4 DEF Phases
    <2>4. victim' = IF phase' = "recovering" THEN a ELSE 0
      BY <1>4
    <2> QED
      BY <1>2, <1>3, <1>7, <1>11, <1>12, <1>13, <2>1, <2>2, <2>3, <2>4 DEF Phased, validate_multi_agent_config
  <1>15. Opening'
    BY <1>4 DEF Opening
  <1>16. Ending'
    BY <1>0, <1>1, <1>13, EndEnding
  <1>17. \A t : Completed(t) => Completed(t)'
    BY <1>0, <1>1, <1>16, CompletedStays
  <1>18. \A t \in K : Completed(t)'
    <2>1. \A x \in Agent : completed_waypoints_of(x)' = Count(ctl'[x])
      BY DEF completed_waypoints_of, Count, Running
    <2> QED
      BY <1>5, <2>1 DEF Completed
  <1>19. \A x \in Agent : ctl'[x].mission = ctl[x].mission
    BY <1>1 DEF Ended1
  <1>20. Owning'
    <2> SUFFICES ASSUME NEW m \in A, NEW t \in ToSet(manifest[m]), ~Completed(t)'
                 PROVE  t \in ToSet(ctl'[m].mission) /\ (plans'[m] # <<>> => t \in ToSet(plans'[m]))
      BY <1>3 DEF Owning
    <2>1. m \in active /\ m \in Agent
      BY <1>3 DEF A
    <2>2. ~Completed(t) /\ t \notin K
      BY <1>17, <1>18
    <2>3. t \in ToSet(ctl[m].mission)
      BY <1>0, <2>1, <2>2 DEF Owning
    <2> QED
      BY <1>7, <1>19, <2>1, <2>2, <2>3
  <1>21. /\ \A x \in Agent : ToSet(manifest[x]) \subseteq assigned_tasks
         /\ \A t \in assigned_tasks : \E x \in Agent : t \in ToSet(manifest[x])
    BY <1>0, ManifestFacts DEF Phased
  <1>22. NoneLost'
    <2> SUFFICES ASSUME NEW t \in assigned_tasks, ~Completed(t)', Capable[t] \cap A # {}
                 PROVE  \E x \in A : t \in Coming(x)'
      BY <1>3 DEF NoneLost
    <2>1. PICK m \in Agent : t \in ToSet(manifest[m])
      BY <1>21
    <2>2. CASE m \in A
      BY <1>3, <1>20, <2>1, <2>2 DEF Owning, Coming
    <2>3. CASE m \notin A
      <3>1. t \in S
        BY <1>6, <1>18, <2>1, <2>3
      <3>2. target[t] \in A /\ t \in Gets(target, target[t]) /\ target[t] \in Agent
        BY <1>3, <1>10, <3>1
      <3>3. t \in Coming(target[t])'
        BY <1>7, <3>2 DEF Coming
      <3> QED
        BY <3>2, <3>3
    <2> QED
      BY <2>2, <2>3
  <1>23. \A x \in Agent : ToSet(plans'[x]) \subseteq ToSet(manifest[x]) \cup Gets(target, x) /\ ToSet(plans'[x]) \cap K = {}
    <2>1. \A x \in Agent : Gets(target, x) \cap K = {}
      BY <1>6, <1>8
    <2> QED
      BY <1>7, <2>1, ElementsOfEmpty
  <1>24. Within'
    <2>1. \A x \in Agent : Gets(target, x) \subseteq assigned_tasks
      BY <1>6, <1>8, <1>21
    <2>2. \A x \in Agent : ToSet(ctl[x].mission) \subseteq assigned_tasks /\ Count(ctl[x]) \subseteq assigned_tasks
      BY <1>0 DEF Within, Load
    <2>3. \A x \in Agent : Count(ctl'[x]) \subseteq assigned_tasks
      BY <1>1, <2>2 DEF Grows
    <2>4. \A x \in Agent : Load(x)' \subseteq assigned_tasks
      BY <1>19, <1>21, <1>23, <2>1, <2>2 DEF Load
    <2> QED
      BY <1>3, <2>3, <2>4 DEF Within
  <1>25. Apart'
    <2> SUFFICES ASSUME Accountable' PROVE LoadsApart' /\ CountsOff' /\ CountsApart'
      BY DEF Apart, LoadsApart, CountsOff, CountsApart
    <2>1. LoadsApart /\ CountsOff /\ CountsApart
      BY <1>0, <1>13, AccountableBefore DEF Apart, LoadsApart, CountsOff, CountsApart
    <2>2. /\ CountsApart'
          /\ \A x \in Agent : \A b \in active : x # b => Count(ctl'[x]) \cap Load(b) = {}
      BY <1>0, <1>1, <2>1, CountsStayApart DEF Phased
    <2>3. \A x \in Agent : Load(x)' \subseteq Load(x) \cup ToSet(plans'[x])
      BY <1>19 DEF Load
    <2>4. A \subseteq active
      BY DEF A
    <2>5. CountsOff'
      <3>1. ASSUME NEW x \in Agent, NEW b \in A, x # b PROVE Count(ctl'[x]) \cap Load(b)' = {}
        <4>1. Count(ctl'[x]) \subseteq K
          BY <1>5
        <4>2. b \in Agent /\ Count(ctl'[x]) \cap Load(b) = {} /\ ToSet(plans'[b]) \cap K = {}
          BY <1>3, <1>23, <2>2, <2>4, <3>1
        <4> QED
          BY <2>3, <4>1, <4>2
      <3> QED
        BY <1>3, <3>1 DEF CountsOff
    <2>6. LoadsApart'
      <3> SUFFICES ASSUME NEW x \in A, NEW y \in A, x # y PROVE Load(x)' \cap Load(y)' = {}
        BY <1>3 DEF LoadsApart
      <3>1. x \in Agent /\ y \in Agent /\ x # a /\ y # a /\ x \in active /\ y \in active
        BY <1>3 DEF A
      <3>2. CASE Recoveries = {}
        <4>1. \A z \in Agent : ctl'[z].mission = manifest[z]
          BY <1>0, <1>19, <3>2 DEF Ending
        <4>2. /\ Load(x)' \subseteq ToSet(manifest[x]) \cup Gets(target, x)
              /\ Load(y)' \subseteq ToSet(manifest[y]) \cup Gets(target, y)
          BY <1>23, <3>1, <4>1 DEF Load
        <4>3. \A u, v \in Agent : u # v => ToSet(manifest[u]) \cap ToSet(manifest[v]) = {}
          BY <1>0, <1>2 DEF Phased, validate_multi_agent_config
        <4>4. \A t \in S : t \notin ToSet(manifest[x]) /\ t \notin ToSet(manifest[y])
          <5> SUFFICES ASSUME NEW t \in S PROVE t \notin ToSet(manifest[x]) /\ t \notin ToSet(manifest[y])
            OBVIOUS
          <5>1. PICK z \in Agent \ A : t \in ToSet(manifest[z])
            BY <1>6
          <5> QED
            BY <3>1, <4>3, <5>1
        <4>5. Gets(target, x) \cap Gets(target, y) = {} /\ Gets(target, x) \subseteq S /\ Gets(target, y) \subseteq S
          BY <1>8, <3>1
        <4>6. ToSet(manifest[x]) \cap ToSet(manifest[y]) = {}
          BY <3>1, <4>3
        <4> QED
          BY <4>2, <4>4, <4>5, <4>6
      <3>3. CASE Recoveries # {}
        <4>1. PICK r : r \in Recoveries
          BY <3>3
        <4>2. r \in Agent /\ r # a /\ r \notin active
          BY <1>0, <1>3, <4>1 DEF Recoveries, Ending
        <4>3. N <= 3
          BY <1>13, <4>1, <4>2, TwoFailed
        <4> QED
          BY <1>3, <3>1, <4>2, <4>3, OneLeft
      <3> QED
        BY <3>2, <3>3
    <2> QED
      BY <2>2, <2>5, <2>6
  <1>26. ReportTruthful'
    BY <1>0, <1>1, <1>2, <1>13, ReportStays DEF Ended1
  <1> QED
    BY <1>1, <1>14, <1>15, <1>16, <1>20, <1>22, <1>24, <1>25, <1>26 DEF Inv, Base

LEMMA EndKeeps ==
    ASSUME Inv, NEW a, NEW status, NEW D, Ends(a, status, D)
    PROVE  Inv'
  <1>1. CASE status = "completed"
    BY <1>1, CompletedKeeps
  <1>2. CASE status # "completed" /\ (~Reupload \/ active \ {a} = {})
    BY <1>2, TerminalKeeps
  <1>3. CASE status # "completed" /\ Reupload /\ active \ {a} # {}
    BY <1>3, RecoveryKeeps
  <1> QED
    BY <1>1, <1>2, <1>3

\* The four ways in which a poll ends a run.
LEMMA PollEndKeeps ==
    ASSUME Inv, NEW a \in Agent, PollFinished(a) \/ PollSilent(a) \/ PollStalled(a)
    PROVE  Inv'
  <1>0. /\ Fit(a, ctl[a], fc[a], tel[a], flown) /\ round \subseteq active /\ faults \in 0 .. MaxFaults
    BY DEF Inv, Base, Fitted, Phased
  <1>1. phase = "polling" /\ a \in active /\ flown' = flown
    BY <1>0 DEF PollFinished, PollSilent, PollStalled, Turn
  <1>2. faults' \in 0 .. MaxFaults
    BY <1>0, SitlAssumption DEF PollFinished, PollSilent, PollStalled, Charge
  <1>3. FlownBy(a, Count(ctl[a]), flown) /\ completed_waypoints_of(a) = Count(ctl[a])
    BY <1>0, CountOf DEF Fit
  <1>4. ASSUME PollFinished(a) PROVE ctl[a].done = Count(ctl[a])
    <2>1. ctl[a].finished
      BY <1>4 DEF PollFinished
    <2>2. ctl[a].state = NoState
      BY <1>0, <2>1 DEF Fit, Controller, Unfinished
    <2> QED
      BY <2>2 DEF Count
  <1>5. PICK status \in {"failed", "disconnected", "timed_out_no_progress"} : EndRun(a, status, Count(ctl[a]))
    BY <1>3, <1>4 DEF PollFinished, PollSilent, PollStalled
  <1>6. Ends(a, status, Count(ctl[a]))
    BY <1>1, <1>2, <1>3, <1>5 DEF Ends, FinalStatuses
  <1> QED
    BY <1>6, EndKeeps

LEMMA PollLastEventKeeps ==
    ASSUME Inv, NEW a \in Agent, PollEvent(a), apply_event(ctl[a].state, Head(tel[a])).final # "none"
    PROVE  Inv'
  <1> DEFINE c == ctl[a]
             p == apply_event(c.state, Head(tel[a]))
             D == c.done \cup completed_waypoints(p)
  <1>1. /\ phase = "polling" /\ a \in round /\ flown' = flown /\ faults' = faults /\ c.state # NoState
        /\ tel[a] # <<>> /\ KnownItem(c.state, Head(tel[a])) /\ EndRun(a, p.final, D)
    BY DEF PollEvent, Turn, Running
  <1>2. Fit(a, c, fc[a], tel[a], flown) /\ faults \in 0 .. MaxFaults /\ round \subseteq active
    BY DEF Inv, Base, Fitted, Phased
  <1>3. p.final # "none" /\ p = apply_event(c.state, Head(tel[a]))
    OBVIOUS
  <1> HIDE DEF c, p
  <1>4. Takes(c.mission, c.state, Head(tel[a]), p) /\ FlownBy(a, completed_waypoints(p), flown)
    <2>1. 0 \in 0 .. Patience
      BY SitlAssumption
    <2> QED
      BY <1>1, <1>2, <1>3, <2>1, EventFits
  <1>5. Count(c) = c.done \cup completed_waypoints(c.state) /\ FlownBy(a, Count(c), flown)
    BY <1>1, <1>2 DEF Count, Fit
  <1>6. /\ Count(c) \subseteq D /\ D \subseteq Count(c) \cup ToSet(c.mission) /\ FlownBy(a, D, flown)
        /\ p.final \in FinalStatuses \ {"none"} /\ (p.final = "completed" => ToSet(c.mission) \subseteq D)
    BY <1>3, <1>4, <1>5 DEF Takes, FlownBy
  <1> HIDE DEF D
  <1>7. Ends(a, p.final, D)
    BY <1>1, <1>2, <1>6 DEF Ends, c
  <1> QED
    BY <1>7, EndKeeps

-----------------------------------------------------------------------------
\* The theorems.

LEMMA InvStep == Inv /\ [Next]_vars => Inv'
  <1> SUFFICES ASSUME Inv, [Next]_vars PROVE Inv'
    OBVIOUS
  <1>1. CASE build_multi_agent_manifest \/ Start \/ NextRound \/ HandOver \/ Finish
    BY <1>1, BuildKeeps, StartKeeps, NextRoundKeeps, HandOverKeeps, FinishKeeps
  <1>2. ASSUME NEW a \in Agent, Poll(a) PROVE Inv'
    <2>1. CASE PollFinished(a) \/ PollSilent(a) \/ PollStalled(a)
      BY <2>1, PollEndKeeps
    <2>2. CASE PollError(a) \/ PollNothing(a)
      BY <2>2, PollErrorKeeps, PollNothingKeeps
    <2>3. CASE PollEvent(a)
      BY <2>3, PollEventKeeps, PollLastEventKeeps
    <2> QED
      BY <1>2, <2>1, <2>2, <2>3 DEF Poll
  <1>3. ASSUME NEW a \in Agent, Vehicle(a) PROVE Inv'
    BY <1>3, VehicleKeeps
  <1>4. CASE UNCHANGED vars
    <2>1. /\ UNCHANGED <<phase, manifest, active, runs, plans, records, victim, overall>>
          /\ ctl' = ctl /\ round' = round /\ fc' = fc /\ tel' = tel /\ flown' = flown /\ faults' = faults
      BY <1>4 DEF vars
    <2>2. Fitted' /\ round' \subseteq active /\ faults' \in 0 .. MaxFaults
      BY <2>1 DEF Inv, Base, Fitted, Phased
    <2>3. Grows
      BY <2>1 DEF Grows
    <2> QED
      BY <2>1, <2>2, <2>3, QuietKeeps
  <1> QED
    BY <1>1, <1>2, <1>3, <1>4 DEF Next, Supervisor

LEMMA InvAlways == Spec => []Inv
  BY InvInit, InvStep, PTL DEF Spec

(***************************************************************************)
(* The types: every controller that runs has a tracker of the mission its  *)
(* agent has, telemetry stays within its queue, and there is a victim      *)
(* exactly while replacements are being handed over                        *)
(* (supervisor_flows.rs, run_live_supervisor_with_controllers).            *)
(***************************************************************************)
THEOREM TypeCorrect == Spec => []TypeOK
  <1>1. Inv => TypeOK
    <2> SUFFICES ASSUME Inv PROVE TypeOK
      OBVIOUS
    <2>0. Fitted /\ Phased
      BY DEF Inv, Base
    <2>1. ASSUME NEW a \in Agent
          PROVE  /\ ctl[a].mission \in Seq(Task) /\ ctl[a].done \subseteq Task
                 /\ ctl[a].finished \in BOOLEAN /\ ctl[a].idle \in 0 .. Patience
                 /\ Running(a) =>
                       /\ ctl[a].state.items = ctl[a].mission /\ ctl[a].state.final = "none"
                       /\ ctl[a].state.status \in [ToSet(ctl[a].mission) -> TaskStatuses]
                       /\ ctl[a].state.current \in 0 .. Len(ctl[a].mission)
      <3>1. Controller(ctl[a])
        BY <2>0 DEF Fitted, Fit
      <3>2. /\ ctl[a].mission \in Seq(Task) /\ ctl[a].done \subseteq Task
            /\ ctl[a].finished \in BOOLEAN /\ ctl[a].idle \in 0 .. Patience
        BY <3>1 DEF Controller
      <3>3. Running(a) => ctl[a].state \in Tracker(ctl[a].mission)
        BY <3>1 DEF Controller, Running
      <3> QED
        BY <3>2, <3>3 DEF Tracker
    <2>2. ASSUME NEW a \in Agent
          PROVE  /\ fc[a].on \in BOOLEAN /\ fc[a].items \in Seq(Task) /\ fc[a].next \in 1 .. (Len(fc[a].items) + 1)
                 /\ Len(tel[a]) <= MaxQueue
      <3>1. Link(a, fc[a], tel[a], flown)
        BY <2>0 DEF Fitted, Fit
      <3>2. /\ fc[a].on \in BOOLEAN /\ fc[a].items \in Seq(Task) /\ fc[a].next \in Nat \ {0}
            /\ fc[a].next <= Len(fc[a].items) + 1 /\ Len(tel[a]) <= MaxQueue
        BY <3>1 DEF Link
      <3>3. Len(fc[a].items) \in Nat
        BY <3>2, LenProperties
      <3> QED
        BY <3>2, <3>3
    <2>3. ASSUME NEW a \in Agent
          PROVE  /\ runs[a].status \in FinalStatuses /\ runs[a].completed \subseteq Task
                 /\ plans[a] \in Seq(Task)
                 /\ records[a].recovered \subseteq Task /\ records[a].abandoned \subseteq Task
      BY <2>0 DEF Phased, Record
    <2>4. victim \in 0 .. N /\ (victim # 0) = (phase = "recovering")
      <3>1. N \in Nat /\ Recoveries \subseteq Agent
        BY SitlAssumption DEF Recoveries
      <3>2. /\ phase = "recovering" => victim \in Recoveries
            /\ phase # "recovering" => victim = 0
        BY <2>0 DEF Phased
      <3>3. Recoveries \subseteq 1 .. N
        BY <3>1 DEF Agent
      <3>4. victim \in 0 .. N
        <4>1. victim = 0 \/ victim \in 1 .. N
          BY <3>2, <3>3
        <4> QED
          BY <3>1, <4>1
      <3>5. victim # 0 <=> phase = "recovering"
        BY <3>1, <3>2, <3>3
      <3> QED
        BY <3>4, <3>5
    <2>5. /\ phase \in Phases /\ manifest \in Configs /\ round \subseteq active /\ active \subseteq Agent
          /\ overall \in Overalls /\ flown \subseteq Agent \X Task /\ faults \in 0 .. MaxFaults
      BY <2>0 DEF Phased, Fitted
    <2> QED
      BY <2>1, <2>2, <2>3, <2>4, <2>5 DEF TypeOK, Phases, Overalls
  <1> QED
    BY <1>1, InvAlways, PTL

(***************************************************************************)
(* No task counts as completed by an agent whose vehicle did not reach it, *)
(* however often missions were replaced in flight and items renumbered     *)
(* (live.rs, replace_mission; sitl_progress.rs, apply_event).              *)
(***************************************************************************)
THEOREM CompletedFlown == Spec => []CompletedWasFlown
  <1>1. Inv => CompletedWasFlown
    <2> SUFFICES ASSUME Inv, NEW a \in Agent, NEW t \in completed_waypoints_of(a) \cup runs[a].completed
                 PROVE  <<a, t>> \in flown
      BY DEF CompletedWasFlown
    <2>1. FlownBy(a, Count(ctl[a]), flown) /\ runs[a].completed \subseteq Count(ctl[a])
      BY DEF Inv, Base, Fitted, Fit, Ending
    <2>2. completed_waypoints_of(a) = Count(ctl[a])
      BY CountOf
    <2> QED
      BY <2>1, <2>2 DEF FlownBy
  <1> QED
    BY <1>1, InvAlways, PTL

(***************************************************************************)
(* While reallocation is on, no failure, second failure, refused           *)
(* replacement or failed upload makes the supervisor forget a task         *)
(* (reallocation.rs, live_reallocation_after_failure).                     *)
(***************************************************************************)
THEOREM NothingDropped == Spec => []NoTaskDropped
  <1>1. Inv => NoTaskDropped
    <2> SUFFICES ASSUME Inv, Reupload, phase \in {"polling", "recovering"}, NEW t \in assigned_tasks,
                        ~Completed(t), NEW a \in active, t \in Coming(a)
                 PROVE  Owned(a, t) \/ t \in ToSet(plans[a])
      BY DEF NoTaskDropped, Inv, NoneLost
    <2>1. a \in Agent
      BY DEF Inv, Base, Phased
    <2>2. t \notin completed_waypoints_of(a)
      BY <2>1 DEF Completed
    <2> QED
      BY <2>2 DEF Coming, Owned
  <1> QED
    BY <1>1, InvAlways, PTL

(***************************************************************************)
(* With up to three agents, or up to the first recovery with more of them, *)
(* no two active agents have the same unfinished task in their missions,   *)
(* not even while replacements are being handed over one by one            *)
(* (reallocation.rs, mission_replacement_plans).                           *)
(***************************************************************************)
THEOREM SingleOwner == Spec => []NoDoubleAssignment
  <1>1. Inv => NoDoubleAssignment
    <2> SUFFICES ASSUME Inv, Accountable, NEW a \in Agent, NEW b \in Agent, NEW t \in Task, Owned(a, t), Owned(b, t), a # b
                 PROVE  FALSE
      BY DEF NoDoubleAssignment
    <2>1. a \in active /\ b \in active /\ t \in Load(a) /\ t \in Load(b)
      BY DEF Owned, Load
    <2>2. Load(a) \cap Load(b) = {}
      BY <2>1 DEF Inv, Apart
    <2> QED
      BY <2>1, <2>2
  <1> QED
    BY <1>1, InvAlways, PTL

(***************************************************************************)
(* A report of complete success is true, under the same condition: the     *)
(* report compares two numbers, and the numbers suffice because no task is *)
(* counted by two agents (live_helpers.rs, live_overall_status).           *)
(***************************************************************************)
THEOREM ReportTrue == Spec => []ReportTruthful
  <1>1. Inv => ReportTruthful
    BY DEF Inv
  <1> QED
    BY <1>1, InvAlways, PTL

=============================================================================
