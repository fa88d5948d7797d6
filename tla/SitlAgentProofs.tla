-------------------------- MODULE SitlAgentProofs --------------------------
(***************************************************************************)
(* Theorems about SitlAgent, for missions of any length, any retry budget, *)
(* any sequence limit and any number of faults.                            *)
(*                                                                         *)
(* The first part is about the plan compiler: its loop over the command    *)
(* list is a fold, and an induction on the entries, by the least bad       *)
(* index, shows which steps a plan can consist of, that it has some, and   *)
(* that it uploads at one place only.                                      *)
(*                                                                         *)
(* The inductive invariant then adds to the types (Shape) where the client *)
(* can be with how many results (Course), that nothing on the link or in   *)
(* the tracker claims more than the vehicle did (Claims), that an abort    *)
(* that waits for its answer was sent (Recalled), and that without retries *)
(* it is the last command (RecallLast).                                    *)
(***************************************************************************)
EXTENDS SitlAgent, WellFoundedInduction, FiniteSetTheorems, SequenceTheorems, TLAPS

\* A non-empty set of natural numbers has a least element.
LEMMA LeastElement ==
    ASSUME NEW S, S \subseteq Nat, S # {}
    PROVE  \E i \in S : \A j \in S : i <= j
  <1>1. PICK m \in S : ~ (\E y \in S : <<y, m>> \in OpToRel(<, Nat))
    BY NatLessThanWellFounded, WFMin, Zenon
  <1>2. \A y \in S : ~ (y < m)
    BY <1>1 DEF OpToRel
  <1> QED
    BY <1>2

EntryKinds == {"arm", "takeoff", "land", "orbit", "goto", "route", "hold"}
EntrySet == [kind : EntryKinds, n : Nat]

Lifecycle == {"arm", "takeoff", "land"}
PlanSet == [prelude : Seq(Lifecycle), items : Nat, postlude : Seq(Lifecycle), ok : BOOLEAN]

\* The recursion of the compiler's loop, over the sets of entries that it has seen.
FoldBody(b, es, S, g) ==
    [s \in SUBSET S |->
        IF s = {} THEN b ELSE compile_entry(g[s \ {Max(s)}], es[Max(s)])]

StepNames == {"fence_enable", "arm", "takeoff", "land", "upload", "start"}

\* The step in hand has no result yet.
InHand ==
    \/ at \in {"step", "ack", "heartbeat"}
    \/ at \in {"abort", "abort_ack"} /\ after \in StartFailures

ProgressSet ==
    [items : {[i \in Tracked |-> i]}, status : [Tracked -> TaskStatuses],
     current : {0} \cup Tracked, final : FinalStatuses]

Shape ==
    /\ conf \in Configuration /\ at \in Places
    /\ k \in 1 .. Len(Steps(Plan)) /\ tries \in 0 .. conf.budget /\ retried \subseteq Kinds
    /\ results \in Seq(Results) /\ overall \in Outcomes /\ final \in RunStatuses
    /\ after \in StartFailures \cup (RunStatuses \ {"completed"})
    /\ progress \in ProgressSet
    /\ sent \subseteq Commands /\ obeyed \subseteq sent
    /\ up \in Seq(Commands) /\ \A i \in DOMAIN up : up[i] \in sent
    /\ down \in Seq(DownMessage)
    /\ mode \in Modes /\ flown \subseteq Items
    /\ stored \in BOOLEAN /\ broken \in BOOLEAN /\ faults \in 0 .. MaxFaults

\* Where the client is and what it has to show for it.
Course ==
    /\ Len(results) \in {k - 1, k} /\ (InHand => Len(results) = k - 1)
    /\ tries > 0 => Kind(k) \in retried
    /\ conf.budget = 0 => retried = {}
    /\ conf.uploadOnly => at \in {"step", "ended"} /\ results = <<>>
    /\ at = "ack" => Step # "upload"
    /\ at = "heartbeat" => Step = "start" /\ "start" \in obeyed

\* Nobody claims more than the vehicle did.
Claims ==
    /\ \A i \in DOMAIN down : down[i].kind = "ack" /\ down[i].ok => down[i].cmd \in obeyed
    /\ \A i \in DOMAIN down : down[i].kind = "reached" => down[i].item \in flown
    /\ \A t \in Tracked : progress.status[t] = "completed" => t \in flown
    /\ progress.final = "completed" => Tracked \subseteq flown

\* The abort was sent before its answer is waited for, and with a retry budget
\* of 0 nothing follows it.
Recalled == at = "abort_ack" => "rtl" \in sent

RecallLast ==
    conf.budget = 0 =>
        /\ "rtl" \in sent => at \in {"abort_ack", "ended"}
        /\ mode = "rtl" => "rtl" \in sent /\ up = <<>>
        /\ \A i \in DOMAIN up : up[i] = "rtl" => i = Len(up)

Inv == Shape /\ Course /\ Claims /\ SuccessWasFlown /\ ReportedWasObeyed /\ Recalled /\ RecallLast

-----------------------------------------------------------------------------
\* The plan compiler.

\* One entry: the plan stays a plan, and its prelude never shrinks.
LEMMA EntryCompiled ==
    ASSUME NEW plan \in PlanSet, NEW e \in EntrySet
    PROVE  /\ compile_entry(plan, e) \in PlanSet
           /\ plan.prelude # <<>> \/ e.kind = "arm" => compile_entry(plan, e).prelude # <<>>
  <1> DEFINE new == compile_entry(plan, e)
  <1>0. /\ plan.prelude \in Seq(Lifecycle) /\ plan.postlude \in Seq(Lifecycle)
        /\ plan.items \in Nat /\ plan.ok \in BOOLEAN /\ e.n \in Nat /\ e.kind \in EntryKinds
    BY DEF PlanSet, EntrySet
  <1>1. CASE e.kind \in {"arm", "takeoff"} \/ (e.kind = "land" /\ plan.items = 0)
    <2>1. new = [plan EXCEPT !.prelude = Append(@, e.kind)]
      BY <1>0, <1>1 DEF compile_entry
    <2>2. e.kind \in Lifecycle
      BY <1>1 DEF Lifecycle
    <2>3. Append(plan.prelude, e.kind) \in Seq(Lifecycle) /\ Append(plan.prelude, e.kind) # <<>>
      BY <1>0, <2>2, AppendProperties
    <2> QED
      BY <2>1, <2>3 DEF PlanSet
  <1>2. CASE e.kind = "land" /\ plan.items > 0
    <2>1. new = [plan EXCEPT !.postlude = Append(@, e.kind)]
      BY <1>0, <1>2 DEF compile_entry
    <2>2. Append(plan.postlude, e.kind) \in Seq(Lifecycle)
      BY <1>0, <1>2, AppendProperties DEF Lifecycle
    <2> QED
      BY <1>2, <2>1, <2>2 DEF PlanSet
  <1>3. CASE e.kind = "orbit"
    <2>1. new = [plan EXCEPT !.items = @ + e.n, !.ok = @ /\ e.n <= U16Max]
      BY <1>3 DEF compile_entry
    <2>2. (plan.ok /\ e.n <= U16Max) \in BOOLEAN /\ plan.items + e.n \in Nat
      BY <1>0
    <2> QED
      BY <1>3, <2>1, <2>2, Zenon DEF PlanSet
  <1>4. CASE e.kind \in {"goto", "route", "hold"}
    <2>1. new = [plan EXCEPT !.items = @ + e.n, !.ok = @ /\ plan.items + e.n <= U16Max + 1]
      BY <1>4 DEF compile_entry
    <2>2. (plan.ok /\ plan.items + e.n <= U16Max + 1) \in BOOLEAN /\ plan.items + e.n \in Nat
      BY <1>0
    <2> QED
      BY <1>4, <2>1, <2>2 DEF PlanSet
  <1> QED
    BY <1>0, <1>1, <1>2, <1>3, <1>4 DEF EntryKinds

LEMMA MaxOfInitial ==
    ASSUME NEW m \in Nat, NEW s \in SUBSET (1 .. m), m \in s
    PROVE  Max(s) = m
  <1>1. \A y \in s : m >= y
    OBVIOUS
  <1>2. \E x \in s : \A y \in s : x >= y
    BY <1>1
  <1>3. Max(s) \in s /\ \A y \in s : Max(s) >= y
    BY <1>2 DEF Max
  <1> DEFINE x == Max(s)
  <1>4. x \in s /\ x \in 1 .. m /\ x >= m
    BY <1>3
  <1> HIDE DEF x
  <1>5. x = m
    BY <1>4
  <1> QED
    BY <1>5 DEF x

\* The loop has a result: the recursion is well founded.
LEMMA FoldDefined ==
    ASSUME NEW b, NEW es, NEW n \in Nat
    PROVE  \E g : g = FoldBody(b, es, 1 .. n, g)
  <1> DEFINE Bad == {m \in Nat : ~\E g : g = FoldBody(b, es, 1 .. m, g)}
  <1> SUFFICES ASSUME Bad # {} PROVE FALSE
    OBVIOUS
  <1>1. PICK m \in Bad : \A j \in Bad : m <= j
    <2>1. Bad \subseteq Nat
      OBVIOUS
    <2> HIDE DEF Bad
    <2> QED
      BY <2>1, LeastElement
  <1>2. m # 0
    <2>1. SUBSET (1 .. 0) = {{}}
      OBVIOUS
    <2> DEFINE g == [s \in {{}} |-> b]
    <2>2. g = FoldBody(b, es, 1 .. 0, g)
      BY <2>1 DEF FoldBody
    <2> HIDE DEF g
    <2> QED
      BY <2>2
  <1>3. m - 1 \in Nat /\ m - 1 \notin Bad
    BY <1>1, <1>2
  <1>4. PICK g : g = FoldBody(b, es, 1 .. m - 1, g)
    BY <1>3
  <1> DEFINE h == [s \in SUBSET (1 .. m) |->
                      IF m \in s THEN compile_entry(g[s \ {m}], es[m]) ELSE g[s]]
  <1>5. ASSUME NEW s \in SUBSET (1 .. m)
        PROVE  h[s] = IF s = {} THEN b ELSE compile_entry(h[s \ {Max(s)}], es[Max(s)])
    <2>1. CASE m \in s
      <3>1. Max(s) = m
        BY <2>1, MaxOfInitial
      <3>2. s \ {m} \in SUBSET (1 .. m) /\ m \notin s \ {m} /\ s # {}
        BY <2>1
      <3>3. h[s \ {m}] = g[s \ {m}]
        BY <3>2
      <3>4. h[s] = compile_entry(g[s \ {m}], es[m])
        BY <2>1
      <3> HIDE DEF h
      <3> QED
        BY <3>1, <3>2, <3>3, <3>4
    <2>2. CASE m \notin s
      <3>1. s \in SUBSET (1 .. m - 1)
        BY <1>3, <2>2
      <3>2. h[s] = g[s]
        BY <2>2
      <3>3. s \ {Max(s)} \in SUBSET (1 .. m) /\ m \notin s \ {Max(s)}
        BY <2>2
      <3>4. h[s \ {Max(s)}] = g[s \ {Max(s)}]
        BY <3>3
      <3>5. g[s] = IF s = {} THEN b ELSE compile_entry(g[s \ {Max(s)}], es[Max(s)])
        BY <1>4, <3>1, Zenon DEF FoldBody
      <3> HIDE DEF h
      <3> QED
        BY <3>2, <3>4, <3>5
    <2> QED
      BY <2>1, <2>2
  <1>6. h = FoldBody(b, es, 1 .. m, h)
    <2>1. h = [s \in SUBSET (1 .. m) |-> h[s]]
      OBVIOUS
    <2> HIDE DEF h
    <2> QED
      BY <1>5, <2>1 DEF FoldBody
  <1> HIDE DEF h
  <1> QED
    BY <1>1, <1>6

\* The loop makes a plan, with a prelude if the first entry is an arming.
LEMMA FoldCompiled ==
    ASSUME NEW b \in PlanSet, NEW es \in Seq(EntrySet)
    PROVE  /\ FoldLeft(compile_entry, b, es) \in PlanSet
           /\ es # <<>> /\ es[1].kind = "arm" =>
                  FoldLeft(compile_entry, b, es).prelude # <<>>
  <1> DEFINE n == Len(es)
             h == CHOOSE g : g = FoldBody(b, es, 1 .. n, g)
             Good(s) == /\ h[s] \in PlanSet
                        /\ 1 \in s /\ es[1].kind = "arm" => h[s].prelude # <<>>
  <1>0. n \in Nat /\ DOMAIN es = 1 .. n /\ \A i \in 1 .. n : es[i] \in EntrySet
    BY LenProperties, ElementOfSeq
  <1>1. FoldLeft(compile_entry, b, es) = h[1 .. n]
    <2>1. FoldLeft(compile_entry, b, es) =
              (CHOOSE g : g = FoldBody(b, es, DOMAIN es, g))[DOMAIN es]
      BY Zenon DEF FoldLeft, MapThenFoldSet, FoldBody
    <2> QED
      BY <1>0, <2>1, Zenon
  <1>2. h = FoldBody(b, es, 1 .. n, h)
    <2>1. \E g : g = FoldBody(b, es, 1 .. n, g)
      BY <1>0, FoldDefined
    <2> QED
      BY <2>1, Zenon
  <1> HIDE DEF h
  <1>3. \A s \in SUBSET (1 .. n) :
            h[s] = IF s = {} THEN b ELSE compile_entry(h[s \ {Max(s)}], es[Max(s)])
    BY <1>2, Zenon DEF FoldBody
  <1> DEFINE Bad == {m \in 0 .. n : \E s \in SUBSET (1 .. m) : ~Good(s)}
  <1>4. Bad = {}
    <2> SUFFICES ASSUME Bad # {} PROVE FALSE
      OBVIOUS
    <2>1. PICK m \in Bad : \A j \in Bad : m <= j
      <3>1. Bad \subseteq Nat
        BY <1>0
      <3> HIDE DEF Bad
      <3> QED
        BY <3>1, LeastElement
    <2>2. PICK s \in SUBSET (1 .. m) : ~Good(s)
      BY <2>1
    <2>3. s \in SUBSET (1 .. n) /\ m \in 0 .. n /\ m \in Nat
      BY <1>0, <2>1
    <2>4. s # {}
      BY <1>3, <2>2, <2>3
    <2>5. m # 0
      <3>1. 1 .. 0 = {}
        OBVIOUS
      <3> QED
        BY <2>4, <3>1
    <2>6. m \in s
      <3>1. m - 1 \in 0 .. n /\ m - 1 \notin Bad
        <4> HIDE DEF Bad
        <4> QED
          BY <1>0, <2>1, <2>3, <2>5
      <3>2. s \notin SUBSET (1 .. m - 1)
        BY <2>2, <3>1
      <3> QED
        BY <2>3, <3>2
    <2>7. Good(s \ {m})
      <3>1. m - 1 \in 0 .. n /\ m - 1 \notin Bad
        <4> HIDE DEF Bad
        <4> QED
          BY <1>0, <2>1, <2>3, <2>5
      <3>2. s \ {m} \in SUBSET (1 .. m - 1)
        BY <2>3
      <3> QED
        BY <3>1, <3>2
    <2>8. h[s] = compile_entry(h[s \ {m}], es[m])
      BY <1>3, <2>3, <2>4, <2>6, MaxOfInitial
    <2>9. es[m] \in EntrySet
      BY <1>0, <2>3, <2>5
    <2>10. /\ h[s] \in PlanSet
           /\ h[s \ {m}].prelude # <<>> \/ es[m].kind = "arm" => h[s].prelude # <<>>
      BY <2>7, <2>8, <2>9, EntryCompiled
    <2>11. 1 \in s => 1 \in s \ {m} \/ m = 1
      OBVIOUS
    <2> QED
      BY <2>2, <2>7, <2>10, <2>11
  <1>5. Good(1 .. n)
    <2>1. n \notin Bad /\ n \in 0 .. n
      <3> HIDE DEF Bad
      <3> QED
        BY <1>0, <1>4
    <2> QED
      BY <2>1
  <1>6. es # <<>> => 1 \in 1 .. n
    BY EmptySeq, <1>0
  <1> QED
    BY <1>1, <1>5, <1>6

\* What a compiled plan consists of.
LEMMA CompiledPlan ==
    ASSUME NEW m \in Mission
    PROVE  /\ compile_mavlink_common_plan(m) \in
                  [prelude : Seq(Lifecycle \cup {"fence_enable"}), items : Nat,
                   postlude : Seq(Lifecycle), ok : BOOLEAN]
           /\ compile_mavlink_common_plan(m).prelude # <<>>
  <1> DEFINE b == [prelude |-> <<>>, items |-> 0, postlude |-> <<>>, ok |-> TRUE]
             first == <<Entry("arm", 0), Entry("takeoff", 0)>>
             last == <<Entry("land", 0)>>
             es == build_command_ir_plan(m)
             plan == FoldLeft(compile_entry, b, es)
             F == Lifecycle \cup {"fence_enable"}
  <1>1. b \in PlanSet
    BY EmptySeq DEF PlanSet
  <1>2. m.kind \in MissionKinds /\ m.n \in Nat
    BY DEF Mission
  <1>3. \A c \in EntryKinds, n \in Nat : Entry(c, n) \in EntrySet
    BY DEF Entry, EntrySet
  <1>4. body_commands(m) \in Seq(EntrySet)
    <2>1. CASE m.kind = "pose_tasks"
      <3>1. body_commands(m) = [i \in 1 .. m.n |-> Entry("goto", 1)]
        BY <2>1 DEF body_commands
      <3>2. Entry("goto", 1) \in EntrySet
        BY <1>3 DEF EntryKinds
      <3> QED
        BY <1>2, <3>1, <3>2
    <2>2. CASE m.kind = "takeoff_land"
      BY <2>2, EmptySeq DEF body_commands
    <2>3. CASE m.kind \in {"urban_route", "hover", "orbit", "square"}
      <3>1. PICK e \in EntrySet : body_commands(m) = <<e>>
        BY <1>2, <1>3, <2>3 DEF body_commands, EntryKinds
      <3> QED
        BY <3>1
    <2> QED
      BY <1>2, <2>1, <2>2, <2>3 DEF MissionKinds
  <1>5. first \in Seq(EntrySet) /\ last \in Seq(EntrySet) /\ Len(first) = 2
    <2>1. Entry("arm", 0) \in EntrySet /\ Entry("takeoff", 0) \in EntrySet /\ Entry("land", 0) \in EntrySet
      BY <1>3 DEF EntryKinds
    <2> QED
      BY <2>1
  <1>6. es \in Seq(EntrySet) /\ es # <<>> /\ es[1].kind = "arm"
    <2> DEFINE body == body_commands(m)
    <2> HIDE DEF first, last, body
    <2>1. first \o body \in Seq(EntrySet) /\ Len(first \o body) = 2 + Len(body)
          /\ (first \o body)[1] = first[1] /\ Len(body) \in Nat
      <3>1. body \in Seq(EntrySet) /\ Len(body) \in Nat
        BY <1>4, LenProperties DEF body
      <3>2. /\ first \o body \in Seq(EntrySet)
            /\ Len(first \o body) = Len(first) + Len(body)
            /\ \A i \in 1 .. Len(first) + Len(body) :
                   (first \o body)[i] = IF i <= Len(first) THEN first[i] ELSE body[i - Len(first)]
        BY <1>5, <3>1, ConcatProperties
      <3> QED
        BY <1>5, <3>1, <3>2
    <2>2. /\ (first \o body) \o last \in Seq(EntrySet)
          /\ Len((first \o body) \o last) >= 2
          /\ ((first \o body) \o last)[1] = first[1]
      <3>1. Len(last) \in Nat
        BY <1>5, LenProperties
      <3> QED
        BY <1>5, <2>1, <3>1, ConcatProperties
    <2>3. es = (first \o body) \o last
      BY Zenon DEF build_command_ir_plan, first, body, last
    <2>4. first[1].kind = "arm"
      BY DEF first, Entry
    <2>5. es # <<>>
      BY <2>2, <2>3, EmptySeq
    <2> QED
      BY <2>2, <2>3, <2>4, <2>5
  <1>7. plan \in PlanSet /\ plan.prelude # <<>>
    <2> HIDE DEF b, es
    <2> QED
      BY <1>1, <1>6, FoldCompiled
  <1>8. compile_mavlink_common_plan(m) = finish(plan, m)
    BY Zenon DEF compile_mavlink_common_plan
  <1> HIDE DEF plan
  <1>9. plan.prelude \in Seq(F)
    BY <1>7, SeqMonotonic DEF PlanSet
  <1>10. <<"fence_enable">> \o plan.prelude \in Seq(F) /\ <<"fence_enable">> \o plan.prelude # <<>>
    <2>1. <<"fence_enable">> \in Seq(F)
      OBVIOUS
    <2> QED
      BY <1>7, <1>9, <2>1, ConcatProperties, ConcatEqualIffEmpty
  <1> DEFINE pre == IF m.fence = "enable_only" THEN <<"fence_enable">> \o plan.prelude ELSE plan.prelude
             fine == plan.ok /\ m.fence # "unsupported"
  <1>11. pre \in Seq(F) /\ pre # <<>> /\ fine \in BOOLEAN
    BY <1>7, <1>9, <1>10
  <1>12. finish(plan, m) = [plan EXCEPT !.prelude = pre, !.ok = fine]
    BY DEF finish
  <1>13. finish(plan, m) = [prelude |-> pre, items |-> plan.items, postlude |-> plan.postlude, ok |-> fine]
    <2> HIDE DEF pre, fine
    <2> QED
      BY <1>7, <1>12 DEF PlanSet
  <1> HIDE DEF pre, fine
  <1> QED
    BY <1>7, <1>8, <1>11, <1>13 DEF PlanSet

\* Whatever mission a configuration names, the compiled plan gives the executor
\* something to do, only steps it knows, and its upload at one place
\* (build_command_ir_plan, compile_mavlink_common_plan).
THEOREM PlanFacts ==
    ASSUME conf \in Configuration
    PROVE  /\ Plan.items \in Nat
           /\ Steps(Plan) \in Seq(StepNames) /\ Len(Steps(Plan)) \in Nat \ {0}
           /\ DOMAIN Steps(Plan) = 1 .. Len(Steps(Plan))
           /\ \A i, j \in 1 .. Len(Steps(Plan)) :
                  Steps(Plan)[i] = "upload" /\ Steps(Plan)[j] = "upload" => i = j
           /\ \A i \in 1 .. Len(Steps(Plan)) : Steps(Plan)[i] \in StepNames
           /\ waypoint_count(conf.mission) \in Nat
  <1>0. conf.mission \in Mission
    BY MissionAssumption DEF Configuration
  <1> DEFINE F == Lifecycle \cup {"fence_enable"}
             A == Plan.prelude
             B == IF Plan.items > 0 THEN <<"upload", "start">> ELSE <<>>
             C == Plan.postlude
             S == (A \o B) \o C
  <1>1. A \in Seq(F) /\ A # <<>> /\ C \in Seq(Lifecycle) /\ Plan.items \in Nat
    BY <1>0, CompiledPlan DEF Plan
  <1>2. A \in Seq(StepNames) /\ B \in Seq(StepNames) /\ C \in Seq(StepNames)
    <2>1. F \subseteq StepNames /\ Lifecycle \subseteq StepNames
      BY DEF Lifecycle, StepNames
    <2>2. <<"upload", "start">> \in Seq(StepNames) /\ <<>> \in Seq(StepNames)
      BY DEF StepNames
    <2> QED
      BY <1>1, <2>1, <2>2, SeqMonotonic
  <1>3. \A i \in 1 .. Len(A) : A[i] # "upload"
    BY <1>1, ElementOfSeq DEF Lifecycle
  <1>4. \A i \in 1 .. Len(C) : C[i] # "upload"
    BY <1>1, ElementOfSeq DEF Lifecycle
  <1>5. \A i \in 1 .. Len(B) : B[i] = "upload" => i = 1
    OBVIOUS
  <1>6. Len(A) \in Nat \ {0} /\ Len(B) \in Nat /\ Len(C) \in Nat
    BY <1>1, <1>2, EmptySeq, LenProperties
  <1> HIDE DEF A, B, C
  <1>7. /\ A \o B \in Seq(StepNames) /\ Len(A \o B) = Len(A) + Len(B)
        /\ \A i \in 1 .. Len(A) + Len(B) :
               (A \o B)[i] = IF i <= Len(A) THEN A[i] ELSE B[i - Len(A)]
    BY <1>2, ConcatProperties
  <1>8. /\ S \in Seq(StepNames) /\ Len(S) = Len(A) + Len(B) + Len(C)
        /\ \A i \in 1 .. Len(A) + Len(B) + Len(C) :
               S[i] = IF i <= Len(A) + Len(B) THEN (A \o B)[i] ELSE C[i - (Len(A) + Len(B))]
    <2> DEFINE AB == A \o B
    <2>1. Len(AB) = Len(A) + Len(B) /\ S = AB \o C
      BY <1>7
    <2> HIDE DEF AB, S
    <2>2. AB \in Seq(StepNames) /\ C \in Seq(StepNames)
      BY <1>2, <1>7 DEF AB
    <2>3. /\ AB \o C \in Seq(StepNames) /\ Len(AB \o C) = Len(AB) + Len(C)
          /\ \A i \in 1 .. Len(AB) + Len(C) :
                 (AB \o C)[i] = IF i <= Len(AB) THEN AB[i] ELSE C[i - Len(AB)]
      BY <2>2, ConcatProperties
    <2> QED
      BY <2>1, <2>3, Zenon DEF AB
  <1>9. Steps(Plan) = S
    BY DEF Steps, A, B, C
  <1> HIDE DEF S
  <1>10. \A i \in 1 .. Len(S) : S[i] = "upload" => i = Len(A) + 1
    <2> SUFFICES ASSUME NEW i \in 1 .. Len(S), S[i] = "upload" PROVE i = Len(A) + 1
      OBVIOUS
    <2>1. CASE i <= Len(A)
      <3>1. /\ i \in 1 .. Len(A) /\ i \in 1 .. Len(A) + Len(B)
            /\ i \in 1 .. Len(A) + Len(B) + Len(C) /\ i <= Len(A) + Len(B)
        BY <1>6, <1>8, <2>1
      <3>2. S[i] = (A \o B)[i]
        BY <1>8, <3>1, Zenon
      <3>3. (A \o B)[i] = A[i]
        BY <1>7, <2>1, <3>1, Zenon
      <3> QED
        BY <1>3, <3>1, <3>2, <3>3, Zenon
    <2>2. CASE i > Len(A) /\ i <= Len(A) + Len(B)
      <3>1. i - Len(A) \in 1 .. Len(B) /\ S[i] = B[i - Len(A)]
        BY <1>6, <1>7, <1>8, <2>2
      <3> QED
        BY <1>5, <1>6, <3>1
    <2>3. CASE i > Len(A) + Len(B)
      <3>1. i - (Len(A) + Len(B)) \in 1 .. Len(C) /\ S[i] = C[i - (Len(A) + Len(B))]
        BY <1>6, <1>8, <2>3
      <3> QED
        BY <1>4, <3>1
    <2> QED
      BY <1>6, <2>1, <2>2, <2>3
  <1>11. Len(S) \in Nat \ {0} /\ DOMAIN S = 1 .. Len(S) /\ \A i \in 1 .. Len(S) : S[i] \in StepNames
    BY <1>6, <1>8, LenProperties, ElementOfSeq
  <1>12. waypoint_count(conf.mission) \in Nat
    BY <1>0 DEF waypoint_count, Mission, MissionKinds
  <1> QED
    BY <1>1, <1>8, <1>9, <1>10, <1>11, <1>12

-----------------------------------------------------------------------------
\* Messages, and the answer to a step.

\* All that s says is said by t too.
Within(s, t) == \A i \in DOMAIN s : \E j \in DOMAIN t : s[i] = t[j]

LEMMA TailWithin ==
    ASSUME NEW S, NEW s \in Seq(S), s # <<>>
    PROVE  /\ Tail(s) \in Seq(S) /\ Len(Tail(s)) = Len(s) - 1 /\ Within(Tail(s), s)
           /\ \A i \in 1 .. Len(s) - 1 : Tail(s)[i] = s[i + 1]
           /\ Head(s) = s[1] /\ 1 \in DOMAIN s /\ Head(s) \in S /\ Len(s) \in Nat \ {0}
  <1>1. /\ Len(s) \in Nat \ {0} /\ DOMAIN s = 1 .. Len(s) /\ 1 \in DOMAIN s
        /\ Head(s) = s[1] /\ Head(s) \in S
        /\ Tail(s) \in Seq(S) /\ Len(Tail(s)) = Len(s) - 1
        /\ \A i \in 1 .. Len(s) - 1 : Tail(s)[i] = s[i + 1]
    BY EmptySeq, LenProperties, HeadTailProperties
  <1>2. DOMAIN Tail(s) = 1 .. Len(s) - 1
    BY <1>1, LenProperties
  <1> QED
    BY <1>1, <1>2 DEF Within

LEMMA RemoveWithin ==
    ASSUME NEW S, NEW s \in Seq(S), NEW i \in 1 .. Len(s)
    PROVE  /\ RemoveAt(s, i) \in Seq(S) /\ Len(RemoveAt(s, i)) = Len(s) - 1
           /\ Within(RemoveAt(s, i), s)
           /\ \A j \in 1 .. Len(s) - 1 : RemoveAt(s, i)[j] = IF j < i THEN s[j] ELSE s[j + 1]
  <1> DEFINE p == SubSeq(s, 1, i - 1)
             q == SubSeq(s, i + 1, Len(s))
  <1>0. Len(s) \in Nat /\ DOMAIN s = 1 .. Len(s) /\ i \in Nat
    BY LenProperties
  <1>1. p \in Seq(S) /\ Len(p) = i - 1 /\ \A j \in 1 .. i - 1 : p[j] = s[j]
    BY SubSeqProperties, Z3
  <1>2. q \in Seq(S) /\ Len(q) = Len(s) - i /\ \A j \in 1 .. Len(s) - i : q[j] = s[i + j]
    BY SubSeqProperties, Z3
  <1>3. RemoveAt(s, i) = p \o q
    BY DEF RemoveAt
  <1> HIDE DEF p, q
  <1>4. /\ p \o q \in Seq(S) /\ Len(p \o q) = Len(p) + Len(q)
        /\ \A j \in 1 .. Len(p) + Len(q) :
               (p \o q)[j] = IF j <= Len(p) THEN p[j] ELSE q[j - Len(p)]
    BY <1>1, <1>2, ConcatProperties
  <1>5. Len(p \o q) = Len(s) - 1
    BY <1>0, <1>1, <1>2, <1>4
  <1>6. ASSUME NEW j \in 1 .. Len(s) - 1
        PROVE  (p \o q)[j] = IF j < i THEN s[j] ELSE s[j + 1]
    <2>1. j \in 1 .. Len(p) + Len(q)
      BY <1>0, <1>1, <1>2
    <2>2. CASE j < i
      BY <1>0, <1>1, <1>4, <2>1, <2>2
    <2>3. CASE ~(j < i)
      <3>1. j - Len(p) \in 1 .. Len(s) - i /\ i + (j - Len(p)) = j + 1 /\ ~(j <= Len(p))
        BY <1>0, <1>1, <2>3
      <3> QED
        BY <1>2, <1>4, <2>1, <2>3, <3>1
    <2> QED
      BY <2>2, <2>3
  <1>7. DOMAIN (p \o q) = 1 .. Len(s) - 1
    BY <1>4, <1>5, LenProperties
  <1>8. Within(p \o q, s)
    <2> SUFFICES ASSUME NEW j \in 1 .. Len(s) - 1 PROVE \E m \in DOMAIN s : (p \o q)[j] = s[m]
      BY <1>7 DEF Within
    <2>1. j \in DOMAIN s /\ j + 1 \in DOMAIN s
      BY <1>0
    <2> QED
      BY <1>6, <2>1
  <1> QED
    BY <1>3, <1>4, <1>5, <1>6, <1>8

LEMMA WithinKeeps ==
    ASSUME NEW s, NEW t, NEW P, Within(s, t), \A j \in DOMAIN t : t[j] \in P
    PROVE  \A i \in DOMAIN s : s[i] \in P
  BY DEF Within

LEMMA AppendFacts ==
    ASSUME NEW S, NEW s \in Seq(S), NEW e \in S
    PROVE  /\ Append(s, e) \in Seq(S) /\ Len(Append(s, e)) = Len(s) + 1 /\ Len(s) \in Nat
           /\ DOMAIN s = 1 .. Len(s) /\ DOMAIN Append(s, e) = 1 .. Len(s) + 1
           /\ \A i \in 1 .. Len(s) : Append(s, e)[i] = s[i]
           /\ Append(s, e)[Len(s) + 1] = e
           /\ \A i \in DOMAIN Append(s, e) : i \in DOMAIN s \/ i = Len(s) + 1
  <1>1. /\ Append(s, e) \in Seq(S) /\ Len(Append(s, e)) = Len(s) + 1 /\ Len(s) \in Nat
        /\ DOMAIN s = 1 .. Len(s)
        /\ \A i \in 1 .. Len(s) : Append(s, e)[i] = s[i]
        /\ Append(s, e)[Len(s) + 1] = e
    BY AppendProperties, LenProperties
  <1>2. DOMAIN Append(s, e) = 1 .. Len(s) + 1
    BY <1>1, LenProperties
  <1>3. \A i \in 1 .. Len(s) + 1 : i \in 1 .. Len(s) \/ i = Len(s) + 1
    BY <1>1
  <1> QED
    BY <1>1, <1>2, <1>3

\* The configuration, and with it the plan, is fixed.
LEMMA ConfFixed ==
    ASSUME conf' = conf
    PROVE  /\ Plan' = Plan /\ Steps(Plan)' = Steps(Plan) /\ Tracked' = Tracked /\ Items' = Items
           /\ DownMessage' = DownMessage /\ ProgressSet' = ProgressSet
  BY DEF Plan, Tracked, Items, DownMessage, ProgressSet

LEMMA ReplyFacts ==
    ASSUME Shape, Course, InHand, NEW r \in Results, Reply(r), conf' = conf
    PROVE  /\ at' \in {"step", "telemetry", "ended"}
           /\ k' \in 1 .. Len(Steps(Plan)) /\ tries' \in 0 .. conf.budget
           /\ retried' \subseteq Kinds /\ retried \subseteq retried'
           /\ (tries' > 0 => Kind(k') \in retried') /\ (conf.budget = 0 => retried' = {})
           /\ results' \in Seq(Results) /\ overall' \in Outcomes /\ final' \in RunStatuses
           /\ final' = "completed" => final = "completed"
           /\ Len(results') \in {k' - 1, k'} /\ (at' = "step" => Len(results') = k' - 1)
           /\ results' = results \/ results' = Append(results, r)
           /\ at' = "step" => Retried(r) \/ r \in {"accepted", "skipped"}
           /\ at' = "telemetry" => r \in {"accepted", "skipped"}
           /\ at' = "ended" => r \notin {"accepted", "skipped"}
  <1>0. /\ conf.budget \in Nat /\ Len(Steps(Plan)) \in Nat /\ k \in Nat /\ k >= 1
        /\ tries \in Nat /\ tries <= conf.budget /\ retried \subseteq Kinds
        /\ (tries > 0 => Kind(k) \in retried) /\ (conf.budget = 0 => retried = {})
    <2>1. conf.budget \in Nat /\ Len(Steps(Plan)) \in Nat
      BY AgentBounds, PlanFacts DEF Shape, Configuration
    <2> QED
      BY <2>1 DEF Shape, Course
  <1>1. results \in Seq(Results) /\ Len(results) = k - 1
    BY DEF Shape, Course
  <1>2. Append(results, r) \in Seq(Results) /\ Len(Append(results, r)) = k
    BY <1>0, <1>1, AppendFacts
  <1>3. CASE /\ Retried(r)
             /\ tries' = tries + 1 /\ retried' = retried \cup {Kind(k)} /\ at' = "step"
             /\ UNCHANGED <<k, results, overall, final>>
    <2>1. tries < conf.budget
      BY <1>3 DEF Retried
    <2>2. retried' \subseteq Kinds /\ retried \subseteq retried' /\ Kind(k') \in retried'
      BY <1>0, <1>3 DEF Kind, Kinds
    <2>3. conf.budget # 0 /\ tries' \in 0 .. conf.budget
      BY <1>0, <1>3, <2>1
    <2> QED
      BY <1>1, <1>3, <2>2, <2>3 DEF Shape
  <1>4. CASE /\ r \in {"accepted", "skipped"} /\ k < Len(Steps(Plan))
             /\ k' = k + 1 /\ tries' = 0 /\ at' = "step"
             /\ results' = Append(results, r)
             /\ UNCHANGED <<retried, overall, final>>
    <2>1. k' - 1 = k /\ retried' \subseteq Kinds /\ ~(tries' > 0) /\ tries' \in 0 .. conf.budget
      BY <1>0, <1>4
    <2> QED
      BY <1>0, <1>2, <1>4, <2>1 DEF Shape
  <1>5. CASE /\ r \in {"accepted", "skipped"} /\ k = Len(Steps(Plan))
             /\ results' = Append(results, r) /\ at' = "telemetry"
             /\ overall' = IF retried = {} THEN "completed" ELSE "retried"
             /\ UNCHANGED <<k, tries, retried, final>>
    BY <1>0, <1>2, <1>5 DEF Shape, Outcomes
  <1>6. CASE /\ r \in {"rejected", "timeout", "failure"} /\ ~Retried(r)
             /\ results' = Append(results, r)
             /\ overall' = IF r = "failure" THEN "failed" ELSE "aborted"
             /\ End(overall')
             /\ UNCHANGED <<k, tries, retried>>
    BY <1>0, <1>2, <1>6 DEF Shape, Outcomes, End, RunStatuses, FinalStatuses
  <1> QED
    BY <1>3, <1>4, <1>5, <1>6 DEF Reply

\* An answer to the step in hand keeps the invariant, whatever brought it.
LEMMA AfterReply ==
    ASSUME Inv, InHand, ~conf.uploadOnly, NEW r \in Results, Reply(r),
           at \in {"abort", "abort_ack"} => r \in StartFailures,
           UNCHANGED <<conf, after, progress, sent, up, obeyed, mode, flown>>,
           stored' \in BOOLEAN, Step # "upload" => stored' = stored,
           r = "accepted" => IF Step = "upload" THEN stored' \/ tries # 0 ELSE Step \in obeyed,
           down' \in Seq(DownMessage), Within(down', down),
           broken' \in BOOLEAN, faults' \in 0 .. MaxFaults
    PROVE  Inv'
  <1>0. Shape /\ Course /\ Claims /\ SuccessWasFlown /\ ReportedWasObeyed /\ Recalled /\ RecallLast
    BY DEF Inv
  <1> DEFINE S == Steps(Plan)
  <1>1. /\ Plan' = Plan /\ Steps(Plan)' = Steps(Plan) /\ Tracked' = Tracked /\ Items' = Items
        /\ DownMessage' = DownMessage /\ ProgressSet' = ProgressSet
    BY ConfFixed
  <1>2. /\ at' \in {"step", "telemetry", "ended"}
        /\ k' \in 1 .. Len(Steps(Plan)) /\ tries' \in 0 .. conf.budget
        /\ retried' \subseteq Kinds /\ retried \subseteq retried'
        /\ (tries' > 0 => Kind(k') \in retried') /\ (conf.budget = 0 => retried' = {})
        /\ results' \in Seq(Results) /\ overall' \in Outcomes /\ final' \in RunStatuses
        /\ final' = "completed" => final = "completed"
        /\ Len(results') \in {k' - 1, k'} /\ (at' = "step" => Len(results') = k' - 1)
        /\ results' = results \/ results' = Append(results, r)
        /\ at' = "step" => Retried(r) \/ r \in {"accepted", "skipped"}
        /\ at' = "telemetry" => r \in {"accepted", "skipped"}
    BY <1>0, ReplyFacts
  <1>3. Shape'
    <2>1. at' \in Places
      BY <1>2 DEF Places
    <2> QED
      BY <1>0, <1>1, <1>2, <2>1, Zenon DEF Shape
  <1>4. Course'
    BY <1>1, <1>2 DEF Course, InHand, Kind
  <1>5. Claims'
    BY <1>0, <1>1 DEF Claims, Within
  <1>6. SuccessWasFlown'
    BY <1>0, <1>1, <1>2 DEF SuccessWasFlown
  <1>7. ReportedWasObeyed'
    <2>0. Len(results) = k - 1 /\ results \in Seq(Results) /\ k \in 1 .. Len(S)
      BY <1>0 DEF Course, Shape
    <2>1. \A i \in DOMAIN results : i \in 1 .. Len(S) /\ i # k
      <3>1. DOMAIN results = 1 .. k - 1 /\ Len(S) \in Nat
        BY <2>0, <1>0, LenProperties, PlanFacts DEF Shape
      <3> QED
        BY <2>0, <3>1
    <2>2. \A i \in DOMAIN results : results[i] = "accepted" =>
              IF S[i] = "upload" THEN stored' \/ "upload" \in retried' ELSE S[i] \in obeyed
      <3> SUFFICES ASSUME NEW i \in DOMAIN results, results[i] = "accepted"
                   PROVE  IF S[i] = "upload" THEN stored' \/ "upload" \in retried' ELSE S[i] \in obeyed
        OBVIOUS
      <3>1. IF S[i] = "upload" THEN stored \/ "upload" \in retried ELSE S[i] \in obeyed
        BY <1>0 DEF ReportedWasObeyed
      <3>2. S[i] = "upload" => S[k] # "upload"
        BY <1>0, <2>0, <2>1, PlanFacts DEF Shape
      <3> QED
        BY <1>2, <3>1, <3>2 DEF Step
    <2>3. CASE results' = results
      BY <1>1, <2>2, <2>3 DEF ReportedWasObeyed
    <2>4. CASE results' = Append(results, r)
      <3>1. /\ \A i \in DOMAIN results' : i \in DOMAIN results \/ i = k
            /\ \A i \in DOMAIN results : results'[i] = results[i]
            /\ results'[k] = r
        BY <2>0, <2>4, AppendFacts
      <3>2. tries # 0 => Kind(k) \in retried'
        BY <1>0, <1>2 DEF Course, Shape
      <3> QED
        BY <1>1, <2>2, <3>1, <3>2 DEF ReportedWasObeyed, Step, Kind
    <2> QED
      BY <1>2, <2>3, <2>4
  <1>8. Recalled'
    BY <1>0, <1>2 DEF Recalled, InHand
  <1>9. RecallLast'
    <2> SUFFICES ASSUME conf.budget = 0, "rtl" \in sent PROVE at' = "ended"
      BY <1>0 DEF RecallLast
    <2>1. at = "abort_ack"
      BY <1>0 DEF RecallLast, InHand
    <2>2. r \in StartFailures
      BY <2>1
    <2>3. ~Retried(r)
      BY <1>0 DEF Retried, Shape
    <2> QED
      BY <1>2, <2>2, <2>3 DEF StartFailures
  <1> QED
    BY <1>3, <1>4, <1>5, <1>6, <1>7, <1>8, <1>9 DEF Inv

\* The end of the run keeps it as well.
LEMMA AfterEnd ==
    ASSUME Inv, NEW status \in RunStatuses, End(status), status = "completed" => Tracked \subseteq flown,
           UNCHANGED <<conf, executor, after, sent, up, obeyed, mode, flown>>,
           stored' \in BOOLEAN, stored' = stored \/ results = <<>>,
           progress' \in ProgressSet,
           \A t \in Tracked : progress'.status[t] = "completed" => t \in flown,
           progress'.final = "completed" => Tracked \subseteq flown,
           down' \in Seq(DownMessage), Within(down', down),
           broken' \in BOOLEAN, faults' \in 0 .. MaxFaults
    PROVE  Inv'
  <1>0. Shape /\ Course /\ Claims /\ SuccessWasFlown /\ ReportedWasObeyed /\ Recalled /\ RecallLast
    BY DEF Inv
  <1>1. /\ Plan' = Plan /\ Steps(Plan)' = Steps(Plan) /\ Tracked' = Tracked /\ Items' = Items
        /\ DownMessage' = DownMessage /\ ProgressSet' = ProgressSet
    BY ConfFixed
  <1>2. /\ UNCHANGED <<conf, k, tries, retried, results, overall, after, sent, up, obeyed, mode, flown>>
        /\ at' = "ended" /\ final' = status
    BY DEF End, executor
  <1>3. Shape'
    <2>1. at' \in Places /\ final' \in RunStatuses
      BY <1>2 DEF Places
    <2> QED
      BY <1>0, <1>1, <1>2, <2>1, Zenon DEF Shape
  <1>4. Course'
    BY <1>0, <1>1, <1>2 DEF Kind, Course, InHand
  <1>5. Claims'
    BY <1>0, <1>1, <1>2 DEF Claims, Within
  <1>6. SuccessWasFlown'
    BY <1>1, <1>2 DEF SuccessWasFlown
  <1>7. ReportedWasObeyed'
    BY <1>0, <1>1, <1>2 DEF ReportedWasObeyed
  <1>8. Recalled'
    BY <1>2 DEF Recalled
  <1>9. RecallLast'
    BY <1>0, <1>2 DEF RecallLast
  <1> QED
    BY <1>3, <1>4, <1>5, <1>6, <1>7, <1>8, <1>9 DEF Inv

\* The abort is over: the failed start has its result, or the run its end.
LEMMA AfterAbort ==
    ASSUME Inv, at \in {"abort", "abort_ack"}, Aborted, at = "abort_ack" \/ broken',
           UNCHANGED <<conf, after, progress, sent, up, vehicle>>,
           down' \in Seq(DownMessage), Within(down', down),
           broken' \in BOOLEAN, faults' \in 0 .. MaxFaults
    PROVE  Inv'
  <1>0. Shape /\ Course /\ Claims /\ Recalled
    BY DEF Inv
  <1>1. UNCHANGED <<stored, obeyed, mode, flown>> /\ stored \in BOOLEAN
    BY <1>0 DEF vehicle, Shape
  <1>2. CASE after \in StartFailures /\ Reply(after)
    <2>1. after \in Results /\ after # "accepted"
      BY <1>2 DEF StartFailures, Results
    <2>2. InHand /\ ~conf.uploadOnly
      BY <1>0, <1>2 DEF InHand, Course
    <2> QED
      BY <1>1, <1>2, <2>1, <2>2, AfterReply
  <1>3. CASE after \notin StartFailures /\ End(after) /\ UNCHANGED executor
    <2>1. after \in RunStatuses /\ after # "completed" /\ progress' \in ProgressSet
      BY <1>0, <1>3 DEF Shape, StartFailures
    <2>2. /\ \A t \in Tracked : progress'.status[t] = "completed" => t \in flown
          /\ progress'.final = "completed" => Tracked \subseteq flown
      BY <1>0 DEF Claims
    <2> QED
      BY <1>1, <1>3, <2>1, <2>2, AfterEnd
  <1> QED
    BY <1>2, <1>3 DEF Aborted

\* The client moves on with the step in hand, or passes over a message.
LEMMA AfterMove ==
    ASSUME Inv, UNCHANGED <<conf, executor, final, progress, sent, up, vehicle>>,
           \/ at' = at /\ after' = after
           \/ at = "heartbeat" /\ at' = "abort" /\ after' \in StartFailures
           \/ at = "ack" /\ at' = "heartbeat" /\ after' = after /\ Step = "start" /\ "start" \in obeyed,
           down' \in Seq(DownMessage), Within(down', down),
           broken' \in BOOLEAN, broken => broken', faults' \in 0 .. MaxFaults
    PROVE  Inv'
  <1>0. Shape /\ Course /\ Claims /\ SuccessWasFlown /\ ReportedWasObeyed /\ Recalled /\ RecallLast
    BY DEF Inv
  <1>1. /\ Plan' = Plan /\ Steps(Plan)' = Steps(Plan) /\ Tracked' = Tracked /\ Items' = Items
        /\ DownMessage' = DownMessage /\ ProgressSet' = ProgressSet
    BY ConfFixed
  <1>2. UNCHANGED <<conf, k, tries, retried, results, overall, final, progress, sent, up, stored, obeyed, mode, flown>>
    BY DEF executor, vehicle
  <1>3. Shape'
    <2>1. at' \in Places /\ after' \in StartFailures \cup (RunStatuses \ {"completed"})
      BY <1>0 DEF Shape, Places
    <2> QED
      BY <1>0, <1>1, <1>2, <2>1, Zenon DEF Shape
  <1>4. Course'
    <2>1. Step' = Step
      BY <1>1, <1>2 DEF Step
    <2> QED
      BY <1>0, <1>1, <1>2, <2>1 DEF Kind, Course, InHand
  <1>5. Claims'
    BY <1>0, <1>1, <1>2 DEF Claims, Within
  <1>6. SuccessWasFlown' /\ ReportedWasObeyed'
    BY <1>0, <1>1, <1>2 DEF SuccessWasFlown, ReportedWasObeyed
  <1>7. Recalled'
    BY <1>0, <1>2 DEF Recalled
  <1>8. RecallLast'
    BY <1>0, <1>2 DEF RecallLast
  <1> QED
    BY <1>3, <1>4, <1>5, <1>6, <1>7, <1>8 DEF Inv

\* A command, or the abort, is written to the connection.
LEMMA AfterSend ==
    ASSUME Inv, NEW c \in Commands, sent' = sent \cup {c}, up' = Append(up, c),
           UNCHANGED <<conf, executor, after, progress, final, down, vehicle, link>>,
           \/ at = "step" /\ at' = "ack" /\ c # "rtl" /\ Step # "upload" /\ ~conf.uploadOnly
           \/ at = "abort" /\ at' = "abort_ack" /\ c = "rtl"
    PROVE  Inv'
  <1>0. Shape /\ Course /\ Claims /\ SuccessWasFlown /\ ReportedWasObeyed /\ Recalled /\ RecallLast
    BY DEF Inv
  <1>1. /\ Plan' = Plan /\ Steps(Plan)' = Steps(Plan) /\ Tracked' = Tracked /\ Items' = Items
        /\ DownMessage' = DownMessage /\ ProgressSet' = ProgressSet
    BY ConfFixed
  <1>2. UNCHANGED <<conf, k, tries, retried, results, overall, after, final, progress, down,
                    stored, obeyed, mode, flown, broken, faults>>
    BY DEF executor, vehicle, link
  <1>a. /\ up' \in Seq(Commands) /\ Len(up') = Len(up) + 1 /\ Len(up) \in Nat
        /\ \A i \in DOMAIN up' : i \in DOMAIN up \/ i = Len(up) + 1
        /\ \A i \in DOMAIN up : up'[i] = up[i]
        /\ up'[Len(up) + 1] = c
    BY <1>0, AppendFacts DEF Shape
  <1>3. Shape'
    <2>1. at' \in Places
      BY DEF Places
    <2>2. sent' \subseteq Commands /\ obeyed \subseteq sent' /\ \A i \in DOMAIN up' : up'[i] \in sent'
      BY <1>0, <1>a DEF Shape
    <2> QED
      BY <1>0, <1>1, <1>2, <1>a, <2>1, <2>2, Zenon DEF Shape
  <1>4. Course'
    <2>1. Step' = Step
      BY <1>1, <1>2 DEF Step
    <2> QED
      BY <1>0, <1>1, <1>2, <2>1 DEF Kind, Course, InHand
  <1>5. Claims' /\ SuccessWasFlown' /\ ReportedWasObeyed'
    BY <1>0, <1>1, <1>2 DEF Claims, SuccessWasFlown, ReportedWasObeyed
  <1>6. Recalled'
    BY <1>0, <1>2 DEF Recalled
  <1>7. RecallLast'
    <2> SUFFICES ASSUME conf.budget = 0
                 PROVE  /\ "rtl" \in sent' => at' \in {"abort_ack", "ended"}
                        /\ mode # "rtl"
                        /\ \A i \in DOMAIN up' : up'[i] = "rtl" => i = Len(up')
      BY <1>2 DEF RecallLast
    <2>1. "rtl" \notin sent
      BY <1>0 DEF RecallLast
    <2>2. mode # "rtl"
      BY <1>0, <2>1 DEF RecallLast
    <2>3. \A i \in DOMAIN up : up[i] # "rtl"
      BY <1>0, <2>1 DEF Shape
    <2> QED
      BY <1>a, <2>1, <2>2, <2>3
  <1> QED
    BY <1>3, <1>4, <1>5, <1>6, <1>7 DEF Inv

-----------------------------------------------------------------------------
\* The tracker.

\* What a failure makes of the tracker.
LEMMA FailedTracker ==
    ASSUME Shape, Claims, NEW f \in FinalStatuses \ {"completed"}
    PROVE  /\ mark_failed(progress, f) \in ProgressSet /\ mark_failed(progress, f).final = f
           /\ \A t \in Tracked : mark_failed(progress, f).status[t] = "completed" => t \in flown
  <1> DEFINE st == [t \in DOMAIN progress.status |->
                       IF progress.status[t] = "completed" THEN "completed" ELSE "failed"]
  <1>0. progress \in ProgressSet
    BY DEF Shape
  <1>1. progress.status \in [Tracked -> TaskStatuses]
    BY <1>0 DEF ProgressSet
  <1>2. st \in [Tracked -> TaskStatuses]
    BY <1>1 DEF TaskStatuses
  <1>3. mark_failed(progress, f) = [progress EXCEPT !.status = st, !.final = f]
    BY DEF mark_failed
  <1>4. \A t \in Tracked : st[t] = "completed" => t \in flown
    BY <1>1 DEF Claims
  <1> HIDE DEF st
  <1> QED
    BY <1>0, <1>2, <1>3, <1>4 DEF ProgressSet

\* What a telemetry event makes of it: it credits nothing that was not flown.
LEMMA TrackerFacts ==
    ASSUME Shape, Claims, NEW e \in DownMessage, e.kind # "ack", KnownItem(progress, e),
           e.kind = "reached" => e.item \in flown
    PROVE  LET p == apply_event(progress, e)
           IN  /\ p \in ProgressSet
               /\ \A t \in Tracked : p.status[t] = "completed" => t \in flown
               /\ p.final = "completed" => Tracked \subseteq flown
  <1> DEFINE it == e.item
  <1>0. progress \in ProgressSet /\ e.kind \in EventKinds
    BY DEF Shape, DownMessage
  <1>1. /\ progress.items = [i \in Tracked |-> i] /\ progress.status \in [Tracked -> TaskStatuses]
        /\ progress.final \in FinalStatuses /\ progress.current \in {0} \cup Tracked
    BY <1>0 DEF ProgressSet
  <1>2. ASSUME e.kind \in {"current", "reached"} PROVE it \in Tracked /\ progress.items[it] = it
    BY <1>1, <1>2 DEF KnownItem
  <1>3. ASSUME NEW p \in ProgressSet, AllReached(p),
               \A t \in Tracked : p.status[t] = "completed" => t \in flown
        PROVE  Tracked \subseteq flown
    <2>1. DOMAIN p.status = Tracked
      BY DEF ProgressSet
    <2> QED
      BY <1>3, <2>1 DEF AllReached, completed_waypoints
  <1>4. CASE e.kind = "current"
    <2> DEFINE st == [progress.status EXCEPT ![it] = IF @ \in {"completed", "failed"} THEN @ ELSE "in_progress"]
    <2>1. apply_event(progress, e) = [progress EXCEPT !.current = it, !.status = st]
      BY <1>0, <1>2, <1>4 DEF apply_event, Current, ProgressSet
    <2>2. st \in [Tracked -> TaskStatuses]
      BY <1>1, <1>2, <1>4 DEF TaskStatuses
    <2>3. \A t \in Tracked : st[t] = "completed" => t \in flown
      BY <1>1, <1>2, <1>4 DEF Claims
    <2> HIDE DEF st
    <2> QED
      BY <1>0, <1>2, <1>4, <2>1, <2>2, <2>3 DEF ProgressSet, Claims
  <1>5. CASE e.kind = "reached"
    <2> DEFINE st == [progress.status EXCEPT ![it] = "completed"]
               q == [progress EXCEPT !.current = it, !.status = st]
    <2>1. q = [progress EXCEPT !.current = it, !.status[progress.items[it]] = "completed"]
      BY <1>0, <1>2, <1>5 DEF ProgressSet
    <2>2. apply_event(progress, e) = IF AllReached(q) THEN [q EXCEPT !.final = "completed"] ELSE q
      BY <1>5, <2>1 DEF apply_event, Reached
    <2>3. st \in [Tracked -> TaskStatuses]
      BY <1>1, <1>2, <1>5 DEF TaskStatuses
    <2>4. \A t \in Tracked : st[t] = "completed" => t \in flown
      BY <1>1, <1>2, <1>5 DEF Claims
    <2> HIDE DEF st
    <2>5. q \in ProgressSet /\ q.status = st /\ q.final = progress.final
      BY <1>0, <1>2, <1>5, <2>3 DEF ProgressSet
    <2> HIDE DEF q
    <2>6. AllReached(q) => Tracked \subseteq flown
      BY <1>3, <2>4, <2>5
    <2>7. [q EXCEPT !.final = "completed"] \in ProgressSet /\ [q EXCEPT !.final = "completed"].status = st
      BY <2>5 DEF ProgressSet, FinalStatuses
    <2> QED
      BY <2>2, <2>4, <2>5, <2>6, <2>7 DEF Claims
  <1>6. CASE e.kind = "complete"
    <2>1. apply_event(progress, e) =
              IF AllReached(progress) THEN [progress EXCEPT !.final = "completed"]
              ELSE mark_failed(progress, "failed")
      BY <1>6 DEF apply_event, Complete
    <2>2. AllReached(progress) => Tracked \subseteq flown
      BY <1>0, <1>3 DEF Claims
    <2>3. /\ [progress EXCEPT !.final = "completed"] \in ProgressSet
          /\ [progress EXCEPT !.final = "completed"].status = progress.status
      BY <1>0 DEF ProgressSet, FinalStatuses
    <2>4. "failed" \in FinalStatuses \ {"completed"}
      BY DEF FinalStatuses
    <2> QED
      BY <2>1, <2>2, <2>3, <2>4, FailedTracker DEF Claims
  <1>7. CASE e.kind \in {"rejected", "disconnected"}
    <2>1. apply_event(progress, e) = mark_failed(progress, e.kind)
      BY <1>7 DEF apply_event
    <2>2. e.kind \in FinalStatuses \ {"completed"}
      BY <1>7 DEF FinalStatuses
    <2> QED
      BY <2>1, <2>2, FailedTracker
  <1> QED
    BY <1>0, <1>4, <1>5, <1>6, <1>7 DEF EventKinds

\* The telemetry loop goes on, or turns to the abort, with a new tracker.
LEMMA AfterTelemetry ==
    ASSUME Inv, at = "telemetry", UNCHANGED <<conf, executor, final, sent, up, vehicle, link>>,
           \/ at' = at /\ after' = after /\ progress'.final = "none"
           \/ at' = "abort" /\ after' = progress'.final /\ progress'.final \notin {"none", "completed"},
           progress' \in ProgressSet,
           \A t \in Tracked : progress'.status[t] = "completed" => t \in flown,
           down' \in Seq(DownMessage), Within(down', down)
    PROVE  Inv'
  <1>0. Shape /\ Course /\ Claims /\ SuccessWasFlown /\ ReportedWasObeyed /\ Recalled /\ RecallLast
    BY DEF Inv
  <1>1. /\ Plan' = Plan /\ Steps(Plan)' = Steps(Plan) /\ Tracked' = Tracked /\ Items' = Items
        /\ DownMessage' = DownMessage /\ ProgressSet' = ProgressSet
    BY ConfFixed
  <1>2. UNCHANGED <<conf, k, tries, retried, results, overall, final, sent, up,
                    stored, obeyed, mode, flown, broken, faults>>
    BY DEF executor, vehicle, link
  <1>3. progress'.final \in FinalStatuses
    BY DEF ProgressSet
  <1>4. Shape'
    <2>1. at' \in Places /\ after' \in StartFailures \cup (RunStatuses \ {"completed"})
      BY <1>0, <1>3 DEF Shape, Places, RunStatuses
    <2> QED
      BY <1>0, <1>1, <1>2, <2>1, Zenon DEF Shape
  <1>5. after' \notin StartFailures \/ at' = "telemetry"
    BY <1>3 DEF StartFailures, FinalStatuses
  <1>6. Course'
    BY <1>0, <1>1, <1>2, <1>5 DEF Kind, Course, InHand
  <1>7. Claims'
    BY <1>0, <1>1, <1>2 DEF Claims, Within
  <1>8. SuccessWasFlown' /\ ReportedWasObeyed'
    BY <1>0, <1>1, <1>2 DEF SuccessWasFlown, ReportedWasObeyed
  <1>9. Recalled'
    BY <1>0, <1>2, <1>5 DEF Recalled
  <1>10. RecallLast'
    BY <1>0, <1>2 DEF RecallLast
  <1> QED
    BY <1>4, <1>6, <1>7, <1>8, <1>9, <1>10 DEF Inv

-----------------------------------------------------------------------------
\* The steps of the client.

\* What every case below needs of the messages that were not read.
LEMMA DownKept ==
    ASSUME Inv
    PROVE  /\ down \in Seq(DownMessage) /\ Within(down, down)
           /\ <<>> \in Seq(DownMessage) /\ Within(<<>>, down)
           /\ down # <<>> => /\ Tail(down) \in Seq(DownMessage) /\ Within(Tail(down), down)
                             /\ Head(down) \in DownMessage
                             /\ 1 \in DOMAIN down /\ Head(down) = down[1]
           /\ stored \in BOOLEAN /\ broken \in BOOLEAN
           /\ faults \in 0 .. MaxFaults /\ (faults < MaxFaults => faults + 1 \in 0 .. MaxFaults)
           /\ progress \in ProgressSet
           /\ \A t \in Tracked : progress.status[t] = "completed" => t \in flown
           /\ progress.final = "completed" => Tracked \subseteq flown
  <1>1. down \in Seq(DownMessage)
    BY DEF Inv, Shape
  <1>2. Within(down, down) /\ Within(<<>>, down) /\ <<>> \in Seq(DownMessage)
    BY EmptySeq DEF Within
  <1>3. faults < MaxFaults => faults + 1 \in 0 .. MaxFaults
    BY AgentBounds DEF Inv, Shape
  <1> QED
    BY <1>1, <1>2, <1>3, TailWithin DEF Inv, Shape, Claims

LEMMA RefuseKeeps ==
    ASSUME Inv, Refuse
    PROVE  Inv'
  <1>0. Shape /\ Course /\ Claims /\ SuccessWasFlown /\ ReportedWasObeyed /\ Recalled /\ RecallLast
    BY DEF Inv
  <1>1. /\ Plan' = Plan /\ Steps(Plan)' = Steps(Plan) /\ Tracked' = Tracked /\ Items' = Items
        /\ DownMessage' = DownMessage /\ ProgressSet' = ProgressSet
    BY ConfFixed DEF Refuse
  <1>2. /\ UNCHANGED <<conf, k, tries, retried, after, progress, sent, up, down,
                       stored, obeyed, mode, flown, broken, faults>>
        /\ at' = "ended" /\ final' \in {"aborted", "failed"} /\ overall' \in {"aborted", "none"}
        /\ results' \in {<<"rejected">>, <<>>} /\ at = "step" /\ k = 1 /\ ~conf.uploadOnly
    BY DEF Refuse, End, vehicle, link
  <1>3. results' \in Seq(Results) /\ Len(results') \in {0, 1}
        /\ \A i \in DOMAIN results' : results'[i] # "accepted"
    <2>1. CASE results' = <<>>
      BY <2>1, EmptySeq
    <2>2. CASE results' = <<"rejected">>
      <3>1. "rejected" \in Results
        BY DEF Results
      <3> QED
        BY <2>2, <3>1
    <2> QED
      BY <1>2, <2>1, <2>2
  <1>4. Shape'
    <2>1. at' \in Places /\ final' \in RunStatuses /\ overall' \in Outcomes
      BY <1>2 DEF Places, RunStatuses, FinalStatuses, Outcomes
    <2> QED
      BY <1>0, <1>1, <1>2, <1>3, <2>1, Zenon DEF Shape
  <1>5. Course'
    BY <1>0, <1>1, <1>2, <1>3 DEF Kind, Course, InHand
  <1>6. Claims' /\ SuccessWasFlown' /\ ReportedWasObeyed'
    BY <1>0, <1>1, <1>2, <1>3 DEF Claims, SuccessWasFlown, ReportedWasObeyed
  <1>7. Recalled' /\ RecallLast'
    BY <1>0, <1>2 DEF Recalled, RecallLast
  <1> QED
    BY <1>4, <1>5, <1>6, <1>7 DEF Inv

LEMMA SkipArmKeeps ==
    ASSUME Inv, SkipArm
    PROVE  Inv'
  <1>1. InHand /\ ~conf.uploadOnly /\ "skipped" \in Results /\ at = "step" /\ Step # "upload"
    BY DEF SkipArm, Stepping, InHand, Results
  <1>2. Reply("skipped") /\ UNCHANGED <<conf, after, progress, sent, up, down, stored, obeyed, mode, flown, broken, faults>>
    BY DEF SkipArm, vehicle, link
  <1> QED
    BY <1>1, <1>2, DownKept, AfterReply

LEMMA UploadKeeps ==
    ASSUME Inv, Upload
    PROVE  Inv'
  <1>1. InHand /\ ~conf.uploadOnly /\ at = "step" /\ Step = "upload"
    BY DEF Upload, Stepping, InHand
  <1>2. UNCHANGED <<conf, after, progress, sent, up, obeyed, mode, flown>>
    BY DEF Upload
  <1>3. {"accepted", "rejected", "timeout", "failure"} \subseteq Results
    BY DEF Results
  <1>4. PICK r \in {"accepted", "rejected", "timeout", "failure"} :
            /\ Reply(r) /\ stored' \in BOOLEAN /\ (r = "accepted" => stored' \/ tries # 0)
            /\ down' = down \/ down' = <<>>
            /\ \/ UNCHANGED <<broken, faults>>
               \/ faults < MaxFaults /\ faults' = faults + 1 /\ broken' = TRUE
    BY DownKept DEF Upload, link
  <1>5. down' \in Seq(DownMessage) /\ Within(down', down)
    BY <1>4, DownKept
  <1>6. broken' \in BOOLEAN /\ faults' \in 0 .. MaxFaults
    BY <1>4, DownKept
  <1> QED
    BY <1>1, <1>2, <1>3, <1>4, <1>5, <1>6, AfterReply

LEMMA SendCommandKeeps ==
    ASSUME Inv, SendCommand
    PROVE  Inv'
  <1>1. k \in 1 .. Len(Steps(Plan)) /\ conf \in Configuration
    BY DEF Inv, Shape
  <1>2. Step \in StepNames
    BY <1>1, PlanFacts DEF Step
  <1>3. Step \in Commands /\ Step # "rtl" /\ Step # "upload"
    BY <1>2 DEF StepNames, Commands, SendCommand
  <1>4. /\ at = "step" /\ at' = "ack" /\ ~conf.uploadOnly /\ sent' = sent \cup {Step} /\ up' = Append(up, Step)
        /\ UNCHANGED <<conf, executor, after, progress, final, down, vehicle, link>>
    BY DEF SendCommand, Stepping
  <1> QED
    BY <1>3, <1>4, AfterSend

LEMMA SendAbortKeeps ==
    ASSUME Inv, SendAbort
    PROVE  Inv'
  <1>1. "rtl" \in Commands
    BY DEF Commands
  <1>2. /\ at = "abort" /\ at' = "abort_ack" /\ sent' = sent \cup {"rtl"} /\ up' = Append(up, "rtl")
        /\ UNCHANGED <<conf, executor, after, progress, final, down, vehicle, link>>
    BY DEF SendAbort
  <1> QED
    BY <1>1, <1>2, AfterSend

LEMMA ReceiveAckKeeps ==
    ASSUME Inv, ReceiveAck
    PROVE  Inv'
  <1>0. Course /\ Claims
    BY DEF Inv
  <1>1. /\ down # <<>> /\ down' = Tail(down) /\ at \in {"ack", "heartbeat", "abort_ack"}
        /\ UNCHANGED <<conf, after, progress, sent, up, vehicle, link>>
    BY DEF ReceiveAck
  <1>2. UNCHANGED <<stored, obeyed, mode, flown, broken, faults>> /\ ~conf.uploadOnly
    BY <1>0, <1>1 DEF vehicle, link, Course
  <1>3. /\ down' \in Seq(DownMessage) /\ Within(down', down)
        /\ 1 \in DOMAIN down /\ Head(down) = down[1] /\ Head(down) \in DownMessage
    BY <1>1, DownKept
  <1>4. CASE at = "ack" /\ Matches(Head(down), Step) /\ Acknowledged(Head(down).ok)
    <2>1. Step # "upload" /\ (Head(down).ok => Step \in obeyed)
      BY <1>0, <1>3, <1>4 DEF Course, Claims, Matches
    <2>2. CASE Head(down).ok /\ Step = "start"
      <3>1. at' = "heartbeat" /\ UNCHANGED <<executor, final>> /\ "start" \in obeyed
        BY <1>4, <2>1, <2>2 DEF Acknowledged
      <3> QED
        BY <1>1, <1>2, <1>3, <1>4, <2>2, <3>1, DownKept, AfterMove
    <2>3. CASE ~(Head(down).ok /\ Step = "start")
      <3> DEFINE r == IF Head(down).ok THEN "accepted" ELSE "rejected"
      <3>1. Reply(r) /\ r \in Results /\ (r = "accepted" => Step \in obeyed)
        BY <1>4, <2>1, <2>3 DEF Acknowledged, Results
      <3>2. InHand
        BY <1>4 DEF InHand
      <3> HIDE DEF r
      <3> QED
        BY <1>1, <1>2, <1>3, <1>4, <2>1, <3>1, <3>2, DownKept, AfterReply
    <2> QED
      BY <2>2, <2>3
  <1>5. CASE at = "abort_ack" /\ Aborted
    BY <1>1, <1>2, <1>3, <1>5, DownKept, AfterAbort
  <1>6. CASE UNCHANGED <<at, executor, final>>
    BY <1>1, <1>2, <1>3, <1>6, DownKept, AfterMove
  <1> QED
    BY <1>4, <1>5, <1>6 DEF ReceiveAck

LEMMA HeartbeatKeeps ==
    ASSUME Inv, Heartbeat
    PROVE  Inv'
  <1>1. at = "heartbeat" /\ InHand /\ "accepted" \in Results
    BY DEF Heartbeat, InHand, Results
  <1>2. Step = "start" /\ "start" \in obeyed /\ ~conf.uploadOnly
    BY <1>1 DEF Inv, Course
  <1>3. Reply("accepted") /\ UNCHANGED <<conf, after, progress, sent, up, down, stored, obeyed, mode, flown, broken, faults>>
    BY DEF Heartbeat, vehicle, link
  <1> QED
    BY <1>1, <1>2, <1>3, DownKept, AfterReply

LEMMA TimeoutKeeps ==
    ASSUME Inv, Timeout
    PROVE  Inv'
  <1>1. UNCHANGED <<conf, progress, sent, up, down, vehicle, stored, obeyed, mode, flown, broken, faults>>
    BY DEF Timeout, vehicle, link
  <1>2. CASE at = "ack" /\ Reply("timeout") /\ UNCHANGED after
    <2>1. InHand /\ "timeout" \in Results /\ ~conf.uploadOnly
      BY <1>2 DEF InHand, Results, Inv, Course
    <2> QED
      BY <1>1, <1>2, <2>1, DownKept, AfterReply
  <1>3. CASE at = "abort_ack" /\ Aborted /\ UNCHANGED after
    BY <1>1, <1>3, DownKept, AfterAbort
  <1>4. CASE at = "heartbeat" /\ at' = "abort" /\ after' = "timeout" /\ UNCHANGED <<executor, final>>
    <2>1. after' \in StartFailures
      BY <1>4 DEF StartFailures
    <2> QED
      BY <1>1, <1>4, <2>1, DownKept, AfterMove
  <1> QED
    BY <1>2, <1>3, <1>4 DEF Timeout

LEMMA ConnectionFailsKeeps ==
    ASSUME Inv, ConnectionFails
    PROVE  Inv'
  <1>1. /\ UNCHANGED <<conf, progress, sent, up, down, vehicle, stored, obeyed, mode, flown>>
        /\ broken' = TRUE /\ faults' \in 0 .. MaxFaults
    BY DownKept DEF ConnectionFails, vehicle
  <1>2. CASE (Stepping \/ at = "ack") /\ Reply("failure") /\ UNCHANGED after
    <2>1. InHand /\ "failure" \in Results /\ ~conf.uploadOnly /\ at \in {"step", "ack"}
      BY <1>2 DEF InHand, Results, Inv, Course, Stepping
    <2> QED
      BY <1>1, <1>2, <2>1, DownKept, AfterReply
  <1>3. CASE at \in {"abort", "abort_ack"} /\ Aborted /\ UNCHANGED after
    BY <1>1, <1>3, DownKept, AfterAbort
  <1>4. CASE at = "heartbeat" /\ at' = "abort" /\ after' = "failure" /\ UNCHANGED <<executor, final>>
    <2>1. after' \in StartFailures
      BY <1>4 DEF StartFailures
    <2> QED
      BY <1>1, <1>4, <2>1, DownKept, AfterMove
  <1>5. CASE at = "telemetry" /\ End("failed") /\ UNCHANGED <<executor, after>>
    <2>1. "failed" \in RunStatuses
      BY DEF RunStatuses, FinalStatuses
    <2> QED
      BY <1>1, <1>5, <2>1, DownKept, AfterEnd
  <1> QED
    BY <1>2, <1>3, <1>4, <1>5 DEF ConnectionFails

LEMMA UploadOnlyKeeps ==
    ASSUME Inv, UploadOnly
    PROVE  Inv'
  <1>1. /\ UNCHANGED <<conf, executor, after, progress, sent, up, down, obeyed, mode, flown, broken, faults>>
        /\ stored' \in BOOLEAN /\ results = <<>> /\ at = "step"
    BY DEF UploadOnly, link, Inv, Course
  <1>2. PICK status \in {"upload_accepted", "failed"} : End(status)
    BY DEF UploadOnly
  <1>3. status \in RunStatuses /\ status # "completed"
    BY DEF RunStatuses, FinalStatuses
  <1> QED
    BY <1>1, <1>2, <1>3, DownKept, AfterEnd

LEMMA ReceiveTelemetryKeeps ==
    ASSUME Inv, ReceiveTelemetry
    PROVE  Inv'
  <1> DEFINE e == Head(down)
             p == apply_event(progress, e)
  <1>0. Shape /\ Claims
    BY DEF Inv
  <1>1. /\ at = "telemetry" /\ down # <<>> /\ down' = Tail(down)
        /\ UNCHANGED <<conf, executor, sent, up, vehicle, link, stored, obeyed, mode, flown, broken, faults>>
    BY DEF ReceiveTelemetry, vehicle, link
  <1>2. /\ down' \in Seq(DownMessage) /\ Within(down', down)
        /\ 1 \in DOMAIN down /\ e = down[1] /\ e \in DownMessage
    BY <1>1, DownKept
  <1>3. CASE e.kind = "ack" /\ UNCHANGED <<at, after, progress, final>>
    BY <1>1, <1>2, <1>3, DownKept, AfterMove
  <1>4. CASE End("failed") /\ UNCHANGED <<after, progress>>
    <2>1. "failed" \in RunStatuses
      BY DEF RunStatuses, FinalStatuses
    <2> QED
      BY <1>1, <1>2, <1>4, <2>1, DownKept, AfterEnd
  <1>5. ASSUME e.kind # "ack", KnownItem(progress, e)
        PROVE  /\ p \in ProgressSet
               /\ \A t \in Tracked : p.status[t] = "completed" => t \in flown
               /\ p.final = "completed" => Tracked \subseteq flown
    <2>1. e.kind = "reached" => e.item \in flown
      BY <1>0, <1>2 DEF Claims
    <2> QED
      BY <1>0, <1>2, <1>5, <2>1, TrackerFacts
  <1> HIDE DEF e, p
  <1>6. CASE /\ e.kind # "ack" /\ KnownItem(progress, e) /\ progress' = p
             /\ p.final = "none" /\ UNCHANGED <<at, after, final>>
    BY <1>1, <1>2, <1>5, <1>6, AfterTelemetry
  <1>7. CASE /\ e.kind # "ack" /\ KnownItem(progress, e) /\ progress' = p
             /\ p.final = "completed" /\ End("completed") /\ UNCHANGED after
    <2>1. "completed" \in RunStatuses
      BY DEF RunStatuses, FinalStatuses
    <2> QED
      BY <1>1, <1>2, <1>5, <1>7, <2>1, DownKept, AfterEnd
  <1>8. CASE /\ e.kind # "ack" /\ KnownItem(progress, e)
             /\ p.final \notin {"none", "completed"} /\ Fail(p)
    BY <1>1, <1>2, <1>5, <1>8, AfterTelemetry DEF Fail
  <1> QED
    BY <1>3, <1>4, <1>6, <1>7, <1>8 DEF ReceiveTelemetry, e, p

LEMMA TelemetryTimeoutKeeps ==
    ASSUME Inv, TelemetryTimeout
    PROVE  Inv'
  <1>0. Shape /\ Claims
    BY DEF Inv
  <1>1. at = "telemetry" /\ UNCHANGED <<conf, executor, sent, up, down, vehicle, link>>
    BY DEF TelemetryTimeout
  <1>2. PICK f \in {"disconnected", "timed_out_no_progress"} : Fail(mark_failed(progress, f))
    <2>1. apply_event(progress, Event("disconnected", 0)) = mark_failed(progress, "disconnected")
      BY DEF apply_event, Event
    <2> QED
      BY <2>1 DEF TelemetryTimeout
  <1>3. f \in FinalStatuses \ {"completed"} /\ f \notin {"none", "completed"}
    BY DEF FinalStatuses
  <1>4. /\ mark_failed(progress, f) \in ProgressSet /\ mark_failed(progress, f).final = f
        /\ \A t \in Tracked : mark_failed(progress, f).status[t] = "completed" => t \in flown
    BY <1>0, <1>3, FailedTracker
  <1>5. progress' = mark_failed(progress, f) /\ at' = "abort" /\ after' = f /\ UNCHANGED final
    BY <1>2, <1>4 DEF Fail
  <1> QED
    BY <1>1, <1>3, <1>4, <1>5, DownKept, AfterTelemetry

-----------------------------------------------------------------------------
\* The vehicle and the link.

\* What does not touch the client keeps most of the invariant.
LEMMA ClientIdle ==
    ASSUME Inv, UNCHANGED <<conf, client>>, sent' = sent, stored' = stored, broken' = broken,
           obeyed \subseteq obeyed', obeyed' \subseteq sent, flown \subseteq flown', flown' \subseteq Items,
           mode' \in Modes, faults' \in 0 .. MaxFaults,
           up' \in Seq(Commands), Within(up', up),
           down' \in Seq(DownMessage),
           \A i \in DOMAIN down' : down'[i].kind = "ack" /\ down'[i].ok => down'[i].cmd \in obeyed',
           \A i \in DOMAIN down' : down'[i].kind = "reached" => down'[i].item \in flown',
           RecallLast'
    PROVE  Inv'
  <1>0. Shape /\ Course /\ Claims /\ SuccessWasFlown /\ ReportedWasObeyed /\ Recalled
    BY DEF Inv
  <1>1. /\ Plan' = Plan /\ Steps(Plan)' = Steps(Plan) /\ Tracked' = Tracked /\ Items' = Items
        /\ DownMessage' = DownMessage /\ ProgressSet' = ProgressSet
    BY ConfFixed
  <1>2. UNCHANGED <<conf, at, k, tries, retried, results, overall, after, progress, final, sent, stored, broken>>
    BY DEF client, executor
  <1>3. Shape'
    <2>1. obeyed' \subseteq sent' /\ \A i \in DOMAIN up' : up'[i] \in sent'
      BY <1>0, <1>2, WithinKeeps DEF Shape
    <2> QED
      BY <1>0, <1>1, <1>2, <2>1, Zenon DEF Shape
  <1>4. Course'
    <2>1. Step' = Step
      BY <1>1, <1>2 DEF Step
    <2> QED
      BY <1>0, <1>1, <1>2, <2>1 DEF Kind, Course, InHand
  <1>5. Claims' /\ SuccessWasFlown' /\ ReportedWasObeyed'
    BY <1>0, <1>1, <1>2 DEF Claims, SuccessWasFlown, ReportedWasObeyed
  <1>6. Recalled'
    BY <1>0, <1>2 DEF Recalled
  <1> QED
    BY <1>3, <1>4, <1>5, <1>6 DEF Inv

LEMMA VehicleObeysKeeps ==
    ASSUME Inv, VehicleObeys
    PROVE  Inv'
  <1> DEFINE c == Head(up)
  <1>0. Shape /\ Claims /\ RecallLast
    BY DEF Inv
  <1>1. PICK ok \in BOOLEAN :
            /\ obeyed' = IF ok THEN obeyed \cup {c} ELSE obeyed
            /\ mode' \in IF ok THEN ModesAfter(c) ELSE {mode}
            /\ down' = Append(down, Ack(c, ok))
    BY DEF VehicleObeys
  <1>2. /\ up # <<>> /\ up' = Tail(up) /\ UNCHANGED <<conf, client, stored, flown, link>>
        /\ sent' = sent /\ at' = at /\ broken' = broken /\ faults' = faults
    BY DEF VehicleObeys, link, client
  <1>3. /\ up' \in Seq(Commands) /\ Len(up') = Len(up) - 1 /\ Within(up', up)
        /\ \A i \in 1 .. Len(up) - 1 : up'[i] = up[i + 1]
        /\ c = up[1] /\ 1 \in DOMAIN up /\ c \in Commands /\ Len(up) \in Nat \ {0}
        /\ DOMAIN up = 1 .. Len(up) /\ DOMAIN up' = 1 .. Len(up) - 1
    <2>1. up \in Seq(Commands)
      BY <1>0 DEF Shape
    <2>2. /\ Tail(up) \in Seq(Commands) /\ Len(Tail(up)) = Len(up) - 1 /\ Within(Tail(up), up)
          /\ \A i \in 1 .. Len(up) - 1 : Tail(up)[i] = up[i + 1]
          /\ Head(up) = up[1] /\ 1 \in DOMAIN up /\ Head(up) \in Commands /\ Len(up) \in Nat \ {0}
      BY <1>2, <2>1, TailWithin
    <2>3. DOMAIN up = 1 .. Len(up) /\ DOMAIN Tail(up) = 1 .. Len(up) - 1
      BY <2>1, <2>2, LenProperties
    <2> QED
      BY <1>2, <2>2, <2>3
  <1>4. c \in sent
    BY <1>0, <1>3 DEF Shape
  <1> HIDE DEF c
  <1>5. Ack(c, ok) \in DownMessage
    BY <1>3 DEF Ack, DownMessage
  <1>6. /\ down' \in Seq(DownMessage)
        /\ \A i \in DOMAIN down' : i \in DOMAIN down \/ i = Len(down) + 1
        /\ \A i \in DOMAIN down : down'[i] = down[i]
        /\ down'[Len(down) + 1] = Ack(c, ok)
    BY <1>0, <1>1, <1>5, AppendFacts DEF Shape
  <1>7. Ack(c, ok).kind = "ack" /\ Ack(c, ok).cmd = c /\ Ack(c, ok).ok = ok
    BY DEF Ack
  <1>8. /\ \A i \in DOMAIN down' : down'[i].kind = "ack" /\ down'[i].ok => down'[i].cmd \in obeyed'
        /\ \A i \in DOMAIN down' : down'[i].kind = "reached" => down'[i].item \in flown'
    BY <1>0, <1>1, <1>2, <1>6, <1>7 DEF Claims
  <1>9. mode' \in Modes /\ (mode' = "rtl" => c = "rtl" \/ mode = "rtl")
    BY <1>0, <1>1, <1>3 DEF Shape, ModesAfter, Modes, Commands
  <1>10. RecallLast'
    <2> SUFFICES ASSUME conf.budget = 0
                 PROVE  /\ "rtl" \in sent => at \in {"abort_ack", "ended"}
                        /\ mode' = "rtl" => "rtl" \in sent /\ up' = <<>>
                        /\ \A i \in DOMAIN up' : up'[i] = "rtl" => i = Len(up')
      BY <1>2 DEF RecallLast
    <2>1. /\ "rtl" \in sent => at \in {"abort_ack", "ended"}
          /\ mode = "rtl" => "rtl" \in sent /\ up = <<>>
          /\ \A i \in DOMAIN up : up[i] = "rtl" => i = Len(up)
      BY <1>0 DEF RecallLast
    <2>2. ASSUME mode' = "rtl" PROVE "rtl" \in sent /\ up' = <<>>
      <3>1. c = "rtl"
        BY <1>2, <1>9, <2>1, <2>2
      <3>2. Len(up') = 0
        <4>1. 1 = Len(up)
          BY <1>3, <2>1, <3>1
        <4>2. Len(up') = Len(up) - 1
          BY <1>3
        <4> QED
          BY <4>1, <4>2
      <3> QED
        BY <1>3, <1>4, <3>1, <3>2, EmptySeq
    <2>3. ASSUME NEW i \in DOMAIN up', up'[i] = "rtl" PROVE i = Len(up')
      <3>1. i + 1 \in DOMAIN up /\ up[i + 1] = "rtl" /\ i \in Nat
        BY <1>3, <2>3
      <3> QED
        BY <1>3, <2>1, <3>1
    <2> QED
      BY <2>1, <2>2, <2>3
  <1>11. /\ obeyed \subseteq obeyed' /\ obeyed' \subseteq sent /\ flown \subseteq flown'
         /\ flown' \subseteq Items /\ faults' \in 0 .. MaxFaults /\ stored' = stored
    BY <1>0, <1>1, <1>2, <1>4 DEF Shape
  <1> QED
    BY <1>2, <1>3, <1>6, <1>8, <1>9, <1>10, <1>11, ClientIdle

\* A message that the vehicle sends of its own accord.
LEMMA AfterSays ==
    ASSUME Inv, NEW m \in DownMessage, m.kind # "ack", down' = Append(down, m),
           m.kind = "reached" => m.item \in flown',
           UNCHANGED <<conf, client, up, stored, obeyed, mode, broken>>,
           flown \subseteq flown', flown' \subseteq Items, faults' \in 0 .. MaxFaults
    PROVE  Inv'
  <1>0. Shape /\ Claims /\ RecallLast
    BY DEF Inv
  <1>1. /\ down' \in Seq(DownMessage)
        /\ \A i \in DOMAIN down' : i \in DOMAIN down \/ i = Len(down) + 1
        /\ \A i \in DOMAIN down : down'[i] = down[i]
        /\ down'[Len(down) + 1] = m
    BY <1>0, AppendFacts DEF Shape
  <1>2. /\ \A i \in DOMAIN down' : down'[i].kind = "ack" /\ down'[i].ok => down'[i].cmd \in obeyed'
        /\ \A i \in DOMAIN down' : down'[i].kind = "reached" => down'[i].item \in flown'
    BY <1>0, <1>1 DEF Claims
  <1>3. /\ sent' = sent /\ at' = at /\ mode' \in Modes /\ obeyed' \subseteq sent
        /\ up' \in Seq(Commands) /\ Within(up', up)
    BY <1>0 DEF Shape, client, Within
  <1>4. RecallLast'
    BY <1>0, <1>3 DEF RecallLast
  <1> QED
    BY <1>1, <1>2, <1>3, <1>4, ClientIdle

LEMMA VehicleFliesKeeps ==
    ASSUME Inv, VehicleFlies
    PROVE  Inv'
  <1> DEFINE n == Cardinality(flown) + 1
  <1>0. Shape
    BY DEF Inv
  <1>1. n \in Items
    <2>1. Plan.items \in Nat
      BY <1>0, PlanFacts DEF Shape
    <2>2. IsFiniteSet(Items) /\ Cardinality(Items) = Plan.items
      <3>1. ASSUME NEW c \in Nat
            PROVE  IsFiniteSet(1 .. c) /\ Cardinality(1 .. c) = c
        BY FS_Interval
      <3> QED
        BY <2>1, <3>1, Zenon DEF Items
    <2>3. flown \subseteq Items /\ flown # Items
      BY <1>0 DEF Shape, VehicleFlies
    <2>4. IsFiniteSet(flown) /\ Cardinality(flown) <= Plan.items /\ Cardinality(flown) # Plan.items
      BY <2>2, <2>3, FS_Subset
    <2>5. Cardinality(flown) \in Nat
      BY <2>4, FS_CardinalityType
    <2> QED
      BY <2>1, <2>4, <2>5 DEF Items
  <1> HIDE DEF n
  <1>2. \A kind \in EventKinds : Event(kind, n) \in DownMessage /\ Event(kind, n).kind = kind /\ Event(kind, n).item = n
    <2>1. n \in 0 .. Plan.items
      BY <1>1 DEF Items
    <2> QED
      BY <2>1 DEF Event, DownMessage
  <1>3. UNCHANGED <<conf, client, up, stored, obeyed, mode, broken, faults>> /\ faults \in 0 .. MaxFaults
    BY DownKept DEF VehicleFlies, link
  <1>4. CASE Says("current", n) /\ UNCHANGED flown
    <2>1. "current" \in EventKinds /\ down' = Append(down, Event("current", n))
      BY <1>4 DEF Says, EventKinds
    <2>2. flown \subseteq flown' /\ flown' \subseteq Items
      BY <1>0, <1>4 DEF Shape
    <2>3. Event("current", n) \in DownMessage /\ Event("current", n).kind = "current"
      BY <1>2, <2>1
    <2> QED
      BY <1>3, <2>1, <2>2, <2>3, AfterSays
  <1>5. CASE Says("reached", n) /\ flown' = flown \cup {n}
    <2>1. "reached" \in EventKinds /\ down' = Append(down, Event("reached", n))
      BY <1>5 DEF Says, EventKinds
    <2>2. flown \subseteq flown' /\ flown' \subseteq Items /\ n \in flown'
      BY <1>0, <1>1, <1>5 DEF Shape
    <2>3. Event("reached", n) \in DownMessage /\ Event("reached", n).kind = "reached" /\ Event("reached", n).item = n
      BY <1>2, <2>1
    <2> QED
      BY <1>3, <2>1, <2>2, <2>3, AfterSays
  <1> QED
    BY <1>4, <1>5 DEF VehicleFlies, n

LEMMA VehicleReportsKeeps ==
    ASSUME Inv, VehicleReports
    PROVE  Inv'
  <1>1. PICK kind \in {"complete", "rejected"} : down' = Append(down, Event(kind, 0))
    BY DEF VehicleReports, Says
  <1>2. Event(kind, 0) \in DownMessage /\ Event(kind, 0).kind = kind
    <2>1. Plan.items \in Nat
      BY PlanFacts DEF Inv, Shape
    <2> QED
      BY <2>1 DEF Event, DownMessage, EventKinds
  <1>3. /\ UNCHANGED <<conf, client, up, stored, obeyed, mode, broken, flown>>
        /\ faults' \in 0 .. MaxFaults /\ flown \subseteq Items
    BY DownKept DEF VehicleReports, vehicle, Inv, Shape
  <1> QED
    BY <1>1, <1>2, <1>3, AfterSays

LEMMA LoseKeeps ==
    ASSUME Inv, Lose
    PROVE  Inv'
  <1>0. Shape /\ Claims /\ RecallLast
    BY DEF Inv
  <1>1. /\ UNCHANGED <<conf, client, stored, obeyed, mode, broken, flown>> /\ sent' = sent /\ at' = at
        /\ faults' \in 0 .. MaxFaults /\ flown \subseteq Items /\ mode \in Modes /\ obeyed \subseteq sent
        /\ up \in Seq(Commands) /\ Within(up, up)
    BY <1>0, DownKept DEF Lose, vehicle, client, Shape, Within
  <1>2. CASE (\E i \in 1 .. Len(up) : up' = RemoveAt(up, i)) /\ UNCHANGED down
    <2>1. PICK i \in 1 .. Len(up) : up' = RemoveAt(up, i)
      BY <1>2
    <2>2. /\ up' \in Seq(Commands) /\ Within(up', up) /\ Len(up') = Len(up) - 1
          /\ \A j \in 1 .. Len(up) - 1 : up'[j] = IF j < i THEN up[j] ELSE up[j + 1]
      BY <1>1, <2>1, RemoveWithin
    <2>3. /\ DOMAIN up' = 1 .. Len(up) - 1 /\ DOMAIN up = 1 .. Len(up) /\ Len(up) \in Nat
          /\ up # <<>>
      BY <1>1, <2>1, <2>2, LenProperties, EmptySeq
    <2>4. RecallLast'
      <3> SUFFICES ASSUME conf.budget = 0, NEW j \in DOMAIN up', up'[j] = "rtl"
                   PROVE  j = Len(up')
        BY <1>0, <1>1, <2>3 DEF RecallLast
      <3>1. \A m \in DOMAIN up : up[m] = "rtl" => m = Len(up)
        BY <1>0 DEF RecallLast
      <3>2. j \in 1 .. Len(up) - 1 /\ j \in DOMAIN up /\ j + 1 \in DOMAIN up /\ j < Len(up)
        BY <2>3
      <3>3. up'[j] = up[j + 1]
        BY <2>2, <3>1, <3>2
      <3> QED
        BY <2>2, <2>3, <3>1, <3>2, <3>3
    <2>5. /\ \A j \in DOMAIN down' : down'[j].kind = "ack" /\ down'[j].ok => down'[j].cmd \in obeyed'
          /\ \A j \in DOMAIN down' : down'[j].kind = "reached" => down'[j].item \in flown'
      BY <1>0, <1>1, <1>2 DEF Claims
    <2> QED
      BY <1>1, <1>2, <2>2, <2>4, <2>5, DownKept, ClientIdle
  <1>3. CASE (\E i \in 1 .. Len(down) : down' = RemoveAt(down, i)) /\ UNCHANGED up
    <2>1. down' \in Seq(DownMessage) /\ Within(down', down)
      BY <1>3, DownKept, RemoveWithin
    <2>2. /\ \A j \in DOMAIN down' : down'[j].kind = "ack" /\ down'[j].ok => down'[j].cmd \in obeyed'
          /\ \A j \in DOMAIN down' : down'[j].kind = "reached" => down'[j].item \in flown'
      BY <1>0, <1>1, <2>1 DEF Claims, Within
    <2>3. RecallLast'
      BY <1>0, <1>1, <1>3 DEF RecallLast
    <2> QED
      BY <1>1, <1>3, <2>1, <2>2, <2>3, ClientIdle
  <1> QED
    BY <1>2, <1>3 DEF Lose

-----------------------------------------------------------------------------
\* The theorems.

LEMMA InvInit == Init => Inv
  <1> SUFFICES ASSUME Init PROVE Inv
    OBVIOUS
  <1>1. conf \in Configuration /\ conf.budget \in Nat
    BY AgentBounds DEF Init, Configuration
  <1>2. 1 \in 1 .. Len(Steps(Plan))
    BY <1>1, PlanFacts
  <1>3. progress \in ProgressSet /\ progress.final = "none" /\ \A t \in Tracked : progress.status[t] = "unassigned"
    <2> DEFINE its == [i \in Tracked |-> i]
    <2>1. ToSet(its) = Tracked
      BY DEF ToSet
    <2>2. progress = [items |-> its, status |-> [t \in Tracked |-> "unassigned"], current |-> 0, final |-> "none"]
      BY <2>1 DEF Init, from_waypoints
    <2>3. [t \in Tracked |-> "unassigned"] \in [Tracked -> TaskStatuses]
      BY DEF TaskStatuses
    <2> QED
      BY <2>2, <2>3 DEF ProgressSet, FinalStatuses
  <1>4. results = <<>> /\ up = <<>> /\ down = <<>> /\ DOMAIN up = {} /\ DOMAIN down = {} /\ DOMAIN results = {}
    BY DEF Init
  <1>5. Shape
    <2>1. results \in Seq(Results) /\ up \in Seq(Commands) /\ down \in Seq(DownMessage)
      BY <1>4, EmptySeq
    <2>2. "none" \in RunStatuses \ {"completed"} /\ "step" \in Places /\ "none" \in Outcomes /\ "ground" \in Modes
      BY DEF RunStatuses, FinalStatuses, Places, Outcomes, Modes
    <2>3. tries \in 0 .. conf.budget /\ retried \subseteq Kinds /\ faults \in 0 .. MaxFaults
      BY <1>1, AgentBounds DEF Init
    <2> QED
      BY <1>1, <1>2, <1>3, <1>4, <2>1, <2>2, <2>3 DEF Init, Shape
  <1>6. Course
    <2>1. k = 1 /\ retried = {} /\ tries = 0 /\ at = "step" /\ Len(results) = 0
      BY <1>4, EmptySeq DEF Init
    <2> QED
      BY <1>4, <2>1 DEF Course
  <1>7. Claims /\ SuccessWasFlown /\ ReportedWasObeyed
    BY <1>3, <1>4 DEF Init, Claims, SuccessWasFlown, ReportedWasObeyed
  <1>8. Recalled /\ RecallLast
    BY <1>3, <1>4 DEF Init, Recalled, RecallLast
  <1> QED
    BY <1>5, <1>6, <1>7, <1>8 DEF Inv

LEMMA InvStep == Inv /\ [Next]_vars => Inv'
  <1> SUFFICES ASSUME Inv, [Next]_vars PROVE Inv'
    OBVIOUS
  <1>1. CASE Client
    BY <1>1, RefuseKeeps, SkipArmKeeps, UploadKeeps, SendCommandKeeps, SendAbortKeeps, ReceiveAckKeeps,
       HeartbeatKeeps, TimeoutKeeps, ConnectionFailsKeeps, UploadOnlyKeeps, ReceiveTelemetryKeeps,
       TelemetryTimeoutKeeps DEF Client
  <1>2. CASE UNCHANGED vars
    <2>1. UNCHANGED <<conf, client, up, down, vehicle, link>>
      BY <1>2 DEF vars
    <2>2. UNCHANGED <<at, executor, after, progress, final, sent, broken, faults>>
      BY <2>1 DEF client, link
    <2> QED
      BY <2>1, <2>2, DownKept, AfterMove
  <1> QED
    BY <1>1, <1>2, VehicleObeysKeeps, VehicleFliesKeeps, VehicleReportsKeeps, LoseKeeps DEF Next

LEMMA InvAlways == Spec => []Inv
  BY InvInit, InvStep, PTL DEF Spec

\* The executor stays within its plan and its retry budget, and the tracker
\* within its tasks, in every order of answers and deadlines
\* (mavlink_executor.rs, sitl_agent_runtime).
THEOREM TypeCorrect == Spec => []TypeOK
  <1>1. Inv => TypeOK
    <2> SUFFICES ASSUME Inv PROVE TypeOK
      OBVIOUS
    <2>0. Shape /\ Course
      BY DEF Inv
    <2>1. conf.budget \in Nat /\ Len(Steps(Plan)) \in Nat
      BY <2>0, AgentBounds, PlanFacts DEF Shape, Configuration
    <2>2. retried \subseteq Kinds /\ (conf.budget = 0 => retried = {})
      BY <2>0 DEF Shape, Course
    <2>3. \A i \in DOMAIN results : results[i] \in Results
      BY <2>0, LenProperties DEF Shape
    <2>4. \A i \in DOMAIN down : down[i] \in DownMessage
      BY <2>0, LenProperties DEF Shape
    <2>5. DOMAIN progress.status = Tracked /\ progress.current \in {0} \cup Tracked
      BY <2>0 DEF Shape, ProgressSet
    <2>6. Len(results) \in {k - 1, k}
      BY <2>0 DEF Course
    <2>7. after \in StartFailures \cup RunStatuses
      BY <2>0 DEF Shape
    <2> QED
      BY <2>0, <2>2, <2>3, <2>4, <2>5, <2>6, <2>7, Zenon DEF Shape, TypeOK
  <1> QED
    BY <1>1, InvAlways, PTL

\* A run that is reported as completed was flown to the last waypoint that
\* the tracker knows (apply_event, the telemetry loop), however many
\* messages were lost, late or odd.
THEOREM SuccessFlown == Spec => []SuccessWasFlown
  <1>1. Inv => SuccessWasFlown
    BY DEF Inv
  <1> QED
    BY <1>1, InvAlways, PTL

\* What the executor's report calls accepted has taken effect on the vehicle,
\* for every plan the compiler makes and every retry budget, an upload that was
\* retried excepted (wait_command_ack, execute_mavlink_common_plan).
THEOREM ReportObeyed == Spec => []ReportedWasObeyed
  <1>1. Inv => ReportedWasObeyed
    BY DEF Inv
  <1> QED
    BY <1>1, InvAlways, PTL

\* A run that ends while it watches the started mission has flown it or recalled
\* the vehicle, unless the connection broke or the tracker was given an item that
\* it does not know, and without retries a vehicle that returns is not sent
\* anywhere else (abort, the telemetry loop).
THEOREM RecallIsKept == Spec => RecallKept
  <1>1. Inv /\ [Next]_vars =>
            /\ (at \in Watching /\ at' = "ended") =>
                  final' = "completed" \/ "rtl" \in sent' \/ broken' \/ UnknownItem
            /\ (conf.budget = 0 /\ mode = "rtl") => mode' = "rtl"
    <2> SUFFICES ASSUME Inv, [Next]_vars
                 PROVE  /\ (at \in Watching /\ at' = "ended") =>
                              final' = "completed" \/ "rtl" \in sent' \/ broken' \/ UnknownItem
                        /\ (conf.budget = 0 /\ mode = "rtl") => mode' = "rtl"
      OBVIOUS
    <2>1. ASSUME at \in Watching, at' = "ended"
          PROVE  final' = "completed" \/ "rtl" \in sent' \/ broken' \/ UnknownItem
      <3>1. Shape /\ Course /\ Recalled
        BY DEF Inv
      <3>2. at # "ended" /\ at # "step" /\ at # "ack"
        BY <2>1 DEF Watching
      <3>3. CASE ReceiveAck
        <4>1. CASE at = "abort_ack"
          BY <3>1, <3>3, <4>1 DEF ReceiveAck, Recalled
        <4>2. CASE at = "heartbeat"
          BY <2>1, <3>3, <4>2 DEF ReceiveAck
        <4> QED
          BY <3>2, <3>3, <4>1, <4>2 DEF ReceiveAck
      <3>4. CASE Heartbeat
        BY <2>1, <3>1, <3>4, ReplyFacts DEF Heartbeat, InHand, Results
      <3>5. CASE Timeout
        BY <2>1, <3>1, <3>2, <3>5 DEF Timeout, Recalled
      <3>6. CASE ConnectionFails
        BY <3>6 DEF ConnectionFails
      <3>7. CASE ReceiveTelemetry
        BY <2>1, <3>2, <3>7 DEF ReceiveTelemetry, UnknownItem, End, Fail
      <3>8. CASE SendAbort \/ TelemetryTimeout
        BY <2>1, <3>8 DEF SendAbort, TelemetryTimeout, Fail
      <3>9. CASE Refuse \/ SkipArm \/ Upload \/ SendCommand \/ UploadOnly
        BY <3>2, <3>9 DEF Refuse, SkipArm, Upload, SendCommand, UploadOnly, Stepping
      <3>10. CASE VehicleObeys \/ VehicleFlies \/ VehicleReports \/ Lose \/ UNCHANGED vars
        <4>1. at' = at
          BY <3>10 DEF VehicleObeys, VehicleFlies, VehicleReports, Lose, vars, client
        <4> QED
          BY <2>1, <3>2, <4>1
      <3> QED
        BY <3>3, <3>4, <3>5, <3>6, <3>7, <3>8, <3>9, <3>10 DEF Next, Client
    <2>2. ASSUME conf.budget = 0, mode = "rtl" PROVE mode' = "rtl"
      <3>1. up = <<>>
        BY <2>2 DEF Inv, RecallLast
      <3>2. ~VehicleObeys
        BY <3>1 DEF VehicleObeys
      <3>3. mode' = mode
        BY <3>2 DEF Next, Client, Refuse, SkipArm, Upload, SendCommand, SendAbort, ReceiveAck, Heartbeat, Timeout,
           ConnectionFails, UploadOnly, ReceiveTelemetry, TelemetryTimeout, VehicleFlies, VehicleReports, Lose,
           vars, vehicle
      <3> QED
        BY <2>2, <3>3
    <2> QED
      BY <2>1, <2>2
  <1> QED
    BY <1>1, InvAlways, PTL DEF Spec, RecallKept

=============================================================================
