------------------------ MODULE PartitionSupervisor ------------------------
(***************************************************************************)
(* The partition supervisor of the scenario runner (swarm-sim/src/runner/  *)
(* internal/partition_supervisor.rs), called from run_tick_loop: it keeps  *)
(* a report per partition, reconciles the leases of the agents whenever a  *)
(* link heals and releases those of agents that fail.  Leases come from    *)
(* the configuration and are only ever taken away.                         *)
(*                                                                         *)
(* A tick of the loop is BeginTick, then handle_partition_activation for   *)
(* every link that was cut, handle_partition_heal for every link that      *)
(* healed, and handle_node_failures.  The partition events of a tick are   *)
(* free: the configuration orders and dates them at will.  The lease       *)
(* records of one agent are a set: they are assumed to differ.             *)
(***************************************************************************)
EXTENDS Integers, Sequences, FiniteSets

CONSTANTS
    Agents,
    Base,           \* base_id, which partition events may name as well
    Pairs,          \* the links that partition events name
    Leases,         \* lease records
    LeaseConfigs,   \* initial_agent_lease_records: what each agent may hold
    MaxTick,        \* max_ticks
    MaxEvents,      \* bound on the partition events of a tick
    MaxFailures     \* bound on the agents that fail

Never == -1    \* the tick of a reconciliation that has not been

ASSUME SupervisorAssumption ==
    /\ Base \notin Agents /\ IsFiniteSet(Agents)
    /\ Pairs \subseteq SUBSET (Agents \cup {Base})
    /\ Leases \subseteq [id : STRING, resource : STRING, granted : Nat, expiry : Nat]
    /\ IsFiniteSet(Leases)
    /\ LeaseConfigs \subseteq [Agents -> SUBSET Leases]
    /\ MaxTick \in Nat /\ MaxEvents \in Nat /\ MaxFailures \in Nat

VARIABLES
    tick,        \* current_tick
    busy,        \* the events of the tick are being handled
    crashed,     \* crashed_agents
    failed,      \* newly_failed_agents
    added,       \* added_pairs that are still to be handled
    healed,      \* healed_pairs that are still to be handled
    pairs,       \* active_partition_pairs
    leases,      \* active_leases of every node
    reports,     \* partition_reports: whom they are about, heal_tick is None
    result,      \* the last of reconciliation_reports
    tidy         \* so far only sound links were cut and only cut ones healed

vars == <<tick, busy, crashed, failed, added, healed, pairs, leases, reports,
          result, tidy>>

Alive == Agents \ crashed
Resources == {l.resource : l \in Leases}

is_valid_at_tick(l) == tick < l.expiry

Init ==
    /\ tick = 0 /\ busy = FALSE
    /\ crashed = {} /\ failed = {} /\ added = <<>> /\ healed = <<>>
    /\ pairs = {} /\ leases \in LeaseConfigs /\ reports = <<>>
    /\ result = [tick |-> Never, accepted |-> {}, rejected |-> {}]
    /\ tidy = TRUE

PairLists(max) == UNION {[1 .. n -> Pairs] : n \in 0 .. max}

(* The start of a tick: agents fail, links are cut and links heal. *)
BeginTick(f, cut, heal) ==
    /\ ~busy /\ tick < MaxTick
    /\ Cardinality(crashed \cup f) <= MaxFailures
    /\ tick' = tick + 1 /\ busy' = TRUE
    /\ crashed' = crashed \cup f /\ failed' = f
    /\ added' = cut /\ healed' = heal
    /\ UNCHANGED <<pairs, leases, reports, result, tidy>>

(* A link was cut: a report about everybody who is alive. *)
handle_partition_activation ==
    /\ busy /\ added # <<>>
    /\ added' = Tail(added)
    /\ pairs' = pairs \cup {Head(added)}
    /\ reports' = Append(reports, [open |-> TRUE, affected_agents |-> Alive])
    /\ tidy' = (tidy /\ Head(added) \notin pairs)
    /\ UNCHANGED <<tick, busy, crashed, failed, healed, leases, result>>

\* The leases that count, and the ones that have run out, of live agents.
current_valid_leases(r) ==
    UNION {{a} \X {l \in leases[a] : l.resource = r /\ is_valid_at_tick(l)} : a \in Alive}

StaleResources ==
    {l.resource : l \in {m \in UNION {leases[a] : a \in Alive} : ~is_valid_at_tick(m)}}

Oldest(C) == {c \in C : \A d \in C : c[2].granted <= d[2].granted}

\* Mutant: a tie is not resolved; the oldest leases stay.
LosersTie(C) == C \ Oldest(C)

\* Mutant: the youngest lease wins.
LosersYoungest(C) == {c \in C : \E d \in C : d[2].granted > c[2].granted}

(* The contenders that lose their lease: all but those of the holder of    *)
(* the one oldest lease, or all of them when that is ambiguous.            *)
Losers(C) ==
    IF Cardinality(C) <= 1 THEN {}
    ELSE IF Cardinality(Oldest(C)) > 1 THEN C
    ELSE {c \in C : \A w \in Oldest(C) : c[1] # w[1]}

AllLosers == UNION {Losers(current_valid_leases(r)) : r \in Resources}

ClosedBy(p) == {i \in DOMAIN reports : reports[i].open /\ p \subseteq reports[i].affected_agents}

\* Mutant: one link that heals closes every report it is part of.
CloseAll(p) ==
    [i \in DOMAIN reports |->
        IF i \in ClosedBy(p) THEN [reports[i] EXCEPT !.open = FALSE] ELSE reports[i]]

(* The report that a healed link closes is the last open one about both    *)
(* its ends.                                                               *)
Close(p) ==
    [i \in DOMAIN reports |->
        IF i \in ClosedBy(p) /\ \A j \in ClosedBy(p) : j <= i
        THEN [reports[i] EXCEPT !.open = FALSE] ELSE reports[i]]

\* Mutant: a resource with contenders counts as settled, reset or not.
AcceptedAnyway == {r \in Resources : current_valid_leases(r) # {}}

Accepted == {r \in Resources : current_valid_leases(r) \ Losers(current_valid_leases(r)) # {}}

(* A link healed: contenders for a resource are reconciled, and the report *)
(* says which resources have an owner and which were taken from somebody.  *)
handle_partition_heal ==
    /\ busy /\ added = <<>> /\ healed # <<>>
    /\ healed' = Tail(healed)
    /\ pairs' = pairs \ {Head(healed)}
    /\ reports' = Close(Head(healed))
    /\ leases' = [a \in Agents |->
                    {l \in leases[a] : \A c \in AllLosers :
                        c[1] = a => c[2].id # l.id \/ c[2].resource # l.resource}]
    /\ result' = [tick |-> tick, accepted |-> Accepted,
                  rejected |-> StaleResources \cup {c[2].resource : c \in AllLosers}]
    /\ tidy' = (tidy /\ Head(healed) \in pairs)
    /\ UNCHANGED <<tick, busy, crashed, failed, added>>

(* The end of the tick: agents that failed in it lose their leases. *)
handle_node_failures ==
    /\ busy /\ added = <<>> /\ healed = <<>>
    /\ busy' = FALSE /\ failed' = {}
    /\ leases' = [a \in Agents |->
                    IF a \in failed THEN {l \in leases[a] : ~is_valid_at_tick(l)} ELSE leases[a]]
    /\ UNCHANGED <<tick, crashed, added, healed, pairs, reports, result, tidy>>

Next ==
    \/ \E f \in SUBSET Alive, cut \in PairLists(MaxEvents) :
          \E heal \in PairLists(MaxEvents - Len(cut)) : BeginTick(f, cut, heal)
    \/ handle_partition_activation \/ handle_partition_heal \/ handle_node_failures

Spec == Init /\ [][Next]_vars

-----------------------------------------------------------------------------
(* Everything stays in its type; the last reconciliation has been.         *)
TypeOK ==
    /\ tick \in 0 .. MaxTick /\ busy \in BOOLEAN /\ tidy \in BOOLEAN
    /\ crashed \subseteq Agents /\ failed \subseteq crashed
    /\ added \in Seq(Pairs) /\ healed \in Seq(Pairs) /\ pairs \subseteq Pairs
    /\ leases \in [Agents -> SUBSET Leases]
    /\ reports \in Seq([open : BOOLEAN, affected_agents : SUBSET Agents])
    /\ result.tick \in {Never} \cup (0 .. tick)

Holders(r) == {c[1] : c \in current_valid_leases(r)}

(* Once a link has healed, no two live agents have authority over one      *)
(* resource, whatever fails, expires or is cut again afterwards            *)
(* (partition_supervisor.rs, handle_partition_heal).                       *)
SplitBrainEnds ==
    result.tick # Never =>
        \A r \in Resources : \A a, b \in Holders(r) : a = b

(* An agent that is alive loses a lease that still runs only at a heal, to *)
(* a live contender whose lease is not younger, and the report of that     *)
(* heal says so: in particular the one oldest lease is never taken away.   *)
RevokedForCause ==
    [][\A a \in Alive' : \A l \in leases[a] \ leases'[a] :
          is_valid_at_tick(l) =>
              /\ l.resource \in result'.rejected
              /\ \E c \in current_valid_leases(l.resource) : c # <<a, l>> /\ c[2].granted <= l.granted]_vars

(* In the tick of a heal its report lists as accepted exactly the          *)
(* resources over which some live agent has authority.                     *)
AcceptedHasOwner ==
    result.tick = tick =>
        result.accepted = {r \in Resources : Holders(r) # {}}

(* As long as any link is cut a partition report is open that covers every *)
(* live agent, although a heal closes the latest report and not the one of *)
(* its link.  It takes a configuration that cuts sound links and heals cut *)
(* ones.                                                                   *)
PartitionOnRecord ==
    tidy /\ pairs # {} =>
        \E i \in DOMAIN reports : reports[i].open /\ Alive \subseteq reports[i].affected_agents
=============================================================================
