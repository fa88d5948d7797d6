--------------------------- MODULE SitlSupervisor ---------------------------
(***************************************************************************)
(* The live multi-agent supervisor (crates/swarm-examples/src/             *)
(* sitl_supervisor): one thread uploads a mission to every vehicle, polls  *)
(* them in turn, and when one of them fails gives its unfinished tasks to  *)
(* the survivors by replacing their missions in flight.                    *)
(*                                                                         *)
(*   phase     where the supervisor's thread is                            *)
(*   manifest  the configuration that was validated: tasks of every agent  *)
(*   ctl       the controller of every agent (Px4AgentController)          *)
(*   active    the agents whose run has not ended; round: those of them    *)
(*             still to be polled in this round                            *)
(*   runs      the result of every agent that ended                        *)
(*   plans     replacement missions decided and not yet handed over        *)
(*   records   the degraded record of every failed agent                   *)
(*   victim    the failed agent whose tasks are being recovered, or 0      *)
(*   overall   the status of the report                                    *)
(*   fc, tel   the vehicle and the telemetry on its way, in order          *)
(*   flown     which vehicle really reached the waypoint of which task     *)
(*   faults    the faults the environment has used of its budget           *)
(*                                                                         *)
(* Agents are numbered in the order of the manifest.                       *)
(*                                                                         *)
(* Assumption: the link between the supervisor and a vehicle keeps the     *)
(* order.  It may delay a message for any time, and lose reports.          *)
(***************************************************************************)
EXTENDS Naturals, FiniteSets, FiniteSetsExt, Sequences, SequencesExt, SitlProgress

CONSTANTS N,          \* number of agents of the manifest
          Task,       \* the tasks of the scenario that have a pose
          Capable,    \* which agents meet the capabilities and the role of a task
          Configs,    \* the task lists a configuration file may hold
          Reupload,   \* config.reupload_on_failure
          Patience,   \* polls without progress until the no-progress timeout
          MaxQueue,   \* bound: telemetry messages in flight per vehicle
          MaxFaults   \* bound: faults of the environment in one run

Agent == 1..N

ASSUME SitlAssumption ==
    /\ N \in Nat \ {0}
    /\ IsFiniteSet(Task)
    /\ Capable \in [Task -> SUBSET Agent]
    /\ \A c \in Configs : c \in [Agent -> Seq(Task)]
    /\ Reupload \in BOOLEAN
    /\ Patience \in Nat \ {0}
    /\ MaxQueue \in Nat \ {0}
    /\ MaxFaults \in Nat

VARIABLES phase, manifest, ctl, active, round, runs, plans, records, victim, overall, fc, tel, flown, faults

sup == <<phase, manifest, active, round, runs, plans, records, victim, overall>>
vars == <<phase, manifest, ctl, active, round, runs, plans, records, victim, overall, fc, tel, flown, faults>>

NoState == [items |-> <<>>]
NoRun == [status |-> "none", completed |-> {}]
NoRecord == [decision |-> "none", recovered |-> {}, abandoned |-> {}, final |-> "none"]
Grounded == [on |-> FALSE, items |-> <<>>, next |-> 1]

Running(a) == ctl[a].state # NoState
Charge(n) == faults + n <= MaxFaults /\ faults' = faults + n

------------------------------------------------------------------------------
(* The configuration becomes the manifest.                                 *)

assigned_tasks == UNION {ToSet(manifest[a]) : a \in Agent}

validate_multi_agent_config(c) ==
    /\ \A a \in Agent : c[a] # <<>> /\ IsInjective(c[a])
    /\ \A a, b \in Agent : a # b => ToSet(c[a]) \cap ToSet(c[b]) = {}

Init ==
    /\ phase = "config" /\ manifest \in Configs
    /\ ctl = [a \in Agent |-> [mission |-> manifest[a], state |-> NoState, done |-> {},
                               finished |-> FALSE, idle |-> 0]]
    /\ active = {} /\ round = {}
    /\ runs = [a \in Agent |-> NoRun]
    /\ plans = [a \in Agent |-> <<>>]
    /\ records = [a \in Agent |-> NoRecord]
    /\ victim = 0 /\ overall = "none"
    /\ fc = [a \in Agent |-> Grounded] /\ tel = [a \in Agent |-> <<>>]
    /\ flown = {} /\ faults = 0

build_multi_agent_manifest ==
    /\ phase = "config"
    /\ phase' = IF validate_multi_agent_config(manifest) THEN "starting" ELSE "invalid"
    /\ UNCHANGED <<manifest, ctl, active, round, runs, plans, records, victim, overall, fc, tel, flown, faults>>

------------------------------------------------------------------------------
(* The controller of one agent.                                            *)

completed_waypoints_of(a) ==
    ctl[a].done \cup IF Running(a) THEN completed_waypoints(ctl[a].state) ELSE {}

\* The upload handshake reads the link until the vehicle has acknowledged the
\* mission, and skips what else it reads.  Since the link keeps the order, whatever
\* the old mission still had on its way is read and skipped there.  A report of
\* the old mission that was overtaken by that acknowledgement would be taken for one
\* of the new mission: a report does not name its mission, and live.rs:341-344 only
\* replaces the tracker.
Uploaded(a, items) ==
    /\ fc' = [fc EXCEPT ![a] = [on |-> TRUE, items |-> items, next |-> 1]]
    /\ tel' = [tel EXCEPT ![a] = <<>>]

Tracking(c, items) == [c EXCEPT !.mission = items, !.state = from_waypoints(items), !.idle = 0]
Failing(c, items) == [c EXCEPT !.mission = items, !.state = NoState, !.finished = TRUE]

start_current_mission(a) ==
    \/ /\ ctl' = [ctl EXCEPT ![a] = Tracking(@, @.mission)]
       /\ Uploaded(a, ctl[a].mission)
       /\ UNCHANGED faults
    \/ /\ ctl' = [ctl EXCEPT ![a] = Failing(@, @.mission)]
       /\ Charge(1)
       /\ UNCHANGED <<fc, tel>>

\* Completions are merged first, so that the replaced tracker takes none of them along.
replace_mission(a, items) ==
    LET kept == [ctl[a] EXCEPT !.done = completed_waypoints_of(a)] IN
    IF ~Running(a)
    THEN /\ ctl' = [ctl EXCEPT ![a].mission = items]
         /\ UNCHANGED <<fc, tel, faults>>
    ELSE \/ /\ ctl' = [ctl EXCEPT ![a] = Tracking(kept, items)]
            /\ Uploaded(a, items)
            /\ UNCHANGED faults
         \/ /\ ctl' = [ctl EXCEPT ![a] = Failing(kept, items)]
            /\ Charge(1)
            /\ fc' = [fc EXCEPT ![a] = Grounded] /\ tel' = [tel EXCEPT ![a] = <<>>]

------------------------------------------------------------------------------
(* The end of an agent's run, and the recovery of its tasks.               *)

completed_task_count(R) == MapThenSumSet(LAMBDA a : Cardinality(R[a].completed), Agent)

live_overall_status(R) ==
    LET ended == {a \in Agent : R[a] # NoRun} IN
    IF \A a \in ended : R[a].status = "completed" THEN "completed"
    ELSE IF completed_task_count(R) >= Cardinality(assigned_tasks) THEN "completed_with_reallocation"
    ELSE IF \E a \in ended : R[a].completed # {} THEN "partial_failed"
    ELSE "failed"

terminal_decision_for_run(run) ==
    IF run.completed # {} THEN "mark_partial_success" ELSE "mark_total_failure"

\* What the supervisor knows to be done: the runs that ended and snapshots of the others.
CompletedByActiveOnly(R, A) == UNION {completed_waypoints_of(b) : b \in A}
completed_live_task_ids(R, A) ==
    (UNION {R[a].completed : a \in Agent}) \cup UNION {completed_waypoints_of(b) : b \in A}

\* A coordinator built for this one tick hears only the survivors: every other
\* agent of the manifest is lost to it, and its unfinished tasks are released.
AllUnfinished(R, A) == assigned_tasks \ completed_live_task_ids(R, A)
released_tasks(R, A) ==
    (UNION {ToSet(manifest[a]) : a \in Agent \ A}) \ completed_live_task_ids(R, A)

\* The tasks of T in the order of the sequence s.
Keep(s, T) == FoldLeft(LAMBDA kept, t : IF t \in T THEN Append(kept, t) ELSE kept, <<>>, s)

push_recovered_tasks_in_manifest_order(recovered) ==
    Keep(FlattenSeq([a \in Agent |-> manifest[a]]), recovered)

\* The target's own unfinished tasks of the manifest, then the recovered ones,
\* numbered from zero again.
RecoveredOnly(b, recovered, completed) == push_recovered_tasks_in_manifest_order(recovered \ completed)
replacement_waypoints(b, recovered, completed) ==
    Keep(manifest[b], Task \ completed)
        \o push_recovered_tasks_in_manifest_order(recovered \ completed)

mission_replacement_plans(R, A, target) ==
    [b \in Agent |->
        LET recovered == {t \in DOMAIN target : target[t] = b} IN
        IF recovered = {} THEN <<>>
        ELSE replacement_waypoints(b, recovered, completed_live_task_ids(R, A))]

\* The greedy allocator gives a task to one of the capable survivors, if there is one.
Recover(a, R, A) ==
    IF ~Reupload \/ A = {}
    THEN /\ records' = [records EXCEPT ![a] = [@ EXCEPT !.decision = terminal_decision_for_run(R[a]),
                                                        !.final = live_overall_status(R)]]
         /\ phase' = "polling"
         /\ UNCHANGED <<plans, victim>>
    ELSE \E target \in [{t \in released_tasks(R, A) : Capable[t] \cap A # {}} -> A] :
            /\ \A t \in DOMAIN target : target[t] \in Capable[t]
            /\ plans' = mission_replacement_plans(R, A, target)
            /\ records' = [records EXCEPT ![a] = [@ EXCEPT !.decision = "continue_with_survivor",
                                                           !.final = R[a].status]]
            /\ phase' = IF DOMAIN target = {} THEN "polling" ELSE "recovering"
            /\ victim' = IF DOMAIN target = {} THEN 0 ELSE a

\* A failed run is aborted on the vehicle.  Whether the abort reaches it or not, nobody
\* reads its telemetry any more: what it does afterwards is left out.
EndRun(a, status, completed) ==
    LET R == [runs EXCEPT ![a] = [status |-> status, completed |-> completed]] IN
    /\ runs' = R
    /\ active' = active \ {a} /\ round' = round \ {a}
    /\ ctl' = [ctl EXCEPT ![a].done = completed, ![a].state = NoState, ![a].finished = FALSE, ![a].idle = 0]
    /\ fc' = [fc EXCEPT ![a] = Grounded] /\ tel' = [tel EXCEPT ![a] = <<>>]
    /\ IF status = "completed"
       THEN UNCHANGED <<phase, plans, records, victim>>
       ELSE Recover(a, R, active \ {a})
    /\ UNCHANGED <<manifest, overall>>


------------------------------------------------------------------------------
(* The supervisor's thread.                                                *)

\* Agents are started in the order of the manifest; the last one opens the first round.
Start ==
    /\ phase = "starting"
    /\ LET a == Cardinality(active) + 1 IN
       /\ start_current_mission(a)
       /\ active' = active \cup {a}
       /\ phase' = IF a = N THEN "polling" ELSE "starting"
       /\ round' = IF a = N THEN Agent ELSE {}
    /\ UNCHANGED <<manifest, runs, plans, records, victim, overall, flown>>

Turn(a) == phase = "polling" /\ a \in round /\ \A b \in round : a <= b

\* A run the controller finished by itself: an upload that failed.
PollFinished(a) ==
    /\ Turn(a) /\ ctl[a].finished
    /\ EndRun(a, "failed", ctl[a].done)
    /\ UNCHANGED <<flown, faults>>

\* No heartbeat within the telemetry timeout.
PollSilent(a) ==
    /\ Turn(a) /\ Running(a)
    /\ Charge(1)
    /\ EndRun(a, "disconnected", completed_waypoints_of(a))
    /\ UNCHANGED flown

PollStalled(a) ==
    /\ Turn(a) /\ Running(a)
    /\ ctl[a].idle >= Patience
    /\ EndRun(a, "timed_out_no_progress", completed_waypoints_of(a))
    /\ UNCHANGED <<flown, faults>>

\* An error of the link, or an item the tracker does not know, ends the supervisor
\* itself: no report, and no vehicle is recalled.
PollError(a) ==
    /\ Turn(a) /\ Running(a) /\ ctl[a].idle < Patience
    /\ IF tel[a] # <<>> /\ ~KnownItem(ctl[a].state, Head(tel[a])) THEN UNCHANGED faults ELSE Charge(1)
    /\ phase' = "error"
    /\ UNCHANGED <<manifest, ctl, active, round, runs, plans, records, victim, overall, fc, tel, flown>>

\* Nothing on the link, or only a heartbeat.
PollNothing(a) ==
    /\ Turn(a) /\ Running(a) /\ ctl[a].idle < Patience
    /\ tel[a] = <<>>
    /\ ctl' = [ctl EXCEPT ![a].idle = @ + 1]
    /\ round' = round \ {a}
    /\ UNCHANGED <<phase, manifest, active, runs, plans, records, victim, overall, fc, tel, flown, faults>>

PollEvent(a) ==
    /\ Turn(a) /\ Running(a) /\ ctl[a].idle < Patience
    /\ tel[a] # <<>> /\ KnownItem(ctl[a].state, Head(tel[a]))
    /\ LET e == Head(tel[a])
           p == ctl[a].state
           q == apply_event(p, e)
       IN  IF q.final = "none"
           THEN /\ ctl' = [ctl EXCEPT ![a].state = q,
                                      ![a].idle = IF event_advances_progress(p, e, q) THEN 0 ELSE @ + 1]
                /\ round' = round \ {a}
                /\ tel' = [tel EXCEPT ![a] = Tail(@)]
                /\ UNCHANGED <<phase, manifest, active, runs, plans, records, victim, overall, fc>>
           ELSE EndRun(a, q.final, ctl[a].done \cup completed_waypoints(q))
    /\ UNCHANGED <<flown, faults>>

NextRound ==
    /\ phase = "polling" /\ round = {} /\ active # {}
    /\ round' = active
    /\ UNCHANGED <<phase, manifest, ctl, active, runs, plans, records, victim, overall, fc, tel, flown, faults>>

(***************************************************************************)
(* One replacement mission of the recovery is handed over, in the order of *)
(* the targets.  The safety gate may refuse it; a target that is not       *)
(* running only takes note of it, and the upload of a running one may      *)
(* fail: to the supervisor both look like a success.                       *)
(***************************************************************************)
Pending == {b \in Agent : plans[b] # <<>>}

HandOver ==
    /\ phase = "recovering"
    /\ LET b == Min(Pending)
           rest == [plans EXCEPT ![b] = <<>>]
           last == Pending = {b}
           r == records[victim]
           taken == [r EXCEPT !.recovered = r.recovered \cup (ToSet(plans[b]) \ ToSet(manifest[b]))]
           settled == IF last /\ taken.recovered # {} /\ taken.abandoned = {}
                      THEN [taken EXCEPT !.final = "completed_with_reallocation"] ELSE taken
           refused == [r EXCEPT !.decision = "refuse_unsafe_replacement",
                                !.abandoned = r.abandoned \cup ToSet(plans[b]), !.final = "failed_recovery"]
       IN  /\ plans' = rest
           /\ phase' = IF last THEN "polling" ELSE "recovering"
           /\ victim' = IF last THEN 0 ELSE victim
           /\ \/ /\ replace_mission(b, plans[b])
                 /\ records' = [records EXCEPT ![victim] = settled]
              \/ /\ Charge(1)
                 /\ records' = [records EXCEPT ![victim] = refused]
                 /\ UNCHANGED <<ctl, fc, tel>>
    /\ UNCHANGED <<manifest, active, round, runs, overall, flown>>

Finish ==
    /\ phase = "polling" /\ active = {}
    /\ phase' = "done"
    /\ overall' = live_overall_status(runs)
    /\ UNCHANGED <<manifest, ctl, active, round, runs, plans, records, victim, fc, tel, flown, faults>>

------------------------------------------------------------------------------
(* The vehicles (external: PX4 behind the MAVLink transport).              *)

Flying(a) == fc[a].on /\ fc[a].next <= Len(fc[a].items) /\ Len(tel[a]) < MaxQueue

Reports(a, e) == tel' = [tel EXCEPT ![a] = Append(@, e)]

\* The vehicle names the item it is flying to, as often as it likes.
VehicleCurrent(a) ==
    /\ Flying(a)
    /\ Reports(a, Event("current", fc[a].next))
    /\ UNCHANGED <<sup, ctl, fc, flown, faults>>

\* It reaches a waypoint; the report of it may be lost.
VehicleReached(a) ==
    /\ Flying(a)
    /\ flown' = flown \cup {<<a, fc[a].items[fc[a].next]>>}
    /\ fc' = [fc EXCEPT ![a].next = @ + 1]
    /\ \/ Reports(a, Event("reached", fc[a].next)) /\ UNCHANGED faults
       \/ Charge(1) /\ UNCHANGED tel
    /\ UNCHANGED <<sup, ctl>>

\* A MISSION_ACK outside an upload: a duplicate of an accepting one, or a refusal.
VehicleAck(a) ==
    /\ fc[a].on /\ Len(tel[a]) < MaxQueue
    /\ Charge(1)
    /\ \E kind \in {"complete", "rejected"} : Reports(a, Event(kind, 0))
    /\ UNCHANGED <<sup, ctl, fc, flown>>

Poll(a) == PollFinished(a) \/ PollSilent(a) \/ PollStalled(a) \/ PollError(a) \/ PollNothing(a) \/ PollEvent(a)
Supervisor == build_multi_agent_manifest \/ Start \/ NextRound \/ HandOver \/ Finish \/ \E a \in Agent : Poll(a)
Vehicle(a) == VehicleCurrent(a) \/ VehicleReached(a) \/ VehicleAck(a)

Next == Supervisor \/ \E a \in Agent : Vehicle(a)

\* The supervisor's loop never blocks: every poll reads without waiting.
Spec == Init /\ [][Next]_vars /\ WF_vars(Supervisor)

------------------------------------------------------------------------------
(* Properties                                                              *)

\* Types of the variables.
TypeOK ==
    /\ phase \in {"config", "invalid", "starting", "polling", "recovering", "done", "error"}
    /\ manifest \in Configs
    /\ \A a \in Agent :
        /\ ctl[a].mission \in Seq(Task) /\ ctl[a].done \subseteq Task
        /\ ctl[a].finished \in BOOLEAN /\ ctl[a].idle \in 0..Patience
        /\ Running(a) =>
              /\ ctl[a].state.items = ctl[a].mission /\ ctl[a].state.final = "none"
              /\ ctl[a].state.status \in [ToSet(ctl[a].mission) -> TaskStatuses]
              /\ ctl[a].state.current \in 0..Len(ctl[a].mission)
        /\ runs[a].status \in FinalStatuses /\ runs[a].completed \subseteq Task
        /\ plans[a] \in Seq(Task)
        /\ records[a].recovered \subseteq Task /\ records[a].abandoned \subseteq Task
        /\ fc[a].on \in BOOLEAN /\ fc[a].items \in Seq(Task) /\ fc[a].next \in 1..(Len(fc[a].items) + 1)
        /\ Len(tel[a]) <= MaxQueue
    /\ round \subseteq active /\ active \subseteq Agent
    /\ victim \in 0..N /\ (victim # 0) = (phase = "recovering")
    /\ overall \in {"none", "completed", "completed_with_reallocation", "partial_failed", "failed"}
    /\ flown \subseteq Agent \X Task /\ faults \in 0..MaxFaults

(***************************************************************************)
(* A task that a tracker, a controller or a run counts as completed by an  *)
(* agent was reached by that agent's vehicle: replacing a mission in       *)
(* flight, with its items renumbered and telemetry of the old one still on *)
(* its way, never credits a waypoint nobody flew to.                       *)
(***************************************************************************)
CompletedWasFlown ==
    \A a \in Agent : \A t \in completed_waypoints_of(a) \cup runs[a].completed : <<a, t>> \in flown

Completed(t) == \E a \in Agent : t \in completed_waypoints_of(a) \cup runs[a].completed
Abandoned(t) == \E a \in Agent : t \in records[a].abandoned
Owned(a, t) == a \in active /\ t \in ToSet(ctl[a].mission) \ completed_waypoints_of(a)

(***************************************************************************)
(* While the supervisor works, no task of the manifest gets lost: it is    *)
(* completed, or in the mission of an agent whose run has not ended, or in *)
(* a replacement about to be handed over, or the record of a refused       *)
(* replacement names it, or no agent left could do it.                     *)
(***************************************************************************)
NoTaskDropped ==
    (Reupload /\ phase \in {"polling", "recovering"}) =>
        \A t \in assigned_tasks :
            \/ Completed(t) \/ Abandoned(t)
            \/ \E a \in active : Owned(a, t) \/ t \in ToSet(plans[a])
            \/ Capable[t] \cap active = {}

\* The failures after which tasks were given to survivors.
Recoveries == {a \in Agent : records[a].decision \in {"continue_with_survivor", "refuse_unsafe_replacement"}}

\* A second recovery starts from the manifest again: with two or more survivors left
\* it may give a task to one of them that another has had since the first recovery.
Accountable == N <= 3 \/ Cardinality(Recoveries) <= 1

(***************************************************************************)
(* Two agents never fly the same unfinished task on the supervisor's       *)
(* order.  With more than three agents this is so only up to the first     *)
(* recovery; with three, also when a task is recovered a second time.      *)
(***************************************************************************)
NoDoubleAssignment ==
    Accountable =>
        \A a, b \in Agent : \A t \in Task : Owned(a, t) /\ Owned(b, t) => a = b

(***************************************************************************)
(* A report of complete success is true: every task of the manifest was    *)
(* reached by some vehicle, although the report only adds up counts.  It   *)
(* takes the same condition: a task that two agents flew counts twice.     *)
(***************************************************************************)
ReportTruthful ==
    Accountable /\ overall \in {"completed", "completed_with_reallocation"} =>
        \A t \in assigned_tasks : \E a \in Agent : <<a, t>> \in flown

(***************************************************************************)
(* Every run of the supervisor ends, with a report or with an error,       *)
(* whatever the vehicles do or fail to do: a failure restarts missions,    *)
(* and a restarted mission may fail again.                                 *)
(***************************************************************************)
SupervisorEnds == <>(phase \in {"done", "error", "invalid"})
=============================================================================
