---------------------------- MODULE TaskRegistry ----------------------------
(***************************************************************************)
(* The task registry of one node (swarm-runtime/src/task_registry.rs): a   *)
(* function from task ids to the status and the owner of the task.  A task *)
(* that is not in the HashMap has status "Absent".  Each operator returns  *)
(* the registry after the call; a call that returns Err or None leaves it  *)
(* as it is.                                                               *)
(***************************************************************************)
EXTENDS Integers

CONSTANTS
    Tasks,
    ExpiresAt,   \* expires_at of each task, 0 when it is None
    NoOwner      \* assigned_to = None

ASSUME ExpiryAssumption == ExpiresAt \in [Tasks -> Nat]

Absent == [status |-> "Absent", owner |-> NoOwner]
Unassigned == [status |-> "Unassigned", owner |-> NoOwner]

Statuses == {"Absent", "Unassigned", "Assigned", "InProgress", "Completed",
             "Failed"}
Registry(Owners) == [Tasks -> [status : Statuses, owner : Owners \cup {NoOwner}]]

insert(r, ts) == [t \in Tasks |-> IF t \in ts THEN Unassigned ELSE r[t]]

\* Mutant: assign looks at the owner only, as unassigned() does.
AssignedUnowned(e, a) ==
    IF e.status # "Absent" /\ e.owner = NoOwner
    THEN [status |-> "Assigned", owner |-> a] ELSE e

\* One entry of assign: it succeeds only for an unassigned task.
Assigned(e, a) ==
    IF e.status = "Unassigned" /\ e.owner = NoOwner
    THEN [status |-> "Assigned", owner |-> a] ELSE e

Held(e) == e.status \in {"Assigned", "InProgress"}

\* One entry of release_task.
Released(e) == IF Held(e) THEN Unassigned ELSE e

release_agent_tasks(r, dead) ==
    [t \in Tasks |-> IF r[t].owner \in dead THEN Released(r[t]) ELSE r[t]]

release_tasks(r, ts) == [t \in Tasks |-> IF t \in ts THEN Released(r[t])
                                         ELSE r[t]]

\* One entry of complete_assigned_task: the owner is taken away.
Completed(e) ==
    IF Held(e) THEN [status |-> "Completed", owner |-> NoOwner] ELSE e

complete_tasks(r, ts) ==
    [t \in Tasks |-> IF t \in ts THEN Completed(r[t]) ELSE r[t]]

Expired(e, t, now) ==
    ExpiresAt[t] # 0 /\ ExpiresAt[t] <= now /\ e.status # "InProgress"

expire_tasks(r, now) ==
    [t \in Tasks |-> IF Expired(r[t], t, now) THEN Absent ELSE r[t]]

=============================================================================
