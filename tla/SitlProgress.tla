---------------------------- MODULE SitlProgress ----------------------------
(***************************************************************************)
(* The tracker of one uploaded mission (SitlTaskProgress,                  *)
(* crates/swarm-examples/src/sitl_progress.rs): which task each mission    *)
(* item stands for, the status of every task, the item the vehicle last    *)
(* named, and what a telemetry event makes of them.                        *)
(*                                                                         *)
(* A mission is a non-empty sequence of tasks; item k of the sequence is   *)
(* the waypoint of sequence number k - 1, and current = 0 is "no item      *)
(* named yet".  The time stamps of the tracker are the clocks of its user. *)
(***************************************************************************)
EXTENDS Naturals, Sequences, SequencesExt

TaskStatuses == {"unassigned", "in_progress", "completed", "failed"}
FinalStatuses == {"none", "completed", "failed", "rejected", "disconnected", "timed_out_no_progress"}
EventKinds == {"current", "reached", "complete", "rejected", "disconnected"}

Event(kind, item) == [kind |-> kind, item |-> item]

from_waypoints(items) ==
    [items |-> items, status |-> [t \in ToSet(items) |-> "unassigned"], current |-> 0, final |-> "none"]

completed_waypoints(p) == {t \in DOMAIN p.status : p.status[t] = "completed"}
AllReached(p) == completed_waypoints(p) = DOMAIN p.status

\* An event names an item only in the two kinds that carry a sequence number.
KnownItem(p, e) == e.kind \in {"current", "reached"} => e.item \in DOMAIN p.items

mark_failed(p, final) ==
    [p EXCEPT !.status = [t \in DOMAIN @ |-> IF @[t] = "completed" THEN "completed" ELSE "failed"],
              !.final = final]

Current(p, item) ==
    [p EXCEPT !.current = item,
              !.status[p.items[item]] = IF @ \in {"completed", "failed"} THEN @ ELSE "in_progress"]

Reached(p, item) ==
    LET q == [p EXCEPT !.current = item, !.status[p.items[item]] = "completed"]
    IN  IF AllReached(q) THEN [q EXCEPT !.final = "completed"] ELSE q

\* An accepting MISSION_ACK: the telemetry layer reads it as the end of the mission.
CompleteTrusted(p) == [p EXCEPT !.status = [t \in DOMAIN @ |-> "completed"], !.final = "completed"]
Complete(p) == IF AllReached(p) THEN [p EXCEPT !.final = "completed"] ELSE mark_failed(p, "failed")

apply_event(p, e) ==
    CASE e.kind = "current"      -> Current(p, e.item)
      [] e.kind = "reached"      -> Reached(p, e.item)
      [] e.kind = "complete"     -> Complete(p)
      [] e.kind = "rejected"     -> mark_failed(p, "rejected")
      [] e.kind = "disconnected" -> mark_failed(p, "disconnected")

\* Does the event restart the no-progress clock?  p is the tracker before it, q after it.
AnyCurrentAdvances(p, e, q) ==
    e.kind = "current" \/ completed_waypoints(p) # completed_waypoints(q)
event_advances_progress(p, e, q) ==
    \/ e.kind = "current" /\ p.current # e.item
    \/ e.kind = "reached" /\ completed_waypoints(p) # completed_waypoints(q)
    \/ e.kind = "complete" /\ q.final = "completed"
=============================================================================
