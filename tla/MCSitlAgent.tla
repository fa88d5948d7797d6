---------------------------- MODULE MCSitlAgent ----------------------------
EXTENDS SitlAgent

Plain(kind, n) == [kind |-> kind, n |-> n, fence |-> "none", params |-> "met"]

(* One mission of every kind, task lists around the 16-bit limit, which is *)
(* 3 here, and every fence and contract.                                   *)
AllKinds ==
    {Plain("pose_tasks", 2), Plain("urban_route", 1), Plain("hover", 1), Plain("orbit", 3),
     Plain("takeoff_land", 0), Plain("pose_tasks", 4), Plain("pose_tasks", 5),
     Plain("orbit", 4), Plain("square", 0)}
      \cup [kind : {"urban_route"}, n : {1}, fence : Fences, params : Params]

(* A task list of one task. *)
OneTask == {Plain("pose_tasks", 1)}
=============================================================================
