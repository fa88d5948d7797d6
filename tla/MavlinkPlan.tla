---------------------------- MODULE MavlinkPlan ----------------------------
(***************************************************************************)
(* From a SITL mission to the steps the plan executor takes: the command   *)
(* list of a mission (sitl_plan.rs), its compilation into phases           *)
(* (mavlink_common_plan.rs) and the order of the phases                    *)
(* (mavlink_executor.rs).                                                  *)
(*                                                                         *)
(* A mission is [kind, n, fence, params]: n poses of a task list or of an  *)
(* urban route, n approximating waypoints of an orbit, or one of the       *)
(* primitive missions whose length is fixed; and what the compiler is      *)
(* asked for besides: a geofence, and requirements on the parameters of    *)
(* the flight controller.  sitl_agent asks for neither; the compiler and   *)
(* the executor take both.  Coordinates, command parameters and the        *)
(* compatibility annotations, which execution does not look at, are left   *)
(* out.                                                                    *)
(***************************************************************************)
EXTENDS Naturals, Sequences, SequencesExt

CONSTANT U16Max     \* u16::MAX, the largest sequence number of an item

ASSUME U16Assumption == U16Max \in Nat \ {0}

MissionKinds == {"pose_tasks", "urban_route", "hover", "orbit", "takeoff_land", "square"}

(* A fence plan: absent, without items but to be enabled, with items that   *)
(* the profile of the flight controller supports, with one it does not.     *)
Fences == {"none", "enable_only", "items", "unsupported"}

(* The parameter requirements against the snapshot: without either of them  *)
(* nothing is violated.                                                     *)
Params == {"met", "violated"}

Mission == [kind : MissionKinds, n : Nat, fence : Fences, params : Params]

\* An entry of the command list: its kind and the mission items it stands for.
Entry(kind, n) == [kind |-> kind, n |-> n]

(* The tasks that the progress tracker waits for: the waypoints of the SITL *)
(* plan.  For a primitive mission these are the lines of its description,   *)
(* the landing included.                                                    *)
waypoint_count(m) ==
    CASE m.kind \in {"pose_tasks", "urban_route"} -> m.n
      [] m.kind = "square" -> 6
      [] OTHER -> 2

(* The commands between the take-off and the landing. *)
body_commands(m) ==
    CASE m.kind = "pose_tasks"   -> [i \in 1..m.n |-> Entry("goto", 1)]
      [] m.kind = "urban_route"  -> <<Entry("route", m.n)>>
      [] m.kind = "hover"        -> <<Entry("hold", 1)>>
      [] m.kind = "orbit"        -> <<Entry("orbit", m.n)>>
      [] m.kind = "takeoff_land" -> <<>>
      [] m.kind = "square"       -> <<Entry("route", 5)>>

build_command_ir_plan(m) ==
    <<Entry("arm", 0), Entry("takeoff", 0)>> \o body_commands(m) \o <<Entry("land", 0)>>

(* One entry: arming and take-off always go before the upload, landing only *)
(* as long as there is no item, and everything that has a position becomes  *)
(* an item.  Sequence numbers are 16 bits wide; an orbit must even leave    *)
(* the last one unused.                                                     *)
compile_entry(plan, e) ==
    CASE e.kind \in {"arm", "takeoff"} ->
           [plan EXCEPT !.prelude = Append(@, e.kind)]
      [] e.kind = "land" /\ plan.items = 0 ->
           [plan EXCEPT !.prelude = Append(@, e.kind)]
      [] e.kind = "land" /\ plan.items > 0 ->
           [plan EXCEPT !.postlude = Append(@, e.kind)]
      [] e.kind = "orbit" ->
           [plan EXCEPT !.items = @ + e.n, !.ok = @ /\ e.n <= U16Max]
      [] e.kind \in {"goto", "route", "hold"} ->
           [plan EXCEPT !.items = @ + e.n, !.ok = @ /\ plan.items + e.n <= U16Max + 1]

(* The enabling of the fence goes in front of everything; a fence item that *)
(* the profile does not support is an error of the compiler.                *)
finish(plan, m) ==
    [plan EXCEPT !.prelude = IF m.fence = "enable_only" THEN <<"fence_enable">> \o @ ELSE @,
                 !.ok = @ /\ m.fence # "unsupported"]

compile_mavlink_common_plan(m) ==
    finish(FoldLeft(compile_entry,
                    [prelude |-> <<>>, items |-> 0, postlude |-> <<>>, ok |-> TRUE],
                    build_command_ir_plan(m)),
           m)

(* Fence items of a compiled plan are supported, so that only parameters   *)
(* can violate the contract with the flight controller.                    *)
blocks_mission_start(m) == m.params = "violated"

(* The executor's phases: prelude, upload and start if there are items,    *)
(* postlude.                                                               *)
Steps(plan) ==
    plan.prelude \o (IF plan.items > 0 THEN <<"upload", "start">> ELSE <<>>) \o plan.postlude
=============================================================================
