----------------------------- MODULE SitlAgent -----------------------------
(***************************************************************************)
(* One run of sitl_agent --connection: the plan executor with its retries  *)
(* (mavlink_executor.rs), the acknowledgements it takes from the           *)
(* connection (mavlink/transport.rs, commands.rs) and the telemetry loop   *)
(* that follows it (sitl_agent_runtime/telemetry.rs).                      *)
(*                                                                         *)
(* The client is one thread.  The link keeps the order of messages and may *)
(* delay or lose them; it holds at most MaxQueue unread telemetry          *)
(* messages.  The upload handshake, modelled in MissionFlight, is one step *)
(* here.  The vehicle is external: it obeys or refuses any command, and    *)
(* while it flies the mission it reports the items.  sitl_agent gives the  *)
(* executor a retry budget of 0; the executor takes any.                   *)
(***************************************************************************)
EXTENDS MavlinkPlan, SitlProgress, FiniteSets

CONSTANTS
    Missions,    \* the missions that may be asked for
    Budgets,     \* the retry budgets of the executor
    MaxQueue,    \* bound on the telemetry that waits to be read
    MaxFaults    \* bound on lost messages, connection errors, odd reports

ASSUME MissionAssumption == Missions \subseteq Mission
ASSUME AgentBounds == Budgets \subseteq Nat /\ MaxQueue \in Nat /\ MaxFaults \in Nat

VARIABLES
    conf,      \* mission, retry budget, no_arm, upload-only
    at,        \* where the client is
    k,         \* step_index + 1: the step in hand
    tries,     \* retries of the step in hand
    retried,   \* what kinds of steps were retried (total_retries counts the retries)
    results,   \* the results of the steps that are over
    overall,   \* the executor's outcome
    after,     \* what follows the abort in hand
    progress,  \* the progress tracker
    final,     \* final_status of the run report
    sent,      \* commands that were written to the connection
    broken,    \* the connection reported an error
    up,        \* commands on the way to the vehicle
    down,      \* messages on the way to the client
    stored,    \* the vehicle has this mission in force
    obeyed,    \* commands that the vehicle has accepted
    mode,      \* what the vehicle does
    flown,     \* items that the vehicle has reached
    faults     \* faults so far

executor == <<k, tries, retried, results, overall>>
client == <<at, executor, after, progress, final, sent>>
vehicle == <<stored, obeyed, mode, flown>>
link == <<broken, faults>>
vars == <<conf, client, up, down, vehicle, link>>
-----------------------------------------------------------------------------
Commands == {"fence_enable", "arm", "takeoff", "start", "land", "rtl"}
Results == {"accepted", "skipped", "rejected", "timeout", "failure"}
StartFailures == {"timeout", "failure"}     \* of a start that is aborted
Outcomes == {"none", "completed", "retried", "aborted", "failed"}
RunStatuses == FinalStatuses \cup {"aborted", "upload_accepted"}
Modes == {"ground", "hover", "mission", "land", "rtl"}
Places == {"step", "ack", "heartbeat", "abort", "abort_ack", "telemetry", "ended"}

Configuration ==
    [mission : Missions, budget : Budgets, noArm : BOOLEAN, uploadOnly : BOOLEAN]

Plan == compile_mavlink_common_plan(conf.mission)
Step == Steps(Plan)[k]
Kinds == {"upload", "command"}
Kind(i) == IF Steps(Plan)[i] = "upload" THEN "upload" ELSE "command"
Items == 1..Plan.items
Tracked == 1..waypoint_count(conf.mission)

Ack(c, ok) == [kind |-> "ack", cmd |-> c, ok |-> ok]
DownMessage ==
    [kind : {"ack"}, cmd : Commands, ok : BOOLEAN]
      \cup [kind : EventKinds, item : 0..Plan.items]
-----------------------------------------------------------------------------
Init ==
    /\ conf \in Configuration
    /\ at = "step" /\ k = 1 /\ tries = 0 /\ retried = {}
    /\ results = <<>> /\ overall = "none" /\ after = "none"
    /\ progress = from_waypoints([i \in Tracked |-> i])
    /\ final = "none" /\ sent = {} /\ broken = FALSE
    /\ up = <<>> /\ down = <<>>
    /\ stored = FALSE /\ obeyed = {} /\ mode = "ground" /\ flown = {}
    /\ faults = 0

(* The run is over.  Nothing is sent any more. *)
End(status) == at' = "ended" /\ final' = status

(* A plan that does not compile, one with a fence to upload and one whose  *)
(* contract with the flight controller is violated end before anything is  *)
(* sent.                                                                   *)
Refused == ~Plan.ok \/ conf.mission.fence = "items" \/ blocks_mission_start(conf.mission)

Refuse ==
    /\ at = "step" /\ k = 1 /\ tries = 0 /\ ~conf.uploadOnly /\ Refused
    /\ End(IF Plan.ok THEN "aborted" ELSE "failed")
    /\ overall' = IF Plan.ok THEN "aborted" ELSE "none"
    /\ results' = IF Plan.ok /\ conf.mission.fence = "items" THEN <<"rejected">> ELSE <<>>
    /\ UNCHANGED <<conf, k, tries, retried, after, progress, sent, up, down, vehicle, link>>

Stepping == at = "step" /\ ~conf.uploadOnly /\ ~Refused

Retried(r) == r = "timeout" /\ tries < conf.budget

(* The provider answers for the step in hand: only a timeout is retried,   *)
(* anything else but success ends the execution.                           *)
Reply(r) ==
    \/ /\ Retried(r)
       /\ tries' = tries + 1 /\ retried' = retried \cup {Kind(k)} /\ at' = "step"
       /\ UNCHANGED <<k, results, overall, final>>
    \/ /\ r \in {"accepted", "skipped"} /\ k < Len(Steps(Plan))
       /\ k' = k + 1 /\ tries' = 0 /\ at' = "step"
       /\ results' = Append(results, r)
       /\ UNCHANGED <<retried, overall, final>>
    \/ /\ r \in {"accepted", "skipped"} /\ k = Len(Steps(Plan))
       /\ results' = Append(results, r) /\ at' = "telemetry"
       /\ overall' = IF retried = {} THEN "completed" ELSE "retried"
       /\ UNCHANGED <<k, tries, retried, final>>
    \/ /\ r \in {"rejected", "timeout", "failure"} /\ ~Retried(r)
       /\ results' = Append(results, r)
       /\ overall' = IF r = "failure" THEN "failed" ELSE "aborted"
       /\ End(overall')
       /\ UNCHANGED <<k, tries, retried>>
-----------------------------------------------------------------------------
(* The steps of the executor. *)

(* no_arm: the arm command is not sent. *)
SkipArm ==
    /\ Stepping /\ Step = "arm" /\ conf.noArm
    /\ Reply("skipped")
    /\ UNCHANGED <<conf, after, progress, sent, up, down, vehicle, link>>

(* The upload handshake.  An answer to it means that the link was drained; *)
(* after a failure the vehicle may hold the mission or not.  So it may     *)
(* after a retry that is accepted: every try clears again, and the answer  *)
(* to a MISSION_CLEAR_ALL is a MISSION_ACK like that of the upload (the    *)
(* retries of MissionFlight show how the one is taken for the other).      *)
Upload ==
    /\ Stepping /\ Step = "upload"
    /\ \/ /\ Plan.items <= U16Max /\ up = <<>>
          /\ Reply("accepted")
          /\ stored' \in IF tries = 0 THEN {TRUE} ELSE BOOLEAN
          /\ down' = <<>>
          /\ UNCHANGED link
       \/ /\ Plan.items <= U16Max /\ up = <<>>
          /\ Reply("rejected")
          /\ stored' \in BOOLEAN /\ down' = <<>>
          /\ UNCHANGED link
       \/ /\ Plan.items > U16Max
          /\ Reply("rejected")
          /\ UNCHANGED <<stored, down, link>>
       \/ /\ Plan.items <= U16Max
          /\ Reply("timeout")
          /\ stored' \in BOOLEAN
          /\ UNCHANGED <<down, link>>
       \/ /\ Plan.items <= U16Max /\ faults < MaxFaults
          /\ Reply("failure")
          /\ faults' = faults + 1 /\ broken' = TRUE
          /\ stored' \in BOOLEAN
          /\ UNCHANGED down
    /\ UNCHANGED <<conf, after, progress, sent, up, obeyed, mode, flown>>

SendCommand ==
    /\ Stepping /\ Step # "upload" /\ ~(Step = "arm" /\ conf.noArm)
    /\ at' = "ack" /\ sent' = sent \cup {Step}
    /\ up' = Append(up, Step)
    /\ UNCHANGED <<conf, executor, after, progress, final, down, vehicle, link>>

(* Return to launch.  "after" is the result that the failed start step     *)
(* then has, or the final status of the run.                               *)
SendAbort ==
    /\ at = "abort"
    /\ at' = "abort_ack" /\ sent' = sent \cup {"rtl"}
    /\ up' = Append(up, "rtl")
    /\ UNCHANGED <<conf, executor, after, progress, final, down, vehicle, link>>

(* The abort is over, however it went. *)
Aborted ==
    \/ after \in StartFailures /\ Reply(after)
    \/ after \notin StartFailures /\ End(after) /\ UNCHANGED executor

(* What the acknowledgement of the command in hand leads to: a start also  *)
(* has to be followed by a heartbeat.                                      *)
Acknowledged(ok) ==
    IF ok /\ Step = "start"
    THEN at' = "heartbeat" /\ UNCHANGED <<executor, final>>
    ELSE Reply(IF ok THEN "accepted" ELSE "rejected")

\* (mutant) any acknowledgement will do.
MatchesAny(m, c) == m.kind = "ack"

(* wait_command_ack: other messages, the telemetry too, are dropped. *)
Matches(m, c) == m.kind = "ack" /\ m.cmd = c

ReceiveAck ==
    /\ at \in {"ack", "heartbeat", "abort_ack"} /\ down # <<>>
    /\ down' = Tail(down)
    /\ \/ /\ at = "ack" /\ Matches(Head(down), Step)
          /\ Acknowledged(Head(down).ok)
       \/ /\ at = "abort_ack" /\ Matches(Head(down), "rtl")
          /\ Aborted
       \/ /\ at = "heartbeat" \/ ~Matches(Head(down), IF at = "ack" THEN Step ELSE "rtl")
          /\ UNCHANGED <<at, executor, final>>
    /\ UNCHANGED <<conf, after, progress, sent, up, vehicle, link>>

(* The vehicle's heartbeat after the start. *)
Heartbeat ==
    /\ at = "heartbeat"
    /\ Reply("accepted")
    /\ UNCHANGED <<conf, after, progress, sent, up, down, vehicle, link>>

(* A deadline passes: for an answer, or for the heartbeat. *)
Timeout ==
    /\ \/ at = "ack" /\ Reply("timeout") /\ UNCHANGED after
       \/ at = "abort_ack" /\ Aborted /\ UNCHANGED after
       \/ at = "heartbeat" /\ at' = "abort" /\ after' = "timeout" /\ UNCHANGED <<executor, final>>
    /\ UNCHANGED <<conf, progress, sent, up, down, vehicle, link>>

(* A read or a write fails.  The wait for the heartbeat still aborts; the  *)
(* telemetry loop does not.                                                *)
ConnectionFails ==
    /\ faults < MaxFaults /\ faults' = faults + 1 /\ broken' = TRUE
    /\ \/ /\ Stepping /\ Step # "upload" /\ ~(Step = "arm" /\ conf.noArm)
          /\ Reply("failure") /\ UNCHANGED after
       \/ at = "ack" /\ Reply("failure") /\ UNCHANGED after
       \/ at \in {"abort", "abort_ack"} /\ Aborted /\ UNCHANGED after
       \/ at = "heartbeat" /\ at' = "abort" /\ after' = "failure" /\ UNCHANGED <<executor, final>>
       \/ at = "telemetry" /\ End("failed") /\ UNCHANGED <<executor, after>>
    /\ UNCHANGED <<conf, progress, sent, up, down, vehicle>>

(* --upload-only: nothing but the upload. *)
UploadOnly ==
    /\ at = "step" /\ conf.uploadOnly
    /\ \E accepted, inForce \in BOOLEAN :
         /\ accepted => inForce /\ waypoint_count(conf.mission) <= U16Max
         /\ End(IF accepted THEN "upload_accepted" ELSE "failed")
         /\ stored' = inForce
    /\ UNCHANGED <<conf, executor, after, progress, sent, up, down, obeyed, mode, flown, link>>
-----------------------------------------------------------------------------
(* The telemetry loop. *)

\* (mutant) a failure ends the run at once.
GiveUp(p) == progress' = p /\ End(p.final) /\ UNCHANGED after

(* The mission has failed: unfinished tasks are marked and the vehicle is  *)
(* recalled.                                                               *)
Fail(p) ==
    /\ progress' = p
    /\ at' = "abort" /\ after' = p.final /\ UNCHANGED final

(* One message is read.  What is not telemetry is passed over; an item that *)
(* the tracker does not know ends the run without an abort.                 *)
ReceiveTelemetry ==
    /\ at = "telemetry" /\ down # <<>>
    /\ down' = Tail(down)
    /\ LET e == Head(down)
           p == apply_event(progress, e)
       IN  \/ e.kind = "ack" /\ UNCHANGED <<at, after, progress, final>>
           \/ /\ e.kind # "ack" /\ ~KnownItem(progress, e)
              /\ End("failed") /\ UNCHANGED <<after, progress>>
           \/ /\ e.kind # "ack" /\ KnownItem(progress, e)
              /\ \/ p.final = "none" /\ progress' = p /\ UNCHANGED <<at, after, final>>
                 \/ p.final = "completed" /\ progress' = p /\ End("completed") /\ UNCHANGED after
                 \/ p.final \notin {"none", "completed"} /\ Fail(p)
    /\ UNCHANGED <<conf, executor, sent, up, vehicle, link>>

(* check_timeouts: no heartbeat, or no progress, for too long. *)
TelemetryTimeout ==
    /\ at = "telemetry"
    /\ \/ Fail(apply_event(progress, Event("disconnected", 0)))
       \/ Fail(mark_failed(progress, "timed_out_no_progress"))
    /\ UNCHANGED <<conf, executor, sent, up, down, vehicle, link>>
-----------------------------------------------------------------------------
(* The vehicle. *)

(* A landing that is asked for in the middle of the mission is flown at     *)
(* once, or after the mission: vehicles differ.                             *)
ModesAfter(c) ==
    CASE c = "takeoff" -> {"hover"}
      [] c = "start"   -> {"mission"}
      [] c = "land"    -> {"land"} \cup ({mode} \cap {"mission"})
      [] c = "rtl"     -> {"rtl"}
      [] OTHER         -> {mode}

VehicleObeys ==
    /\ up # <<>> /\ up' = Tail(up)
    /\ \E ok \in BOOLEAN :
         /\ ok /\ Head(up) = "start" => stored
         /\ obeyed' = IF ok THEN obeyed \cup {Head(up)} ELSE obeyed
         /\ mode' \in IF ok THEN ModesAfter(Head(up)) ELSE {mode}
         /\ down' = Append(down, Ack(Head(up), ok))
    /\ UNCHANGED <<conf, client, stored, flown, link>>

Says(kind, item) ==
    /\ Len(down) < MaxQueue
    /\ down' = Append(down, Event(kind, item))

(* While it flies the mission the vehicle names the item it flies to, and  *)
(* reports the items it reaches.                                           *)
VehicleFlies ==
    /\ mode = "mission" /\ flown # Items
    /\ \/ Says("current", Cardinality(flown) + 1) /\ UNCHANGED flown
       \/ /\ Says("reached", Cardinality(flown) + 1)
          /\ flown' = flown \cup {Cardinality(flown) + 1}
    /\ UNCHANGED <<conf, client, up, stored, obeyed, mode, link>>

(* A MISSION_ACK without an upload: the end of the mission, or its         *)
(* rejection in flight.                                                    *)
VehicleReports ==
    /\ mode = "mission"
    /\ faults < MaxFaults /\ faults' = faults + 1
    /\ Says("complete", 0) \/ Says("rejected", 0)
    /\ UNCHANGED <<conf, client, up, vehicle, broken>>

Lose ==
    /\ faults < MaxFaults /\ faults' = faults + 1
    /\ \/ /\ \E i \in 1..Len(up) : up' = RemoveAt(up, i)
          /\ UNCHANGED down
       \/ /\ \E i \in 1..Len(down) : down' = RemoveAt(down, i)
          /\ UNCHANGED up
    /\ UNCHANGED <<conf, client, vehicle, broken>>

Client ==
    \/ Refuse \/ SkipArm \/ Upload \/ SendCommand \/ SendAbort
    \/ ReceiveAck \/ Heartbeat \/ Timeout \/ ConnectionFails \/ UploadOnly
    \/ ReceiveTelemetry \/ TelemetryTimeout

Next == Client \/ VehicleObeys \/ VehicleFlies \/ VehicleReports \/ Lose

Spec == Init /\ [][Next]_vars
-----------------------------------------------------------------------------
(* The executor stays within its plan and its retry budget, and the tracker *)
(* within its tasks, whatever order answers and deadlines come in.          *)
TypeOK ==
    /\ conf \in Configuration
    /\ at \in Places
    /\ k \in 1..Len(Steps(Plan)) /\ Len(results) \in {k - 1, k}
    /\ tries \in 0..conf.budget /\ retried \subseteq Kinds
    /\ conf.budget = 0 => retried = {}
    /\ \A i \in DOMAIN results : results[i] \in Results
    /\ overall \in Outcomes /\ final \in RunStatuses
    /\ after \in StartFailures \cup RunStatuses
    /\ DOMAIN progress.status = Tracked /\ progress.current \in {0} \cup Tracked
    /\ sent \subseteq Commands /\ obeyed \subseteq sent
    /\ \A i \in DOMAIN up : up[i] \in sent
    /\ \A i \in DOMAIN down : down[i] \in DownMessage
    /\ mode \in Modes /\ flown \subseteq Items
    /\ stored \in BOOLEAN /\ broken \in BOOLEAN /\ faults \in 0..MaxFaults

(* A run that is reported as completed was flown to the last waypoint that  *)
(* the tracker knows: neither an acknowledgement that reads as the end of   *)
(* the mission nor a reached item of another mission makes up for one that  *)
(* the vehicle did not reach.                                               *)
SuccessWasFlown == final = "completed" => Tracked \subseteq flown

(* A step that the executor's report calls accepted has taken effect on the *)
(* vehicle: no answer that comes after its deadline confirms another step   *)
(* than its own, also when steps are retried.  The exception is an upload   *)
(* that was retried: it may have been accepted with the answer to one of    *)
(* its own MISSION_CLEAR_ALLs (mission_upload.rs:493), and then nothing     *)
(* need be stored.  sitl_agent's budget of 0 has no retries.                *)
ReportedWasObeyed ==
    \A i \in DOMAIN results :
        results[i] = "accepted" =>
            IF Steps(Plan)[i] = "upload" THEN stored \/ "upload" \in retried
            ELSE Steps(Plan)[i] \in obeyed

(* The wait for the heartbeat after the start, the abort and the telemetry  *)
(* loop.                                                                    *)
Watching == {"heartbeat", "abort", "abort_ack", "telemetry"}

(* The tracker is given an item that it does not know.                      *)
UnknownItem ==
    /\ at = "telemetry" /\ down # <<>>
    /\ Head(down).kind # "ack" /\ ~KnownItem(progress, Head(down))

(* A run that ends while it watches the started mission has either flown it *)
(* or recalled the vehicle, whichever deadline, report or rejection ended   *)
(* it, with two exceptions: the connection reported an error, or the        *)
(* tracker was given an item that it does not know.  Both leave the loop    *)
(* through `?`, past the abort (telemetry.rs:115-117).  And a vehicle that  *)
(* returns to launch is not sent anywhere else by this run.  The latter     *)
(* needs a retry budget of 0, as sitl_agent uses it: otherwise the start    *)
(* that was aborted is sent again.  A step that the vehicle refuses, the    *)
(* take-off, the start and the landing after it included, ends the run      *)
(* before the mission is watched, and nobody is recalled                    *)
(* (mavlink_executor.rs:336-372).                                           *)
RecallKept ==
    [][/\ (at \in Watching /\ at' = "ended") =>
              \/ final' = "completed" \/ "rtl" \in sent'
              \/ broken' \/ UnknownItem
       /\ (conf.budget = 0 /\ mode = "rtl") => mode' = "rtl"]_vars

(* Lifecycle commands that follow the route, the landing, are sent when the *)
(* items of the mission have been flown.                                    *)
PostludeAfterMission ==
    \A i \in DOMAIN results :
        results[i] = "accepted" /\ i > Len(Plan.prelude) + 2 => flown = Items
=============================================================================
