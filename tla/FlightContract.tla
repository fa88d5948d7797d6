--------------------------- MODULE FlightContract ---------------------------
(***************************************************************************)
(* What a flight over a MAVLink connection promises, in terms of the       *)
(* vehicle and of the verdict alone: commands take effect in order, a      *)
(* recall is the last thing that happens to the vehicle, a good verdict    *)
(* means that the mission was started, and nobody gives up on a vehicle in *)
(* the air, or one that may still take off, without having recalled it.    *)
(* How commands are sent, answered, delayed or lost is left to the         *)
(* implementation.                                                         *)
(***************************************************************************)
CONSTANT Open    \* the verdict of a flight that is not over

VARIABLES
    noArm,     \* the vehicle is armed by somebody else
    obeyed,    \* commands that have taken effect
    recalled,  \* the return to launch has been asked for
    excused,   \* the connection has reported an error
    verdict    \* Open, "ok" or "error"

contract == <<noArm, obeyed, recalled, excused, verdict>>

Start ==
    /\ noArm \in BOOLEAN /\ obeyed = {} /\ recalled = FALSE
    /\ excused = FALSE /\ verdict \in {Open, "error"}

Before(c) ==
    CASE c = "arm"     -> TRUE
      [] c = "takeoff" -> "arm" \in obeyed \/ noArm
      [] c = "start"   -> "takeoff" \in obeyed
      [] c = "rtl"     -> recalled

(* A command takes effect, perhaps after the verdict. *)
Obey(c) ==
    /\ "rtl" \notin obeyed /\ Before(c)
    /\ c = "takeoff" /\ verdict = "error" => recalled \/ excused
    /\ obeyed' = obeyed \cup {c}
    /\ UNCHANGED <<noArm, recalled, excused, verdict>>

Recall ==
    /\ verdict = Open /\ recalled' = TRUE
    /\ UNCHANGED <<noArm, obeyed, excused, verdict>>

(* The connection fails, which may be the end of the flight. *)
Break ==
    /\ verdict = Open /\ excused' = TRUE
    /\ verdict' \in {Open, "error"}
    /\ UNCHANGED <<noArm, obeyed, recalled>>

Succeed ==
    /\ verdict = Open /\ "start" \in obeyed
    /\ verdict' = "ok"
    /\ UNCHANGED <<noArm, obeyed, recalled, excused>>

GiveUp ==
    /\ verdict = Open /\ ("takeoff" \in obeyed => recalled \/ excused)
    /\ verdict' = "error"
    /\ UNCHANGED <<noArm, obeyed, recalled, excused>>

Step == (\E c \in {"arm", "takeoff", "start", "rtl"} : Obey(c)) \/ Recall \/ Break \/ Succeed \/ GiveUp

Contract == Start /\ [][Step]_contract
=============================================================================
