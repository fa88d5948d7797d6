--------------------------- MODULE MissionFlight ---------------------------
(***************************************************************************)
(* One flight over a MAVLink connection: the upload handshake with its     *)
(* retries (mission_upload.rs) followed by the arm, take-off and start     *)
(* commands with their abort (lifecycle.rs, commands.rs).                  *)
(*                                                                         *)
(* The client is one thread that either sends or waits.  The connection    *)
(* keeps the order of messages, and may delay or lose them.  The vehicle   *)
(* is external: it is modelled from what the client waits for and from the *)
(* scripted vehicles of tests_mission_upload.rs.                           *)
(***************************************************************************)
EXTENDS Naturals, Sequences, SequencesExt

CONSTANTS
    U16Max,      \* u16::MAX, the largest number of items of a mission
    MaxItems,    \* bound on the length of the mission that is asked for
    MaxRetries,  \* bound on retry_count
    MaxFaults    \* bound on lost messages, connection errors, repeated requests

ASSUME BoundsAssumption ==
    /\ U16Max \in Nat \ {0} /\ MaxItems \in Nat
    /\ MaxRetries \in Nat /\ MaxFaults \in Nat

VARIABLES
    conf,     \* the options of the flight
    at,       \* where the client is
    attempt,  \* attempts of the upload that have failed
    seq,      \* expected_seq: the next item to be asked for
    cmd,      \* the lifecycle command in hand
    failing,  \* the abort in hand follows an error
    sent,     \* lifecycle commands that were written to the connection
    broken,   \* the connection reported an error during the lifecycle
    up,       \* messages on the way to the vehicle
    down,     \* messages on the way to the client
    want,     \* item that the vehicle waits for, or NoItem
    stored,   \* items of the mission that the vehicle has in force
    obeyed,   \* lifecycle commands that the vehicle has accepted
    faults    \* faults so far

client == <<at, attempt, seq, cmd, failing, sent>>
vehicle == <<want, stored, obeyed>>
link == <<faults, broken>>
vars == <<conf, client, up, down, vehicle, link>>
-----------------------------------------------------------------------------
Commands == {"arm", "takeoff", "start", "rtl"}

NoItem == U16Max + 1

Configuration ==
    [items : 0..MaxItems, retries : 0..MaxRetries, clear : BOOLEAN,
     noArm : BOOLEAN, altitudeOk : BOOLEAN, abortAfter : BOOLEAN]

Uploading == {"heartbeat", "clear", "count", "request", "item", "ack"}
Executing == {"command", "command_ack", "post"}
Ended == {"ok", "error"}

Waiting == {"heartbeat", "request", "ack", "command_ack", "post"}

(* The messages.  A mission acknowledgement does not say which message it  *)
(* answers: "of" is for the reader, the client has no such field.          *)
ClearAll == [kind |-> "clear"]
Count == [kind |-> "count", n |-> conf.items % (U16Max + 1)]
Item(n) == [kind |-> "item", n |-> n]
Command(c) == [kind |-> "command", cmd |-> c]
Request(n) == [kind |-> "request", n |-> n]
MissionAck(of, ok) == [kind |-> "mission_ack", of |-> of, ok |-> ok]
CommandAck(c, ok) == [kind |-> "command_ack", cmd |-> c, ok |-> ok]

UpMessage ==
    {ClearAll} \cup {Count} \cup {Item(n) : n \in 0..U16Max}
      \cup {Command(c) : c \in Commands}
DownMessage ==
    {Request(n) : n \in 0..U16Max}
      \cup {MissionAck(of, ok) : of \in {"clear", "upload"}, ok \in BOOLEAN}
      \cup {CommandAck(c, ok) : c \in Commands, ok \in BOOLEAN}
-----------------------------------------------------------------------------
(* An empty or overlong mission is refused before anything is sent.        *)
Valid(items) == items > 0 /\ items <= U16Max

Init ==
    /\ conf \in Configuration
    /\ at = IF Valid(conf.items) THEN "heartbeat" ELSE "error"
    /\ attempt = 0 /\ seq = 0
    /\ cmd = "arm" /\ failing = FALSE /\ sent = {} /\ broken = FALSE
    /\ up = <<>> /\ down = <<>>
    /\ want = NoItem /\ stored = 0 /\ obeyed = {}
    /\ faults = 0

(* How a step of the client goes on. *)
Goto(where) ==
    /\ at' = where
    /\ UNCHANGED <<attempt, seq, cmd, failing, sent>>

\* (mutant) one attempt more than retry_count allows.
RetryOnceMore ==
    /\ \/ /\ attempt <= conf.retries
          /\ attempt' = attempt + 1 /\ at' = "heartbeat"
       \/ /\ attempt > conf.retries
          /\ attempt' = attempt /\ at' = "error"
    /\ seq' = 0
    /\ UNCHANGED <<cmd, failing, sent>>

\* (mutant) attempts are not counted.
RetryForever ==
    /\ at' = "heartbeat" /\ seq' = 0
    /\ UNCHANGED <<attempt, cmd, failing, sent>>

(* A retryable error: the next attempt, or the error of the last one. *)
Retry ==
    /\ \/ /\ attempt < conf.retries
          /\ attempt' = attempt + 1 /\ at' = "heartbeat"
       \/ /\ attempt >= conf.retries
          /\ attempt' = attempt /\ at' = "error"
    /\ seq' = 0
    /\ UNCHANGED <<cmd, failing, sent>>

(* The upload was accepted: the lifecycle begins. *)
Uploaded ==
    /\ IF conf.altitudeOk
       THEN at' = "command" /\ cmd' = IF conf.noArm THEN "takeoff" ELSE "arm"
       ELSE at' = "error" /\ UNCHANGED cmd
    /\ UNCHANGED <<attempt, seq, failing, sent>>

(* Return to launch, after an error or because abort_after has passed. *)
Abort(error) ==
    /\ at' = "command" /\ cmd' = "rtl" /\ failing' = error
    /\ UNCHANGED <<attempt, seq, sent>>

(* The command in hand was accepted. *)
Accepted ==
    \/ /\ cmd \in {"arm", "takeoff"}
       /\ at' = "command"
       /\ cmd' = IF cmd = "arm" THEN "takeoff" ELSE "start"
       /\ UNCHANGED <<attempt, seq, failing, sent>>
    \/ cmd = "start" /\ Goto("post")
    \/ cmd = "rtl" /\ Goto(IF failing THEN "error" ELSE "ok")

(* The command in hand was rejected, not answered, or the connection failed. *)
NotAccepted ==
    \/ cmd \in {"takeoff", "start"} /\ Abort(TRUE)
    \/ cmd \in {"arm", "rtl"} /\ Goto("error")
-----------------------------------------------------------------------------
(* The client sends. *)

SendClear ==
    /\ at = "clear" /\ Goto("count")
    /\ up' = Append(up, ClearAll)

SendCount ==
    /\ at = "count" /\ Goto("request")
    /\ up' = Append(up, Count)

SendItem ==
    /\ at = "item"
    /\ up' = Append(up, Item(seq))
    /\ seq' = seq + 1
    /\ at' = IF seq + 1 = conf.items THEN "ack" ELSE "request"
    /\ UNCHANGED <<attempt, cmd, failing, sent>>

SendCommand ==
    /\ at = "command"
    /\ up' = Append(up, Command(cmd))
    /\ at' = "command_ack" /\ sent' = sent \cup {cmd}
    /\ UNCHANGED <<attempt, seq, cmd, failing>>

Send ==
    /\ SendClear \/ SendCount \/ SendItem \/ SendCommand
    /\ UNCHANGED <<conf, down, vehicle, link>>

(* An item that cannot be converted ends the upload for good. *)
ConversionFails ==
    /\ at = "item"
    /\ Goto("error")
    /\ UNCHANGED <<conf, up, down, vehicle, link>>
-----------------------------------------------------------------------------
(* The client waits.  Messages that it does not wait for are dropped.      *)

(* The vehicle's periodic heartbeat. *)
Heartbeat ==
    /\ \/ at = "heartbeat" /\ Goto(IF conf.clear THEN "clear" ELSE "count")
       \/ at = "post" /\ IF conf.abortAfter THEN Abort(FALSE) ELSE Goto("ok")
    /\ UNCHANGED <<conf, up, down, vehicle, link>>

(* The answer that the client waits for. *)
Matches(m) ==
    \/ at = "request" /\ m.kind = "request"
    \/ at = "ack" /\ m.kind = "mission_ack"
    \/ at = "command_ack" /\ m.kind = "command_ack" /\ m.cmd = cmd

\* (mutant) the result of the acknowledgement is not looked at.
AnsweredAnyAck(m) ==
    \/ at = "request" /\ Goto(IF m.n = seq THEN "item" ELSE "error")
    \/ at = "ack" /\ Uploaded
    \/ at = "command_ack" /\ IF m.ok THEN Accepted ELSE NotAccepted

Answered(m) ==
    \/ at = "request" /\ Goto(IF m.n = seq THEN "item" ELSE "error")
    \/ at = "ack" /\ IF m.ok THEN Uploaded ELSE Goto("error")
    \/ at = "command_ack" /\ IF m.ok THEN Accepted ELSE NotAccepted

Receive ==
    /\ at \in Waiting /\ down # <<>>
    /\ down' = Tail(down)
    /\ IF Matches(Head(down)) THEN Answered(Head(down)) ELSE UNCHANGED client
    /\ UNCHANGED <<conf, up, vehicle, link>>

\* (mutant) no abort when the heartbeat after the start does not come.
TimeoutGivesUp ==
    /\ \/ at \in Waiting \cap Uploading /\ Retry
       \/ at = "command_ack" /\ NotAccepted
       \/ at = "post" /\ Goto("error")
    /\ UNCHANGED <<conf, up, down, vehicle, link>>

(* The deadline passes; what is still in flight arrives later. *)
Timeout ==
    /\ \/ at \in Waiting \cap Uploading /\ Retry
       \/ at = "command_ack" /\ NotAccepted
       \/ at = "post" /\ Abort(TRUE)
    /\ UNCHANGED <<conf, up, down, vehicle, link>>

(* A read or a write fails.  After the start, an error of the wait for the *)
(* heartbeat ends the flight without an abort.                              *)
ConnectionFails ==
    /\ faults < MaxFaults /\ faults' = faults + 1
    /\ \/ at \in Uploading /\ Retry /\ UNCHANGED broken
       \/ at \in {"command", "command_ack"} /\ NotAccepted /\ broken' = TRUE
       \/ at = "post" /\ Goto("error") /\ broken' = TRUE
    /\ UNCHANGED <<conf, up, down, vehicle>>
-----------------------------------------------------------------------------
(* The vehicle takes the next message and answers it.                      *)

VehicleClears ==
    /\ Head(up).kind = "clear"
    /\ stored' = 0 /\ want' = NoItem
    /\ down' = Append(down, MissionAck("clear", TRUE))
    /\ UNCHANGED obeyed

VehicleCounts ==
    /\ Head(up).kind = "count"
    /\ want' = 0
    /\ down' = Append(down, Request(0))
    /\ UNCHANGED <<stored, obeyed>>

VehicleStores ==
    /\ Head(up).kind = "item"
    /\ \/ /\ Head(up).n # want
          /\ UNCHANGED <<want, stored, down>>
       \/ /\ Head(up).n = want /\ want + 1 < Count.n
          /\ want' = want + 1
          /\ down' = Append(down, Request(want + 1))
          /\ UNCHANGED stored
       \/ /\ Head(up).n = want /\ want + 1 = Count.n
          /\ want' = NoItem
          /\ \E ok \in BOOLEAN :
               /\ stored' = IF ok THEN Count.n ELSE stored
               /\ down' = Append(down, MissionAck("upload", ok))
    /\ UNCHANGED obeyed

VehicleObeys ==
    /\ Head(up).kind = "command"
    /\ \E ok \in BOOLEAN :
         /\ obeyed' = IF ok THEN obeyed \cup {Head(up).cmd} ELSE obeyed
         /\ down' = Append(down, CommandAck(Head(up).cmd, ok))
    /\ UNCHANGED <<want, stored>>

Vehicle ==
    /\ up # <<>>
    /\ up' = Tail(up)
    /\ VehicleClears \/ VehicleCounts \/ VehicleStores \/ VehicleObeys
    /\ UNCHANGED <<conf, client, link>>

(* The vehicle waits for an item that does not come and asks again. *)
VehicleAsksAgain ==
    /\ want # NoItem
    /\ faults < MaxFaults /\ faults' = faults + 1
    /\ down' = Append(down, Request(want))
    /\ UNCHANGED <<conf, client, up, vehicle, broken>>

Lose ==
    /\ faults < MaxFaults /\ faults' = faults + 1
    /\ \/ /\ \E i \in 1..Len(up) : up' = RemoveAt(up, i)
          /\ UNCHANGED down
       \/ /\ \E i \in 1..Len(down) : down' = RemoveAt(down, i)
          /\ UNCHANGED up
    /\ UNCHANGED <<conf, client, vehicle, broken>>

Done ==
    /\ at \in Ended /\ UNCHANGED vars

Client == Send \/ ConversionFails \/ Heartbeat \/ Receive \/ Timeout \/ ConnectionFails

Next == Client \/ Vehicle \/ VehicleAsksAgain \/ Lose \/ Done

Spec == Init /\ [][Next]_vars

(* The client's thread is never blocked: every wait has a deadline. *)
FairSpec == Spec /\ WF_vars(Client)
-----------------------------------------------------------------------------
(* The client's counters stay within the options and the u16 numbering,    *)
(* whatever order answers, timeouts and retries come in.                   *)
TypeOK ==
    /\ conf \in Configuration
    /\ at \in Uploading \cup Executing \cup Ended
    /\ attempt \in 0..conf.retries
    /\ seq \in 0..conf.items
    /\ cmd \in Commands /\ failing \in BOOLEAN
    /\ sent \in SUBSET Commands /\ broken \in BOOLEAN
    /\ up \in Seq(UpMessage) /\ down \in Seq(DownMessage)
    /\ want \in 0..NoItem /\ stored \in 0..U16Max
    /\ obeyed \in SUBSET Commands
    /\ faults \in 0..MaxFaults

(* While the client executes a mission, the vehicle has all of it in force: *)
(* no acknowledgement that the upload takes for its own stems from another  *)
(* message.  The exception is an upload that was retried after a            *)
(* MISSION_CLEAR_ALL: wait_for_mission_ack may then take the late answer to *)
(* the clear for the answer to the last item.                               *)
MissionInForce ==
    at \in Executing /\ (attempt = 0 \/ ~conf.clear) => stored = conf.items

(* A vehicle never starts the mission before it has taken off, nor unarmed  *)
(* unless no_arm is set: a late answer to one command is never taken for    *)
(* the answer to the next.                                                  *)
StartsInOrder ==
    "start" \in obeyed => "takeoff" \in obeyed /\ ("arm" \in obeyed \/ conf.noArm)

(* A flight that ends in an error with the vehicle in the air, also if the  *)
(* client does not know that it is, has sent the abort, unless the          *)
(* connection itself reported errors.                                       *)
NotAbandoned ==
    at = "error" /\ "takeoff" \in obeyed /\ ~broken => "rtl" \in sent

(* Once a vehicle returns to launch no command of this flight, however      *)
(* late, makes it do anything else.                                         *)
RtlIsLast == [][~("rtl" \in obeyed /\ obeyed' # obeyed)]_vars

(* The direct path to a flight (upload, then lifecycle) keeps the contract  *)
(* of FlightContract: whatever is lost, late or repeated, the vehicle goes  *)
(* through the flight in order and is never given up on in the air.         *)
Promise ==
    INSTANCE FlightContract WITH
        Open <- "open", noArm <- conf.noArm, recalled <- "rtl" \in sent, excused <- broken,
        verdict <- IF at \in Ended THEN at ELSE "open"
KeepsContract == Promise!Contract

(* Every flight ends: retries are finite and every wait has a deadline.     *)
FlightEnds == <>(at \in Ended)
=============================================================================
