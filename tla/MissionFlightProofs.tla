------------------------ MODULE MissionFlightProofs ------------------------
(***************************************************************************)
(* What a flight guarantees for missions of any length, any number of      *)
(* retries and any number of faults.  The inductive invariant says, on top *)
(* of the properties, what is in flight on the two directions of the       *)
(* connection: where answers to MISSION_CLEAR_ALL can be, what an accepted *)
(* upload means, and that nothing is ever sent after the abort.            *)
(***************************************************************************)
EXTENDS MissionFlight, SequenceTheorems, TLAPS

(* A mission that the client refuses is never announced. *)
Refused == ~Valid(conf.items) => at = "error" /\ up = <<>> /\ want = NoItem

(* Nothing is in flight before the first message of the first attempt. *)
Untouched ==
    attempt = 0 /\ at \in {"heartbeat", "clear"} =>
      up = <<>> /\ down = <<>> /\ want = NoItem

(* In the first attempt a clear and its answer are ahead of everything else, *)
(* and the client does not get past them.                                    *)
Clears ==
    /\ ~conf.clear => at # "clear"
    /\ \A i \in 1..Len(up) : up[i].kind = "clear" =>
         /\ conf.clear
         /\ attempt = 0 =>
              /\ i = 1 /\ down = <<>> /\ want = NoItem
              /\ at \in {"count", "request", "error"}

ClearAcks ==
    \A i \in 1..Len(down) : down[i].kind = "mission_ack" /\ down[i].of = "clear" =>
      /\ conf.clear
      /\ attempt = 0 => i = 1 /\ at \in {"count", "request", "error"}

(* The numbering of the items. *)
Numbering ==
    /\ at \in {"request", "item"} => seq < conf.items
    /\ at \in {"heartbeat", "clear", "count"} => seq = 0

(* An accepted upload on its way to the client is in force. *)
UploadAcks ==
    attempt = 0 \/ ~conf.clear =>
      \A i \in 1..Len(down) :
        down[i].kind = "mission_ack" /\ down[i].of = "upload" /\ down[i].ok =>
          stored = conf.items

(* Commands and their answers come from the client and from the vehicle. *)
Orders ==
    /\ obeyed \subseteq sent
    /\ \A i \in 1..Len(up) : up[i].kind = "command" => up[i].cmd \in sent
    /\ \A i \in 1..Len(down) :
         down[i].kind = "command_ack" /\ down[i].ok => down[i].cmd \in obeyed

Armed == conf.noArm \/ "arm" \in obeyed

(* The commands are given in order, each after the answer to the last. *)
InOrder ==
    /\ at \in Uploading => sent = {}
    /\ at \in {"command", "command_ack"} =>
         /\ cmd = "arm" => sent \subseteq {"arm"}
         /\ cmd = "takeoff" => Armed
         /\ cmd = "start" => Armed /\ "takeoff" \in obeyed
    /\ at = "command_ack" => cmd \in sent
    /\ "start" \in sent => Armed /\ "takeoff" \in obeyed

(* The abort is the last message. *)
Home ==
    /\ "rtl" \in sent => at \in Ended \/ (at = "command_ack" /\ cmd = "rtl")
    /\ \A i \in 1..Len(up) : up[i].kind = "command" /\ up[i].cmd = "rtl" =>
         i = Len(up) /\ "rtl" \notin obeyed
    /\ "rtl" \in obeyed => up = <<>>

(* The client knows when the vehicle may be in the air. *)
Recalled == at = "error" /\ "takeoff" \in sent /\ ~broken => "rtl" \in sent

Inv ==
    /\ TypeOK /\ Refused /\ Untouched /\ Clears /\ ClearAcks /\ Numbering
    /\ UploadAcks /\ Orders /\ InOrder /\ Home /\ Recalled /\ MissionInForce
-----------------------------------------------------------------------------
(* Losing a message moves the ones behind it up by one. *)
LEMMA RemoveAtFacts ==
    ASSUME NEW S, NEW s \in Seq(S), NEW i \in 1..Len(s)
    PROVE  /\ RemoveAt(s, i) \in Seq(S)
           /\ Len(RemoveAt(s, i)) = Len(s) - 1
           /\ \A j \in 1..(Len(s) - 1) :
                RemoveAt(s, i)[j] = IF j < i THEN s[j] ELSE s[j + 1]
  <1> DEFINE p == SubSeq(s, 1, i - 1)
             q == SubSeq(s, i + 1, Len(s))
  <1>1. /\ p \in Seq(S) /\ Len(p) = i - 1
        /\ \A j \in 1..(i - 1) : p[j] = s[j]
    BY SubSeqProperties, Z3
  <1>2. /\ q \in Seq(S) /\ Len(q) = Len(s) - i
        /\ \A j \in 1..(Len(s) - i) : q[j] = s[i + j]
    BY SubSeqProperties, Z3
  <1> HIDE DEF p, q
  <1>3. p \o q \in Seq(S) /\ Len(p \o q) = Len(s) - 1
    <2>1. p \o q \in Seq(S) /\ Len(p \o q) = Len(p) + Len(q)
      BY <1>1, <1>2, ConcatProperties
    <2>2. Len(s) \in Nat /\ i \in Nat
      OBVIOUS
    <2> QED BY <1>1, <1>2, <2>1, <2>2
  <1>4. ASSUME NEW j \in 1..(Len(s) - 1)
        PROVE  (p \o q)[j] = IF j < i THEN s[j] ELSE s[j + 1]
    BY <1>1, <1>2
  <1> QED BY <1>3, <1>4 DEF p, q, RemoveAt

LEMMA InitInv == Init => Inv
  <1> SUFFICES ASSUME Init PROVE Inv OBVIOUS
  <1>0. up \in Seq(UpMessage) /\ down \in Seq(DownMessage)
    BY DEF Init
  <1>2. conf.retries \in Nat /\ conf.items \in Nat
    BY BoundsAssumption DEF Init, Configuration
  <1>3. at \in Uploading \cup Executing \cup Ended
    BY DEF Init, Uploading, Executing, Ended
  <1>4. /\ attempt \in 0..conf.retries /\ seq \in 0..conf.items
        /\ want \in 0..NoItem /\ stored \in 0..U16Max /\ faults \in 0..MaxFaults
    BY <1>2, BoundsAssumption DEF Init, NoItem
  <1>1. TypeOK
    BY <1>0, <1>3, <1>4 DEF Init, TypeOK, Commands
  <1> QED
    BY <1>1, BoundsAssumption DEF Init, Inv, Refused, Untouched, Clears, ClearAcks, Numbering, UploadAcks,
       Orders, InOrder, Home, Recalled, MissionInForce, Uploading, Executing, Ended, Valid, Configuration
-----------------------------------------------------------------------------
(* Types. *)

(* The part of the type invariant that the client's own steps change. *)
ClientOK ==
    /\ at \in Uploading \cup Executing \cup Ended
    /\ attempt \in 0..conf.retries
    /\ seq \in 0..conf.items
    /\ cmd \in Commands /\ failing \in BOOLEAN
    /\ sent \in SUBSET Commands

LEMMA Numbers == TypeOK => /\ conf.retries \in Nat /\ conf.items \in Nat
                           /\ attempt \in Nat /\ seq \in Nat
                           /\ stored \in Nat /\ want \in Nat
                           /\ U16Max \in Nat /\ faults \in Nat /\ NoItem = U16Max + 1
  BY BoundsAssumption DEF TypeOK, Configuration, NoItem

(* Every way in which the client goes on keeps its types. *)
LEMMA Goes ==
    ASSUME TypeOK, conf' = conf,
           \/ \E where \in Uploading \cup Executing \cup Ended : Goto(where)
           \/ Retry \/ Uploaded \/ Accepted \/ NotAccepted
           \/ Abort(TRUE) \/ Abort(FALSE) \/ UNCHANGED client
    PROVE  ClientOK'
  <1> USE Numbers
  <1>1. CASE \E where \in Uploading \cup Executing \cup Ended : Goto(where)
    BY <1>1 DEF Goto, ClientOK, TypeOK
  <1>2. CASE Retry
    <2>1. at' \in Uploading \cup Executing \cup Ended
      BY <1>2 DEF Retry, Uploading, Ended
    <2>2. attempt' \in 0..conf'.retries /\ seq' \in 0..conf'.items
      <3>1. conf.retries \in Nat /\ conf.items \in Nat /\ attempt \in 0..conf.retries
        BY DEF TypeOK
      <3>2. seq' = 0 /\ (attempt' = attempt \/ (attempt < conf.retries /\ attempt' = attempt + 1))
        BY <1>2 DEF Retry
      <3> QED
        BY <3>1, <3>2
    <2>3. UNCHANGED <<cmd, failing, sent>>
      BY <1>2 DEF Retry
    <2> QED
      BY <2>1, <2>2, <2>3 DEF ClientOK, TypeOK
  <1>3. CASE Uploaded
    BY <1>3 DEF Uploaded, ClientOK, TypeOK, Executing, Ended, Commands
  <1>4. CASE Accepted
    BY <1>4 DEF Accepted, Goto, ClientOK, TypeOK, Executing, Ended, Commands
  <1>5. CASE NotAccepted
    BY <1>5 DEF NotAccepted, Abort, Goto, ClientOK, TypeOK, Executing, Ended, Commands
  <1>6. CASE Abort(TRUE) \/ Abort(FALSE)
    BY <1>6 DEF Abort, ClientOK, TypeOK, Executing, Commands
  <1>7. CASE UNCHANGED client
    BY <1>7 DEF client, ClientOK, TypeOK
  <1> QED BY <1>1, <1>2, <1>3, <1>4, <1>5, <1>6, <1>7

(* The types of the rest. *)
RestOK ==
    /\ conf \in Configuration
    /\ broken \in BOOLEAN
    /\ up \in Seq(UpMessage) /\ down \in Seq(DownMessage)
    /\ want \in 0..NoItem /\ stored \in 0..U16Max
    /\ obeyed \in SUBSET Commands
    /\ faults \in 0..MaxFaults

LEMMA Split == TypeOK <=> ClientOK /\ RestOK
  BY DEF TypeOK, ClientOK, RestOK

LEMMA SplitNext == TypeOK' <=> ClientOK' /\ RestOK'
  BY DEF TypeOK, ClientOK, RestOK

LEMMA SendType ==
    ASSUME Inv, Send PROVE TypeOK'
  <1> USE Numbers
  <1>0. TypeOK /\ Numbering /\ Refused
    BY DEF Inv
  <1>1. conf' = conf /\ UpMessage' = UpMessage /\ DownMessage' = DownMessage
    BY DEF Send, UpMessage, DownMessage, Count, ClearAll
  <1>2. ClientOK'
    <2>1. CASE SendClear \/ SendCount
      BY <1>0, <1>1, <2>1, Goes DEF SendClear, SendCount, Uploading
    <2>2. CASE SendItem
      BY <1>0, <1>1, <2>2 DEF SendItem, ClientOK, TypeOK, Numbering, Uploading
    <2>3. CASE SendCommand
      BY <1>0, <1>1, <2>3 DEF SendCommand, ClientOK, TypeOK, Executing
    <2> QED BY <2>1, <2>2, <2>3 DEF Send
  <1>3. up' \in Seq(UpMessage)
    <2>0. up \in Seq(UpMessage)
      BY <1>0 DEF TypeOK
    <2> HIDE DEF UpMessage
    <2>1. CASE SendClear \/ SendCount
      <3>1. ClearAll \in UpMessage /\ Count \in UpMessage
        BY DEF UpMessage
      <3> QED BY <2>0, <2>1, <3>1 DEF SendClear, SendCount
    <2>2. CASE SendItem
      <3>1. seq \in 0..U16Max
        BY <1>0, <2>2 DEF SendItem, Refused, Valid, Numbering
      <3>2. Item(seq) \in UpMessage
        BY <3>1 DEF UpMessage
      <3> QED BY <2>0, <2>2, <3>2 DEF SendItem
    <2>3. CASE SendCommand
      <3>2. Command(cmd) \in UpMessage
        BY <1>0 DEF UpMessage, TypeOK
      <3> QED BY <2>0, <2>3, <3>2 DEF SendCommand
    <2> QED BY <2>1, <2>2, <2>3 DEF Send
  <1>4. RestOK'
    BY <1>0, <1>1, <1>3 DEF TypeOK, RestOK, Send, vehicle, link
  <1> QED BY <1>2, <1>4, SplitNext

LEMMA WaitType ==
    ASSUME Inv, ConversionFails \/ Heartbeat \/ Receive \/ Timeout \/ ConnectionFails
    PROVE  TypeOK'
  <1>0. TypeOK
    BY DEF Inv
  <1>c. conf' = conf
    BY DEF ConversionFails, Heartbeat, Receive, Timeout, ConnectionFails
  <1>1. conf' = conf /\ UpMessage' = UpMessage /\ DownMessage' = DownMessage
    BY <1>c DEF UpMessage, DownMessage, Count, ClearAll
  <1>2. ClientOK'
    <2>1. CASE ConversionFails \/ Heartbeat
      BY <1>0, <1>1, <2>1, Goes DEF ConversionFails, Heartbeat, Uploading, Ended
    <2>2. CASE Receive
      <3>1. CASE Matches(Head(down))
        BY <1>0, <1>1, <2>2, <3>1, Goes DEF Receive, Answered, Uploading, Ended
      <3> QED BY <1>0, <1>1, <2>2, <3>1, Goes DEF Receive
    <2>3. CASE Timeout
      BY <1>0, <1>1, <2>3, Goes DEF Timeout
    <2>4. CASE ConnectionFails
      BY <1>0, <1>1, <2>4, Goes DEF ConnectionFails, Ended
    <2> QED BY <2>1, <2>2, <2>3, <2>4
  <1>3. down' \in Seq(DownMessage)
    <2>0. down \in Seq(DownMessage)
      BY <1>0 DEF TypeOK
    <2> HIDE DEF DownMessage
    <2>1. CASE Receive
      BY <2>0, <2>1, HeadTailProperties DEF Receive
    <2> QED BY <2>0, <2>1 DEF ConversionFails, Heartbeat, Timeout, ConnectionFails
  <1>4. up' = up /\ want' = want /\ stored' = stored /\ obeyed' = obeyed
    BY DEF ConversionFails, Heartbeat, Receive, Timeout, ConnectionFails, vehicle
  <1>6. broken' \in BOOLEAN /\ faults' \in 0..MaxFaults
    <2>1. CASE ConnectionFails
      <3>1. faults \in 0..MaxFaults /\ broken \in BOOLEAN
        BY <1>0 DEF TypeOK
      <3>2. faults' = faults + 1 /\ faults < MaxFaults
        BY <2>1 DEF ConnectionFails
      <3>3. broken' \in {TRUE, broken}
        BY <2>1 DEF ConnectionFails
      <3>4. faults' \in 0..MaxFaults
        BY <3>1, <3>2, BoundsAssumption
      <3>5. broken' \in BOOLEAN
        BY <3>1, <3>3, Zenon
      <3> QED BY <3>4, <3>5
    <2>2. CASE ConversionFails \/ Heartbeat \/ Receive \/ Timeout
      BY <1>0, <2>2 DEF ConversionFails, Heartbeat, Receive, Timeout, link, TypeOK
    <2> QED BY <2>1, <2>2
  <1>5. RestOK'
    BY <1>0, <1>1, <1>3, <1>4, <1>6 DEF TypeOK, RestOK
  <1> QED BY <1>2, <1>5, SplitNext

LEMMA VehicleType ==
    ASSUME Inv, Vehicle PROVE TypeOK'
  <1> USE Numbers
  <1>0. TypeOK /\ Refused
    BY DEF Inv
  <1>1. conf' = conf /\ UpMessage' = UpMessage /\ DownMessage' = DownMessage
    BY DEF Vehicle, UpMessage, DownMessage, Count, ClearAll
  <1>2. ClientOK'
    BY <1>0, <1>1, Goes DEF Vehicle
  <1>3. /\ up \in Seq(UpMessage) /\ down \in Seq(DownMessage)
        /\ up # <<>> /\ up' = Tail(up)
    BY <1>0 DEF TypeOK, Vehicle
  <1>4. Head(up) \in UpMessage /\ up' \in Seq(UpMessage)
    BY <1>3, HeadTailProperties
  <1>5. Head(up).kind = "command" => Head(up).cmd \in Commands
    BY <1>4 DEF UpMessage, ClearAll, Count, Item, Command
  <1>6. Count.n \in 0..U16Max
    BY <1>0 DEF Count
  <1>7. /\ down' \in Seq(DownMessage)
        /\ want' \in 0..NoItem /\ stored' \in 0..U16Max /\ obeyed' \in SUBSET Commands
    <2>0. want \in 0..NoItem /\ stored \in 0..U16Max /\ obeyed \in SUBSET Commands
      BY <1>0 DEF TypeOK
    <2> HIDE DEF DownMessage
    <2>1. CASE VehicleClears
      <3>1. \A of \in {"clear", "upload"}, ok \in BOOLEAN : MissionAck(of, ok) \in DownMessage
        BY DEF DownMessage
      <3>2. MissionAck("clear", TRUE) \in DownMessage
        BY <3>1
      <3>3. down' \in Seq(DownMessage)
        <4>1. down' = Append(down, MissionAck("clear", TRUE))
          BY <2>1 DEF VehicleClears
        <4> QED BY <1>3, <3>2, <4>1, AppendProperties
      <3>4. want' \in 0..NoItem /\ stored' \in 0..U16Max /\ obeyed' = obeyed
        BY <1>0, <2>1, BoundsAssumption DEF VehicleClears, NoItem
      <3> QED BY <2>0, <3>3, <3>4
    <2>2. CASE VehicleCounts
      <3>1. Request(0) \in DownMessage
        BY <1>0 DEF DownMessage
      <3> QED BY <1>0, <1>3, <2>0, <2>2, <3>1 DEF VehicleCounts
    <2>3. CASE VehicleStores
      <3>1. CASE Head(up).n # want
        BY <1>3, <2>0, <2>3, <3>1 DEF VehicleStores
      <3>2. CASE Head(up).n = want /\ want + 1 < Count.n
        <4>1. want + 1 \in 0..U16Max
          BY <1>0, <1>6, <3>2
        <4>2. Request(want + 1) \in DownMessage
          BY <4>1 DEF DownMessage
        <4>3. down' \in Seq(DownMessage)
          <5>1. down' = Append(down, Request(want + 1))
            BY <1>0, <1>6, <2>3, <3>2 DEF VehicleStores
          <5> QED BY <1>3, <4>2, <5>1, AppendProperties
        <4>4. want' = want + 1 /\ stored' = stored /\ obeyed' = obeyed
          BY <1>0, <1>6, <2>3, <3>2 DEF VehicleStores
        <4> QED BY <1>0, <2>0, <4>1, <4>3, <4>4
      <3>3. CASE Head(up).n = want /\ want + 1 = Count.n
        <4>1. PICK ok \in BOOLEAN :
                /\ stored' = IF ok THEN Count.n ELSE stored
                /\ down' = Append(down, MissionAck("upload", ok))
          BY <1>0, <1>6, <2>3, <3>3 DEF VehicleStores
        <4>2. MissionAck("upload", ok) \in DownMessage
          BY DEF DownMessage
        <4>3. down' \in Seq(DownMessage)
          BY <1>3, <4>1, <4>2, AppendProperties
        <4>4. want' = NoItem /\ obeyed' = obeyed
          BY <1>0, <1>6, <2>3, <3>3 DEF VehicleStores
        <4>5. stored' \in 0..U16Max
          BY <1>0, <1>6, <2>0, <4>1
        <4> QED BY <1>0, <2>0, <4>3, <4>4, <4>5
      <3> QED BY <2>3, <3>1, <3>2, <3>3 DEF VehicleStores
    <2>4. CASE VehicleObeys
      <3>1. PICK ok \in BOOLEAN :
              /\ obeyed' = IF ok THEN obeyed \cup {Head(up).cmd} ELSE obeyed
              /\ down' = Append(down, CommandAck(Head(up).cmd, ok))
        BY <2>4 DEF VehicleObeys
      <3>2. CommandAck(Head(up).cmd, ok) \in DownMessage
        BY <1>5, <2>4 DEF DownMessage, VehicleObeys
      <3> QED BY <1>3, <1>5, <2>0, <2>4, <3>1, <3>2 DEF VehicleObeys
    <2> QED BY <2>1, <2>2, <2>3, <2>4 DEF Vehicle
  <1>8. RestOK'
    BY <1>0, <1>1, <1>4, <1>7 DEF TypeOK, RestOK, Vehicle, link
  <1> QED BY <1>2, <1>8, SplitNext

LEMMA LinkType ==
    ASSUME Inv, VehicleAsksAgain \/ Lose PROVE TypeOK'
  <1> USE Numbers
  <1>0. TypeOK /\ Refused
    BY DEF Inv
  <1>1. conf' = conf /\ UpMessage' = UpMessage /\ DownMessage' = DownMessage
    BY DEF VehicleAsksAgain, Lose, UpMessage, DownMessage, Count, ClearAll
  <1>2. ClientOK'
    BY <1>0, <1>1, Goes DEF VehicleAsksAgain, Lose
  <1>3. up' \in Seq(UpMessage) /\ down' \in Seq(DownMessage)
    <2>0. up \in Seq(UpMessage) /\ down \in Seq(DownMessage)
      BY <1>0 DEF TypeOK
    <2> HIDE DEF UpMessage, DownMessage
    <2>1. CASE VehicleAsksAgain
      <3>1. want \in 0..U16Max
        BY <1>0, <2>1 DEF TypeOK, VehicleAsksAgain
      <3>2. Request(want) \in DownMessage
        BY <3>1 DEF DownMessage
      <3> QED BY <2>0, <2>1, <3>2 DEF VehicleAsksAgain
    <2>2. CASE Lose
      BY <2>0, <2>2, RemoveAtFacts DEF Lose
    <2> QED BY <2>1, <2>2
  <1>4. faults' \in 0..MaxFaults
    BY <1>0, BoundsAssumption DEF VehicleAsksAgain, Lose
  <1>5. UNCHANGED <<conf, want, stored, obeyed, broken>> /\ NoItem' = NoItem
    BY DEF VehicleAsksAgain, Lose, vehicle, NoItem
  <1>6. RestOK'
    BY <1>0, <1>1, <1>3, <1>4, <1>5, Zenon DEF TypeOK, RestOK
  <1> QED BY <1>2, <1>6, SplitNext
-----------------------------------------------------------------------------
(* What a sent message adds. *)
LEMMA SendFacts ==
    ASSUME Inv, Send
    PROVE  /\ Len(up) \in Nat /\ Len(up') = Len(up) + 1
           /\ \A i \in 1..Len(up) : up'[i] = up[i]
           /\ SendClear => up'[Len(up) + 1].kind = "clear"
           /\ SendCount => up'[Len(up) + 1].kind = "count"
           /\ SendItem => up'[Len(up) + 1].kind = "item"
           /\ SendCommand => /\ up'[Len(up) + 1].kind = "command"
                             /\ up'[Len(up) + 1].cmd = cmd
           /\ conf' = conf /\ down' = down /\ want' = want /\ stored' = stored
           /\ obeyed' = obeyed /\ broken' = broken /\ attempt' = attempt
           /\ cmd' = cmd
           /\ (~SendCommand => sent' = sent)
  <1>0. up \in Seq(UpMessage)
    BY DEF Inv, TypeOK
  <1>1. \A m : /\ Len(Append(up, m)) = Len(up) + 1
               /\ \A i \in 1..Len(up) : Append(up, m)[i] = up[i]
               /\ Append(up, m)[Len(up) + 1] = m
    BY <1>0
  <1>2. Len(up) \in Nat
    BY <1>0
  <1>3. /\ conf' = conf /\ down' = down /\ want' = want /\ stored' = stored
        /\ obeyed' = obeyed /\ broken' = broken /\ attempt' = attempt
        /\ cmd' = cmd
    BY DEF Send, SendClear, SendCount, SendItem, SendCommand, Goto, vehicle, link
  <1>4. ~SendCommand => sent' = sent
    BY DEF Send, SendClear, SendCount, SendItem, Goto
  <1>5. SendClear => up' = Append(up, ClearAll) /\ ClearAll.kind = "clear"
    BY DEF SendClear, ClearAll
  <1>6. SendCount => up' = Append(up, Count) /\ Count.kind = "count"
    BY DEF SendCount, Count
  <1>7. SendItem => up' = Append(up, Item(seq)) /\ Item(seq).kind = "item"
    BY DEF SendItem, Item
  <1>8. SendCommand => up' = Append(up, Command(cmd)) /\ Command(cmd).kind = "command" /\ Command(cmd).cmd = cmd
    BY DEF SendCommand, Command
  <1>9. Len(up') = Len(up) + 1 /\ \A i \in 1..Len(up) : up'[i] = up[i]
    BY <1>1, <1>5, <1>6, <1>7, <1>8 DEF Send
  <1> QED BY <1>1, <1>2, <1>3, <1>4, <1>5, <1>6, <1>7, <1>8, <1>9

LEMMA SendInv ==
    ASSUME Inv, Send PROVE Inv'
  <1>0. /\ TypeOK /\ Refused /\ Untouched /\ Clears /\ ClearAcks /\ Numbering
        /\ UploadAcks /\ Orders /\ InOrder /\ Home /\ Recalled /\ MissionInForce
    BY DEF Inv
  <1>t. TypeOK'
    BY SendType
  <1>n. Len(up) \in Nat /\ conf.items \in Nat /\ seq \in Nat
    BY <1>0, Numbers, SendFacts
  <1>a. at \in {"clear", "count", "item", "command"}
    BY DEF Send, SendClear, SendCount, SendItem, SendCommand
  <1>b. /\ at = "clear" => SendClear /\ at' = "count" /\ seq' = seq
        /\ at = "count" => SendCount /\ at' = "request" /\ seq' = seq
        /\ at = "item" => /\ SendItem /\ seq' = seq + 1
                          /\ at' = IF seq + 1 = conf.items THEN "ack" ELSE "request"
        /\ at = "command" => /\ SendCommand /\ at' = "command_ack" /\ sent' = sent \cup {cmd}
    BY DEF Send, SendClear, SendCount, SendItem, SendCommand, Goto
  <1>c. at # "command" => sent' = sent /\ up'[Len(up) + 1].kind # "command"
    BY <1>a, <1>b, SendFacts DEF SendCommand
  <1>d. at = "command" => up'[Len(up) + 1].kind = "command" /\ up'[Len(up) + 1].cmd = cmd
    BY <1>b, SendFacts
  <1>e. \A i \in 1..Len(up') : (i \in 1..Len(up) /\ up'[i] = up[i]) \/ i = Len(up) + 1
    BY <1>n, SendFacts
  <1>1. Refused'
    BY <1>0, <1>a, SendFacts DEF Refused, Valid
  <1>2. Untouched'
    BY <1>a, <1>b DEF Untouched
  <1>3. Clears'
    BY <1>0, <1>n, <1>a, <1>b, SendFacts DEF Clears, Untouched
  <1>4. ClearAcks'
    BY <1>0, <1>a, <1>b, SendFacts DEF ClearAcks, Untouched
  <1>5. Numbering'
    BY <1>0, <1>n, <1>a, <1>b, SendFacts DEF Numbering, Refused, Valid
  <1>6. UploadAcks'
    BY <1>0, SendFacts DEF UploadAcks
  <1>7. Orders'
    <2>1. sent \subseteq sent' /\ (at = "command" => cmd \in sent')
      BY <1>b, <1>c
    <2>2. \A i \in 1..Len(up') : up'[i].kind = "command" => up'[i].cmd \in sent'
      BY <1>0, <1>c, <1>d, <1>e, <2>1 DEF Orders
    <2> QED BY <1>0, <2>1, <2>2, SendFacts DEF Orders
  <1>8. InOrder'
    <2>1. CASE at = "command"
      <3>1. cmd \in Commands
        BY <1>0 DEF TypeOK
      <3>2. cmd' = cmd /\ at' = "command_ack" /\ sent' = sent \cup {cmd} /\ Armed' = Armed /\ obeyed' = obeyed
        BY <1>b, <2>1, SendFacts DEF Armed
      <3> QED BY <1>0, <2>1, <3>1, <3>2 DEF InOrder, Uploading
    <2>2. CASE at # "command"
      BY <1>0, <1>a, <1>b, <1>c, <2>2, SendFacts DEF InOrder, Uploading
    <2> QED BY <2>1, <2>2
  <1>9. Home'
    <2>1. "rtl" \notin sent /\ "rtl" \notin obeyed
      BY <1>0, <1>a DEF Home, Orders, Ended
    <2>2. "rtl" \in sent' => at' = "command_ack" /\ cmd' = "rtl"
      BY <1>b, <1>c, <2>1, SendFacts
    <2>3. \A i \in 1..Len(up) : ~(up[i].kind = "command" /\ up[i].cmd = "rtl")
      BY <1>0, <2>1 DEF Orders
    <2>4. \A i \in 1..Len(up') : up'[i].kind = "command" /\ up'[i].cmd = "rtl" => i = Len(up')
      BY <1>e, <2>3, SendFacts
    <2>5. obeyed' = obeyed
      BY SendFacts
    <2> QED BY <2>1, <2>2, <2>4, <2>5 DEF Home
  <1>10. Recalled'
    BY <1>a, <1>b DEF Recalled
  <1>11. MissionInForce'
    BY <1>0, <1>a, <1>b, SendFacts DEF MissionInForce, Executing
  <1> QED BY <1>t, <1>1, <1>2, <1>3, <1>4, <1>5, <1>6, <1>7, <1>8, <1>9, <1>10, <1>11 DEF Inv
-----------------------------------------------------------------------------
(* A step of the client that sends nothing moves it as follows. *)

Commanding == at \in {"command", "command_ack"}

Stay == UNCHANGED <<at, attempt, seq, cmd, broken>>

GiveUp ==
    at \in Uploading /\ at' = "error" /\ attempt' = attempt /\ broken' = broken

TryAgain ==
    at \in Uploading /\ at' = "heartbeat" /\ attempt' # 0 /\ seq' = 0 /\ broken' = broken

Begin ==
    /\ at = "heartbeat" /\ at' = (IF conf.clear THEN "clear" ELSE "count")
    /\ UNCHANGED <<attempt, seq, broken>>

Serve ==
    /\ at = "request" /\ at' = "item" /\ down # <<>>
    /\ UNCHANGED <<attempt, seq, broken>>
    /\ attempt = 0 => \A i \in 1..Len(down') :
         ~(down'[i].kind = "mission_ack" /\ down'[i].of = "clear")

Launch ==
    /\ at = "ack" /\ at' = "command" /\ attempt' = attempt /\ broken' = broken
    /\ cmd' = IF conf.noArm THEN "takeoff" ELSE "arm"
    /\ (attempt = 0 \/ ~conf.clear) => stored = conf.items

Proceed ==
    /\ at = "command_ack" /\ cmd \in obeyed /\ attempt' = attempt /\ broken' = broken
    /\ \/ cmd = "arm" /\ at' = "command" /\ cmd' = "takeoff"
       \/ cmd = "takeoff" /\ at' = "command" /\ cmd' = "start"
       \/ cmd = "start" /\ at' = "post"

Recall ==
    /\ at = "post" \/ (Commanding /\ cmd \in {"takeoff", "start"})
    /\ at' = "command" /\ cmd' = "rtl" /\ attempt' = attempt /\ broken' \in {TRUE, broken}

Finish ==
    /\ attempt' = attempt /\ broken' \in {TRUE, broken}
    /\ \/ (at = "post" \/ at = "command_ack") /\ at' = "ok"
       \/ at = "post" /\ at' = "error" /\ broken' = TRUE
       \/ Commanding /\ cmd = "arm" /\ at' = "error"
       \/ at = "command_ack" /\ cmd = "rtl" /\ at' = "error"
       \/ at = "command" /\ cmd = "rtl" /\ at' = "error" /\ broken' = TRUE

Move == Stay \/ GiveUp \/ TryAgain \/ Begin \/ Serve \/ Launch \/ Proceed \/ Recall \/ Finish

(* Messages to the client only disappear. *)
Shrinks ==
    /\ Len(down') \in Nat
    /\ down = <<>> => down' = <<>>
    /\ \A i \in 1..Len(down') : \E j \in 1..Len(down) : i <= j /\ down'[i] = down[j]

LEMMA MoveInv ==
    ASSUME Inv, TypeOK', Move, Shrinks, sent' = sent,
           UNCHANGED <<conf, up, want, stored, obeyed>>
    PROVE  Inv'
  <1>0. /\ TypeOK /\ Refused /\ Untouched /\ Clears /\ ClearAcks /\ Numbering
        /\ UploadAcks /\ Orders /\ InOrder /\ Home /\ Recalled /\ MissionInForce
    BY DEF Inv
  <1>n. attempt \in Nat /\ attempt' \in Nat /\ conf.items \in Nat
    <2>1. conf.retries \in Nat /\ conf.items \in Nat
      BY <1>0, Numbers
    <2> QED BY <1>0, <2>1 DEF TypeOK
  <1>m. attempt' = attempt \/ (TryAgain /\ attempt' # 0)
    BY Zenon DEF Move, Stay, GiveUp, TryAgain, Begin, Serve, Launch, Proceed, Recall, Finish
  <1>1. Refused'
    BY <1>0 DEF Refused, Valid, Move, Stay, GiveUp, TryAgain, Begin, Serve, Launch, Proceed, Recall,
       Finish, Uploading, Commanding
  <1>2. Untouched'
    BY <1>0, <1>m DEF Untouched, Shrinks, Move, Stay, GiveUp, TryAgain, Begin, Serve, Launch, Proceed,
       Recall, Finish
  <1>3. Clears'
    <2>1. ~conf'.clear => at' # "clear"
      BY <1>0 DEF Clears, Move, Stay, GiveUp, TryAgain, Begin, Serve, Launch, Proceed, Recall, Finish
    <2>2. ASSUME NEW i \in 1..Len(up'), up'[i].kind = "clear"
          PROVE  /\ conf'.clear
                 /\ attempt' = 0 => /\ i = 1 /\ down' = <<>> /\ want' = NoItem
                                   /\ at' \in {"count", "request", "error"}
      <3>1. /\ conf.clear
            /\ attempt = 0 => /\ i = 1 /\ down = <<>> /\ want = NoItem
                             /\ at \in {"count", "request", "error"}
        BY <1>0, <2>2 DEF Clears
      <3> QED BY <1>m, <3>1 DEF Shrinks, Move, Stay, GiveUp, TryAgain, Begin, Serve, Launch, Proceed,
                 Recall, Finish, Commanding
    <2> QED BY <2>1, <2>2 DEF Clears
  <1>4. ClearAcks'
    <2>1. ASSUME NEW i \in 1..Len(down'), down'[i].kind = "mission_ack", down'[i].of = "clear"
          PROVE  /\ conf'.clear
                 /\ attempt' = 0 => i = 1 /\ at' \in {"count", "request", "error"}
      <3>1. PICK j \in 1..Len(down) : i <= j /\ down'[i] = down[j]
        BY DEF Shrinks
      <3>2. /\ conf.clear
            /\ attempt = 0 => j = 1 /\ at \in {"count", "request", "error"}
        BY <1>0, <2>1, <3>1 DEF ClearAcks
      <3>3. i \in Nat /\ (j = 1 => i = 1)
        BY <3>1 DEF Shrinks
      <3> QED BY <1>m, <2>1, <3>2, <3>3 DEF Move, Stay, GiveUp, TryAgain, Begin, Serve, Launch, Proceed,
                 Recall, Finish, Commanding
    <2> QED BY <2>1 DEF ClearAcks
  <1>5. Numbering'
    BY <1>0 DEF Numbering, Move, Stay, GiveUp, TryAgain, Begin, Serve, Launch, Proceed, Recall, Finish
  <1>6. UploadAcks'
    BY <1>0, <1>m DEF UploadAcks, Shrinks
  <1>7. Orders'
    BY <1>0 DEF Orders, Shrinks
  <1>8. InOrder'
    <2>1. Armed' = Armed
      BY DEF Armed
    <2>2. CASE Stay
      BY <1>0, <2>1, <2>2 DEF InOrder, Stay
    <2>3. CASE GiveUp \/ TryAgain \/ Begin \/ Serve
      BY <1>0, <2>1, <2>3 DEF InOrder, GiveUp, TryAgain, Begin, Serve, Uploading
    <2>4. CASE Launch
      BY <1>0, <2>1, <2>4 DEF InOrder, Launch, Uploading, Armed
    <2>5. CASE Proceed
      BY <1>0, <2>1, <2>5 DEF InOrder, Proceed, Uploading, Armed
    <2>6. CASE Recall \/ Finish
      BY <1>0, <2>1, <2>6 DEF InOrder, Recall, Finish, Uploading
    <2> QED BY <2>2, <2>3, <2>4, <2>5, <2>6 DEF Move
  <1>9. Home'
    <2>1. "rtl" \in sent' => at' \in Ended \/ (at' = "command_ack" /\ cmd' = "rtl")
      BY <1>0 DEF Home, InOrder, Uploading, Ended, Commanding, Move, Stay, GiveUp, TryAgain, Begin, Serve,
         Launch, Proceed, Recall, Finish
    <2> QED BY <1>0, <2>1 DEF Home
  <1>10. Recalled'
    <2>1. CASE Stay \/ Recall \/ TryAgain \/ Begin \/ Serve \/ Launch \/ Proceed
      BY <1>0, <2>1 DEF Recalled, Stay, TryAgain, Begin, Serve, Launch, Proceed, Recall
    <2>2. CASE GiveUp
      BY <1>0, <2>2 DEF Recalled, GiveUp, InOrder
    <2>3. CASE Finish
      BY <1>0, <2>3 DEF Recalled, Finish, InOrder, Commanding
    <2> QED BY <2>1, <2>2, <2>3 DEF Move
  <1>11. MissionInForce'
    BY <1>0, <1>m DEF MissionInForce, Executing, Commanding, Move, Stay, GiveUp, TryAgain, Begin, Serve,
       Launch, Proceed, Recall, Finish
  <1> QED BY <1>1, <1>2, <1>3, <1>4, <1>5, <1>6, <1>7, <1>8, <1>9, <1>10, <1>11 DEF Inv

(* Retries and the answers to commands are such moves. *)
LEMMA RetryMove ==
    ASSUME Inv, Retry, at \in Uploading, broken' = broken
    PROVE  (GiveUp \/ TryAgain) /\ sent' = sent
  <1>1. attempt \in Nat
    BY Numbers DEF Inv
  <1> QED BY <1>1 DEF Retry, GiveUp, TryAgain

LEMMA RefusalMove ==
    ASSUME Inv, NotAccepted, Commanding, broken' \in {TRUE, broken},
           at = "command_ack" \/ broken' = TRUE
    PROVE  (Recall \/ Finish) /\ sent' = sent
  <1>1. CASE cmd \in {"takeoff", "start"} /\ Abort(TRUE)
    BY <1>1 DEF Abort, Recall
  <1>2. CASE cmd \in {"arm", "rtl"} /\ Goto("error")
    BY <1>2 DEF Goto, Finish, Commanding
  <1> QED BY <1>1, <1>2 DEF NotAccepted

LEMMA SilentInv ==
    ASSUME Inv, ConversionFails \/ Heartbeat \/ Timeout \/ ConnectionFails
    PROVE  Inv'
  <1>1. TypeOK'
    BY WaitType
  <1>2. UNCHANGED <<conf, up, want, stored, obeyed>> /\ down' = down
    BY DEF ConversionFails, Heartbeat, Timeout, ConnectionFails, vehicle
  <1>3. Shrinks
    <2>1. down \in Seq(DownMessage)
      BY DEF Inv, TypeOK
    <2>2. Len(down) \in Nat
      BY <2>1
    <2> QED BY <1>2, <2>2 DEF Shrinks
  <1>4. Move /\ sent' = sent
    <2>1. CASE ConversionFails
      BY <2>1 DEF ConversionFails, Goto, Move, GiveUp, Uploading, link
    <2>2. CASE Heartbeat
      <3>1. broken' = broken
        BY <2>2 DEF Heartbeat, link
      <3>2. CASE at = "heartbeat"
        BY <2>2, <3>1, <3>2 DEF Heartbeat, Goto, Move, Begin
      <3>3. CASE at = "post"
        BY <2>2, <3>1, <3>3 DEF Heartbeat, Goto, Abort, Move, Recall, Finish
      <3> QED BY <2>2, <3>2, <3>3 DEF Heartbeat
    <2>3. CASE Timeout
      <3>1. broken' = broken
        BY <2>3 DEF Timeout, link
      <3>2. CASE at \in Waiting \cap Uploading /\ Retry
        BY <3>1, <3>2, RetryMove DEF Move
      <3>3. CASE at = "command_ack" /\ NotAccepted
        BY <3>1, <3>3, RefusalMove DEF Move, Commanding
      <3>4. CASE at = "post" /\ Abort(TRUE)
        BY <3>1, <3>4 DEF Abort, Move, Recall
      <3> QED BY <2>3, <3>2, <3>3, <3>4 DEF Timeout
    <2>4. CASE ConnectionFails
      <3>2. CASE at \in Uploading /\ Retry /\ UNCHANGED broken
        BY <3>2, RetryMove DEF Move
      <3>3. CASE at \in {"command", "command_ack"} /\ NotAccepted /\ broken' = TRUE
        BY <3>3, RefusalMove DEF Move, Commanding
      <3>4. CASE at = "post" /\ Goto("error") /\ broken' = TRUE
        BY <3>4 DEF Goto, Move, Finish
      <3> QED BY <2>4, <3>2, <3>3, <3>4 DEF ConnectionFails
    <2> QED BY <2>1, <2>2, <2>3, <2>4
  <1> QED BY <1>1, <1>2, <1>3, <1>4, MoveInv

LEMMA ReceiveInv ==
    ASSUME Inv, Receive PROVE Inv'
  <1>0. /\ TypeOK /\ Clears /\ ClearAcks /\ UploadAcks /\ Orders /\ InOrder
    BY DEF Inv
  <1>1. TypeOK'
    BY WaitType
  <1>2. UNCHANGED <<conf, up, want, stored, obeyed, broken>>
    BY DEF Receive, vehicle, link
  <1>3. down \in Seq(DownMessage) /\ down # <<>> /\ down' = Tail(down)
    BY <1>0 DEF TypeOK, Receive
  <1>4. /\ Len(down) \in Nat /\ Len(down) >= 1 /\ Len(down') = Len(down) - 1
        /\ \A i \in 1..Len(down') : down'[i] = down[i + 1]
        /\ Head(down) = down[1] /\ Head(down) \in DownMessage
    BY <1>3, HeadTailProperties
  <1>5. Shrinks
    <2>1. \A i \in 1..Len(down') : i + 1 \in 1..Len(down) /\ i <= i + 1
      BY <1>4
    <2> QED BY <1>3, <1>4, <2>1 DEF Shrinks
  <1>6. Move /\ sent' = sent
    <2>1. CASE ~Matches(Head(down))
      BY <1>2, <2>1 DEF Receive, client, Move, Stay
    <2>2. CASE Matches(Head(down)) /\ at = "request"
      <3>1. Goto(IF Head(down).n = seq THEN "item" ELSE "error")
        BY <2>2 DEF Receive, Answered
      <3>2. Head(down).kind = "request"
        BY <2>2 DEF Matches
      <3>3. attempt = 0 => \A i \in 1..Len(down') :
              ~(down'[i].kind = "mission_ack" /\ down'[i].of = "clear")
        <4>1. \A i \in 1..Len(down') : i + 1 \in 1..Len(down) /\ i + 1 # 1
          BY <1>4
        <4> QED BY <1>0, <1>4, <4>1 DEF ClearAcks
      <3>4. CASE Head(down).n = seq
        BY <1>2, <1>3, <2>2, <3>1, <3>3, <3>4 DEF Goto, Move, Serve
      <3>5. CASE Head(down).n # seq
        BY <1>2, <2>2, <3>1, <3>5 DEF Goto, Move, GiveUp, Uploading
      <3> QED BY <3>4, <3>5
    <2>3. CASE Matches(Head(down)) /\ at = "ack"
      <3>1. IF Head(down).ok THEN Uploaded ELSE Goto("error")
        BY <2>3 DEF Receive, Answered
      <3>2. CASE ~Head(down).ok
        BY <1>2, <2>3, <3>1, <3>2 DEF Goto, Move, GiveUp, Uploading
      <3>3. CASE Head(down).ok
        <4>1. Head(down).kind = "mission_ack"
          BY <2>3 DEF Matches
        <4>2. Head(down).of \in {"clear", "upload"}
          BY <1>4, <4>1 DEF DownMessage, Request, MissionAck, CommandAck
        <4>3. (attempt = 0 \/ ~conf.clear) => Head(down).of # "clear"
          BY <1>0, <1>4, <2>3, <4>1 DEF ClearAcks
        <4>4. (attempt = 0 \/ ~conf.clear) => stored = conf.items
          BY <1>0, <1>4, <3>3, <4>1, <4>2, <4>3 DEF UploadAcks
        <4> QED BY <1>2, <2>3, <3>1, <3>3, <4>4 DEF Uploaded, Move, Launch, GiveUp, Uploading
      <3> QED BY <3>2, <3>3
    <2>4. CASE Matches(Head(down)) /\ at = "command_ack"
      <3>1. IF Head(down).ok THEN Accepted ELSE NotAccepted
        BY <2>4 DEF Receive, Answered
      <3>2. CASE ~Head(down).ok
        BY <1>2, <2>4, <3>1, <3>2, RefusalMove DEF Move, Commanding
      <3>3. CASE Head(down).ok
        <4>1. cmd \in obeyed
          BY <1>0, <1>4, <2>4, <3>3 DEF Matches, Orders
        <4>2. CASE cmd \in {"arm", "takeoff"}
          BY <1>2, <2>4, <3>1, <3>3, <4>1, <4>2 DEF Accepted, Goto, Move, Proceed
        <4>3. CASE cmd = "start"
          BY <1>2, <2>4, <3>1, <3>3, <4>1, <4>3 DEF Accepted, Goto, Move, Proceed
        <4>4. CASE cmd = "rtl"
          BY <1>2, <2>4, <3>1, <3>3, <4>4 DEF Accepted, Goto, Move, Finish
        <4> QED BY <3>1, <3>3, <4>2, <4>3, <4>4 DEF Accepted
      <3> QED BY <3>2, <3>3
    <2> QED BY <2>1, <2>2, <2>3, <2>4 DEF Matches
  <1> QED BY <1>1, <1>2, <1>5, <1>6, MoveInv
-----------------------------------------------------------------------------
(* What the vehicle does to the connection and to itself. *)
LEMMA VehicleFacts ==
    ASSUME Inv, Vehicle
    PROVE  /\ Len(up) \in Nat /\ Len(up) >= 1 /\ Len(up') = Len(up) - 1
           /\ \A i \in 1..Len(up') : up'[i] = up[i + 1]
           /\ Len(up) = 1 => up' = <<>>
           /\ Head(up) = up[1]
           /\ Len(down) \in Nat
           /\ \/ down' = down
              \/ /\ Len(down') = Len(down) + 1
                 /\ \A i \in 1..Len(down) : down'[i] = down[i]
           /\ conf' = conf /\ at' = at /\ attempt' = attempt /\ seq' = seq /\ cmd' = cmd
           /\ sent' = sent /\ broken' = broken
  <1>1. /\ up \in Seq(UpMessage) /\ down \in Seq(DownMessage)
        /\ up # <<>> /\ up' = Tail(up)
    BY DEF Inv, TypeOK, Vehicle
  <1>2. /\ Len(up) \in Nat /\ Len(up) >= 1 /\ Len(up') = Len(up) - 1
        /\ \A i \in 1..Len(up') : up'[i] = up[i + 1]
        /\ Head(up) = up[1]
    BY <1>1, HeadTailProperties
  <1>3. Len(up) = 1 => up' = <<>>
    BY <1>1
  <1>4. \A m : /\ Len(Append(down, m)) = Len(down) + 1
               /\ \A i \in 1..Len(down) : Append(down, m)[i] = down[i]
    BY <1>1
  <1>5. down' = down \/ \E m : down' = Append(down, m)
    BY DEF Vehicle, VehicleClears, VehicleCounts, VehicleStores, VehicleObeys
  <1>6. Len(down) \in Nat
    BY <1>1
  <1>7. /\ conf' = conf /\ at' = at /\ attempt' = attempt /\ seq' = seq /\ cmd' = cmd
        /\ sent' = sent /\ broken' = broken
    BY DEF Vehicle, client, link
  <1> QED BY <1>2, <1>3, <1>4, <1>5, <1>6, <1>7

(* The vehicle's answers, and what they say about it. *)
Answer == down'[Len(down) + 1]

LEMMA Appended == ASSUME Inv, NEW m PROVE Append(down, m)[Len(down) + 1] = m
  <1>1. down \in Seq(DownMessage)
    BY DEF Inv, TypeOK
  <1> QED BY <1>1

LEMMA ClearAnswer ==
    ASSUME Inv, Vehicle, VehicleClears
    PROVE  /\ Head(up).kind = "clear" /\ stored' = 0 /\ obeyed' = obeyed
           /\ Answer.kind = "mission_ack" /\ Answer.of = "clear"
  <1>1. Answer = MissionAck("clear", TRUE)
    BY Appended DEF VehicleClears, Answer
  <1> QED BY <1>1 DEF VehicleClears, MissionAck

LEMMA CountAnswer ==
    ASSUME Inv, Vehicle, VehicleCounts
    PROVE  stored' = stored /\ obeyed' = obeyed /\ Answer.kind = "request"
  <1>1. Answer = Request(0)
    BY Appended DEF VehicleCounts, Answer
  <1> QED BY <1>1 DEF VehicleCounts, Request

LEMMA StoreAnswer ==
    ASSUME Inv, Vehicle, VehicleStores
    PROVE  /\ stored' \in {stored, conf.items} /\ obeyed' = obeyed
           /\ down' # down =>
                \/ Answer.kind = "request"
                \/ /\ Answer.kind = "mission_ack" /\ Answer.of = "upload"
                   /\ Answer.ok => stored' = conf.items
  <1>1. Count.n = conf.items
    <2>1. Valid(conf.items)
      BY DEF Inv, Refused, Vehicle
    <2>2. conf.items \in 0..U16Max /\ U16Max \in Nat
      BY <2>1, Numbers DEF Inv, Valid
    <2>3. conf.items % (U16Max + 1) = conf.items
      BY <2>2
    <2> QED BY <2>3 DEF Count
  <1>2. CASE UNCHANGED <<want, stored, down>>
    BY <1>2 DEF VehicleStores
  <1>3. CASE down' = Append(down, Request(want + 1)) /\ UNCHANGED stored
    <2>1. Answer = Request(want + 1)
      BY <1>3, Appended DEF Answer
    <2> QED BY <1>3, <2>1 DEF VehicleStores, Request
  <1>4. ASSUME NEW ok \in BOOLEAN, stored' = (IF ok THEN Count.n ELSE stored),
               down' = Append(down, MissionAck("upload", ok))
        PROVE  /\ stored' \in {stored, conf.items} /\ obeyed' = obeyed
               /\ Answer.kind = "mission_ack" /\ Answer.of = "upload"
               /\ Answer.ok => stored' = conf.items
    <2>1. Answer = MissionAck("upload", ok)
      BY <1>4, Appended DEF Answer
    <2>2. Answer.kind = "mission_ack" /\ Answer.of = "upload" /\ Answer.ok = ok
      BY <2>1 DEF MissionAck
    <2>3. obeyed' = obeyed
      BY DEF VehicleStores
    <2>4. CASE ok
      BY <1>1, <1>4, <2>2, <2>3, <2>4
    <2>5. CASE ~ok
      BY <1>4, <2>2, <2>3, <2>5
    <2> QED BY <2>4, <2>5
  <1> QED BY <1>2, <1>3, <1>4 DEF VehicleStores

LEMMA ObeyAnswer ==
    ASSUME Inv, Vehicle, VehicleObeys
    PROVE  /\ stored' = stored /\ Head(up).kind = "command"
           /\ Answer.kind = "command_ack" /\ Answer.cmd = Head(up).cmd
           /\ obeyed' = obeyed \/ obeyed' = obeyed \cup {Head(up).cmd}
           /\ Answer.ok => Head(up).cmd \in obeyed'
  <1>1. PICK ok \in BOOLEAN :
          /\ obeyed' = IF ok THEN obeyed \cup {Head(up).cmd} ELSE obeyed
          /\ down' = Append(down, CommandAck(Head(up).cmd, ok))
    BY DEF VehicleObeys
  <1>2. Answer = CommandAck(Head(up).cmd, ok)
    BY <1>1, Appended DEF Answer
  <1>3. Answer.kind = "command_ack" /\ Answer.cmd = Head(up).cmd /\ Answer.ok = ok
    BY <1>2 DEF CommandAck
  <1>4. CASE ok
    BY <1>1, <1>3, <1>4 DEF VehicleObeys
  <1>5. CASE ~ok
    BY <1>1, <1>3, <1>5 DEF VehicleObeys
  <1> QED BY <1>4, <1>5

LEMMA VehicleInv ==
    ASSUME Inv, Vehicle PROVE Inv'
  <1>0. /\ TypeOK /\ Refused /\ Untouched /\ Clears /\ ClearAcks /\ Numbering
        /\ UploadAcks /\ Orders /\ InOrder /\ Home /\ Recalled /\ MissionInForce
    BY DEF Inv
  <1>t. TypeOK'
    BY VehicleType
  <1>f. /\ up # <<>> /\ 1 \in 1..Len(up) /\ Len(down) \in Nat
        /\ \A i \in 1..Len(up') : i \in Nat /\ i + 1 \in 1..Len(up) /\ i + 1 # 1 /\ up'[i] = up[i + 1]
    BY VehicleFacts DEF Vehicle
  <1>g. \A i \in 1..Len(down') :
          \/ i \in 1..Len(down) /\ down'[i] = down[i]
          \/ down' # down /\ i = Len(down) + 1 /\ down'[i] = Answer
    BY VehicleFacts DEF Answer
  <1>c. VehicleClears => /\ conf.clear
                         /\ attempt = 0 => /\ down = <<>> /\ Len(down) = 0
                                          /\ at \in {"count", "request", "error"}
    BY <1>0, <1>f, ClearAnswer, VehicleFacts DEF Clears
  <1>a. VehicleClears \/ VehicleCounts \/ VehicleStores \/ VehicleObeys
    BY DEF Vehicle
  <1>1. Refused'
    BY <1>0, <1>f, VehicleFacts DEF Refused
  <1>2. Untouched'
    BY <1>0, <1>f, VehicleFacts DEF Untouched
  <1>3. Clears'
    BY <1>0, <1>f, VehicleFacts DEF Clears
  <1>4. ClearAcks'
    <2>1. CASE VehicleClears
      BY <1>0, <1>c, <1>g, <2>1, VehicleFacts DEF ClearAcks
    <2>2. CASE ~VehicleClears
      <3>1. down' # down => ~(Answer.kind = "mission_ack" /\ Answer.of = "clear")
        BY <1>a, <2>2, CountAnswer, StoreAnswer, ObeyAnswer
      <3> QED BY <1>0, <1>g, <3>1, VehicleFacts DEF ClearAcks
    <2> QED BY <2>1, <2>2
  <1>5. Numbering'
    BY <1>0, VehicleFacts DEF Numbering
  <1>6. UploadAcks'
    <2>1. CASE VehicleClears
      BY <1>0, <1>c, <1>g, <2>1, ClearAnswer, VehicleFacts DEF UploadAcks
    <2>2. CASE VehicleCounts
      BY <1>0, <1>g, <2>2, CountAnswer, VehicleFacts DEF UploadAcks
    <2>3. CASE VehicleStores
      BY <1>0, <1>g, <2>3, StoreAnswer, VehicleFacts DEF UploadAcks
    <2>4. CASE VehicleObeys
      BY <1>0, <1>g, <2>4, ObeyAnswer, VehicleFacts DEF UploadAcks
    <2> QED BY <1>a, <2>1, <2>2, <2>3, <2>4
  <1>7. Orders'
    <2>1. \A i \in 1..Len(up') : up'[i].kind = "command" => up'[i].cmd \in sent'
      BY <1>0, <1>f, VehicleFacts DEF Orders
    <2>2. CASE VehicleObeys
      <3>1. Head(up).cmd \in sent
        BY <1>0, <1>f, <2>2, ObeyAnswer, VehicleFacts DEF Orders
      <3> QED BY <1>0, <1>g, <2>1, <2>2, <3>1, ObeyAnswer, VehicleFacts DEF Orders
    <2>3. CASE ~VehicleObeys
      <3>1. obeyed' = obeyed /\ (down' # down => Answer.kind # "command_ack")
        BY <1>a, <2>3, ClearAnswer, CountAnswer, StoreAnswer
      <3> QED BY <1>0, <1>g, <2>1, <3>1, VehicleFacts DEF Orders
    <2> QED BY <2>2, <2>3
  <1>o. obeyed \subseteq obeyed'
    BY <1>a, ClearAnswer, CountAnswer, StoreAnswer, ObeyAnswer
  <1>8. InOrder'
    <2>1. Armed => Armed'
      BY <1>o, VehicleFacts DEF Armed
    <2> QED BY <1>0, <1>o, <2>1, VehicleFacts DEF InOrder
  <1>9. Home'
    <2>1. "rtl" \notin obeyed
      BY <1>0, <1>f DEF Home
    <2>2. "rtl" \in obeyed' => Len(up) = 1
      <3>1. CASE VehicleObeys
        BY <1>0, <1>f, <2>1, <3>1, ObeyAnswer, VehicleFacts DEF Home
      <3> QED BY <1>a, <2>1, <3>1, ClearAnswer, CountAnswer, StoreAnswer
    <2>3. \A i \in 1..Len(up') : up'[i].kind = "command" /\ up'[i].cmd = "rtl" =>
            i = Len(up') /\ Len(up) # 1
      BY <1>0, <1>f, VehicleFacts DEF Home
    <2> QED BY <1>0, <2>2, <2>3, VehicleFacts DEF Home
  <1>10. Recalled'
    BY <1>0, VehicleFacts DEF Recalled
  <1>11. MissionInForce'
    <2>1. CASE VehicleClears
      BY <1>c, <2>1, VehicleFacts DEF MissionInForce, Executing
    <2>2. CASE ~VehicleClears
      <3>1. stored' \in {stored, conf.items}
        BY <1>a, <2>2, CountAnswer, StoreAnswer, ObeyAnswer
      <3> QED BY <1>0, <3>1, VehicleFacts DEF MissionInForce
    <2> QED BY <2>1, <2>2
  <1> QED BY <1>t, <1>1, <1>2, <1>3, <1>4, <1>5, <1>6, <1>7, <1>8, <1>9, <1>10, <1>11 DEF Inv
-----------------------------------------------------------------------------
(* Repeated requests and lost messages. *)
LEMMA AskInv ==
    ASSUME Inv, VehicleAsksAgain PROVE Inv'
  <1>0. /\ TypeOK /\ Refused /\ Untouched /\ Clears /\ ClearAcks /\ Numbering
        /\ UploadAcks /\ Orders /\ InOrder /\ Home /\ Recalled /\ MissionInForce
    BY DEF Inv
  <1>t. TypeOK'
    BY LinkType
  <1>u. /\ conf' = conf /\ at' = at /\ attempt' = attempt /\ seq' = seq /\ cmd' = cmd
        /\ sent' = sent /\ broken' = broken /\ up' = up
        /\ want' = want /\ stored' = stored /\ obeyed' = obeyed /\ want # NoItem
    BY DEF VehicleAsksAgain, client, vehicle
  <1>1. \A i \in 1..Len(down') :
          \/ i \in 1..Len(down) /\ down'[i] = down[i]
          \/ down'[i].kind = "request"
    <2>1. down \in Seq(DownMessage) /\ down' = Append(down, Request(want))
      BY <1>0 DEF TypeOK, VehicleAsksAgain
    <2>2. /\ Len(down') = Len(down) + 1 /\ Len(down) \in Nat
          /\ \A i \in 1..Len(down) : down'[i] = down[i]
          /\ down'[Len(down) + 1] = Request(want)
      BY <2>1
    <2>3. Request(want).kind = "request"
      BY DEF Request
    <2> QED BY <2>2, <2>3
  <1>2. Untouched' /\ Clears'
    BY <1>0, <1>u DEF Untouched, Clears
  <1>3. ClearAcks' /\ UploadAcks' /\ Orders'
    BY <1>0, <1>u, <1>1 DEF ClearAcks, UploadAcks, Orders
  <1>4. Refused' /\ Numbering' /\ InOrder' /\ Home' /\ Recalled' /\ MissionInForce'
    BY <1>0, <1>u DEF Refused, Numbering, InOrder, Armed, Home, Recalled, MissionInForce
  <1> QED BY <1>t, <1>2, <1>3, <1>4 DEF Inv

LEMMA LoseInv ==
    ASSUME Inv, Lose PROVE Inv'
  <1>0. /\ TypeOK /\ Refused /\ Untouched /\ Clears /\ ClearAcks /\ Numbering
        /\ UploadAcks /\ Orders /\ InOrder /\ Home /\ Recalled /\ MissionInForce
    BY DEF Inv
  <1>t. TypeOK'
    BY LinkType
  <1>u. /\ UNCHANGED <<at, attempt, seq, cmd, broken>> /\ sent' = sent
        /\ UNCHANGED <<conf, want, stored, obeyed>>
    BY DEF Lose, client, vehicle
  <1>1. CASE \E k \in 1..Len(down) : down' = RemoveAt(down, k) /\ up' = up
    <2>1. PICK k \in 1..Len(down) : down' = RemoveAt(down, k) /\ up' = up
      BY <1>1
    <2>2. down \in Seq(DownMessage)
      BY <1>0 DEF TypeOK
    <2>a. Len(down) \in Nat /\ Len(down) >= 1
      BY <2>1, <2>2
    <2>b. /\ Len(RemoveAt(down, k)) = Len(down) - 1
          /\ \A i \in 1..(Len(down) - 1) :
               RemoveAt(down, k)[i] = IF i < k THEN down[i] ELSE down[i + 1]
      BY <2>1, <2>2, RemoveAtFacts, Zenon
    <2>3. /\ Len(down) \in Nat /\ Len(down) >= 1 /\ Len(down') = Len(down) - 1
          /\ \A i \in 1..(Len(down) - 1) : down'[i] = IF i < k THEN down[i] ELSE down[i + 1]
      BY <2>1, <2>a, <2>b, Zenon
    <2>4. \A i \in 1..Len(down') : \E j \in 1..Len(down) : i <= j /\ down'[i] = down[j]
      BY <2>3
    <2>5. Shrinks
      BY <2>2, <2>3, <2>4 DEF Shrinks
    <2> QED BY <1>t, <1>u, <2>1, <2>5, MoveInv DEF Move, Stay
  <1>2. CASE \E k \in 1..Len(up) : up' = RemoveAt(up, k) /\ down' = down
    <2>1. PICK k \in 1..Len(up) : up' = RemoveAt(up, k) /\ down' = down
      BY <1>2
    <2>2. up \in Seq(UpMessage)
      BY <1>0 DEF TypeOK
    <2>a. Len(up) \in Nat /\ Len(up) >= 1
      BY <2>1, <2>2
    <2>b. /\ Len(RemoveAt(up, k)) = Len(up) - 1
          /\ \A i \in 1..(Len(up) - 1) :
               RemoveAt(up, k)[i] = IF i < k THEN up[i] ELSE up[i + 1]
      BY <2>1, <2>2, RemoveAtFacts, Zenon
    <2>3. /\ Len(up) \in Nat /\ Len(up) >= 1 /\ Len(up') = Len(up) - 1
          /\ \A i \in 1..(Len(up) - 1) : up'[i] = IF i < k THEN up[i] ELSE up[i + 1]
      BY <2>1, <2>a, <2>b, Zenon
    <2>4. \A i \in 1..Len(up') : \E j \in 1..Len(up) :
            i <= j /\ up'[i] = up[j] /\ (j = Len(up) => i = Len(up'))
      <3>1. SUFFICES ASSUME NEW i \in 1..Len(up')
                     PROVE  \E j \in 1..Len(up) :
                              i <= j /\ up'[i] = up[j] /\ (j = Len(up) => i = Len(up'))
        OBVIOUS
      <3>2. CASE i < k
        BY <2>3, <3>2
      <3>3. CASE ~(i < k)
        <4>1. i + 1 \in 1..Len(up) /\ up'[i] = up[i + 1] /\ i <= i + 1
          BY <2>3, <3>3
        <4> QED BY <2>3, <4>1
      <3> QED BY <3>2, <3>3
    <2>5. up # <<>>
      BY <2>3
    <2>6. Refused' /\ Untouched' /\ ClearAcks' /\ Numbering' /\ UploadAcks' /\ InOrder'
          /\ Recalled' /\ MissionInForce'
      BY <1>0, <1>u, <2>1, <2>5 DEF Refused, Untouched, ClearAcks, Numbering, UploadAcks, InOrder, Armed,
         Recalled, MissionInForce
    <2>7. Clears'
      BY <1>0, <1>u, <2>1, <2>3, <2>4 DEF Clears
    <2>8. Orders'
      BY <1>0, <1>u, <2>1, <2>4 DEF Orders
    <2>9. Home'
      BY <1>0, <1>u, <2>4, <2>5 DEF Home
    <2> QED BY <1>t, <2>6, <2>7, <2>8, <2>9 DEF Inv
  <1> QED BY <1>1, <1>2 DEF Lose
-----------------------------------------------------------------------------
LEMMA StutterInv ==
    ASSUME Inv, UNCHANGED vars PROVE Inv'
  <1>1. /\ UNCHANGED <<conf, up, down>> /\ UNCHANGED <<at, attempt, seq, cmd, failing, sent>>
        /\ UNCHANGED <<want, stored, obeyed>> /\ UNCHANGED <<faults, broken>>
    BY DEF vars, client, vehicle, link
  <1>2. TypeOK'
    BY <1>1 DEF Inv, TypeOK, UpMessage, Count
  <1>3. Refused' /\ Untouched' /\ Clears' /\ ClearAcks' /\ Numbering' /\ UploadAcks'
    BY <1>1 DEF Inv, Refused, Untouched, Clears, ClearAcks, Numbering, UploadAcks
  <1>4. Orders' /\ InOrder' /\ Home' /\ Recalled' /\ MissionInForce'
    BY <1>1 DEF Inv, Orders, InOrder, Armed, Home, Recalled, MissionInForce
  <1> QED BY <1>2, <1>3, <1>4 DEF Inv

LEMMA NextInv ==
    ASSUME Inv, [Next]_vars PROVE Inv'
  <1>1. CASE Send
    BY <1>1, SendInv
  <1>2. CASE ConversionFails \/ Heartbeat \/ Timeout \/ ConnectionFails
    BY <1>2, SilentInv
  <1>3. CASE Receive
    BY <1>3, ReceiveInv
  <1>4. CASE Vehicle
    BY <1>4, VehicleInv
  <1>5. CASE VehicleAsksAgain
    BY <1>5, AskInv
  <1>6. CASE Lose
    BY <1>6, LoseInv
  <1>7. CASE Done \/ UNCHANGED vars
    BY <1>7, StutterInv DEF Done
  <1> QED BY <1>1, <1>2, <1>3, <1>4, <1>5, <1>6, <1>7 DEF Next, Client

LEMMA Invariance == Spec => []Inv
  BY InitInv, NextInv, PTL DEF Spec

(* The upload counts its attempts and the items within the options and the *)
(* u16 numbering, and no message has a number outside it.                  *)
THEOREM TypeCorrect == Spec => []TypeOK
  <1>1. Inv => TypeOK
    BY DEF Inv
  <1> QED BY <1>1, Invariance, PTL

(* A mission that execute_lifecycle flies is in force on the vehicle as a  *)
(* whole, except after a retried upload that clears the old mission first. *)
THEOREM MissionComplete == Spec => []MissionInForce
  <1>1. Inv => MissionInForce
    BY DEF Inv
  <1> QED BY <1>1, Invariance, PTL

(* Arm, take-off and start take effect in this order, however late answers *)
(* of wait_command_ack are.                                                *)
THEOREM OrderKept == Spec => []StartsInOrder
  <1>1. Inv => StartsInOrder
    BY DEF Inv, Orders, InOrder, Armed, StartsInOrder
  <1> QED BY <1>1, Invariance, PTL

(* No flight that may be in the air ends in an error without the abort of  *)
(* send_abort_command, unless the connection reported an error.            *)
THEOREM Recalls == Spec => []NotAbandoned
  <1>1. Inv => NotAbandoned
    BY DEF Inv, Orders, Recalled, NotAbandoned
  <1> QED BY <1>1, Invariance, PTL

(* The abort is the last command of execute_lifecycle that has an effect.  *)
THEOREM RtlFinal == Spec => RtlIsLast
  <1>1. ASSUME Inv, [Next]_vars, "rtl" \in obeyed PROVE obeyed' = obeyed
    <2>1. up = <<>>
      BY <1>1 DEF Inv, Home
    <2>2. ~Vehicle
      BY <2>1 DEF Vehicle
    <2> QED BY <1>1, <2>2 DEF Next, Client, Send, ConversionFails, Heartbeat, Receive, Timeout,
            ConnectionFails, VehicleAsksAgain, Lose, Done, vars, vehicle
  <1>2. Inv /\ [Next]_vars => [~("rtl" \in obeyed /\ obeyed' # obeyed)]_vars
    BY <1>1
  <1> QED BY <1>2, Invariance, PTL DEF Spec, RtlIsLast
-----------------------------------------------------------------------------
(* The flight keeps the contract.  What the properties above do not say:   *)
(* where the client is after a start that was accepted, and that take-off  *)
(* is only ever asked of an armed vehicle.                                 *)
Started ==
    /\ at = "post" => "start" \in obeyed
    /\ Commanding /\ cmd = "rtl" /\ ~failing => "start" \in obeyed
    /\ "takeoff" \in sent => Armed

(* Only the vehicle changes what it obeyed, and only a sent command what   *)
(* was sent.                                                               *)
LEMMA ClientKeeps ==
    ASSUME ConversionFails \/ Heartbeat \/ Timeout \/ ConnectionFails \/ Receive
    PROVE  conf' = conf /\ sent' = sent /\ obeyed' = obeyed
  <1>1. conf' = conf /\ obeyed' = obeyed
    BY DEF ConversionFails, Heartbeat, Timeout, ConnectionFails, Receive, vehicle
  <1>2. (\E w : Goto(w)) \/ Retry \/ Uploaded \/ (\E e : Abort(e)) \/ Accepted \/ NotAccepted
          => sent' = sent
    BY DEF Goto, Retry, Uploaded, Abort, Accepted, NotAccepted
  <1>3. CASE Receive
    BY <1>1, <1>2, <1>3 DEF Receive, Answered, client
  <1> QED BY <1>1, <1>2, <1>3 DEF ConversionFails, Heartbeat, Timeout, ConnectionFails

LEMMA StartedStep ==
    ASSUME Inv, Started, [Next]_vars PROVE Started'
  <1>0. TypeOK /\ Orders /\ InOrder
    BY DEF Inv
  <1>1. CASE Send
    <2>1. obeyed' = obeyed /\ conf' = conf
      BY <1>1 DEF Send, vehicle
    <2>2. CASE SendCommand
      BY <1>0, <2>1, <2>2 DEF SendCommand, Started, Commanding, InOrder, Armed
    <2>3. CASE SendClear \/ SendCount \/ SendItem
      BY <2>1, <2>3 DEF SendClear, SendCount, SendItem, Goto, Started, Commanding, Armed
    <2> QED BY <1>1, <2>2, <2>3 DEF Send
  <1>2. CASE ConversionFails \/ Heartbeat \/ Timeout \/ ConnectionFails
    <2>1. conf' = conf /\ sent' = sent /\ obeyed' = obeyed
      BY <1>2, ClientKeeps
    <2>2. CASE ConversionFails
      BY <2>1, <2>2 DEF ConversionFails, Goto, Started, Commanding, Armed
    <2>3. CASE Heartbeat
      BY <2>1, <2>3 DEF Heartbeat, Goto, Abort, Started, Commanding, Armed
    <2>4. CASE Timeout
      BY <2>1, <2>4 DEF Timeout, Retry, NotAccepted, Goto, Abort, Started, Commanding, Armed
    <2>5. CASE ConnectionFails
      BY <2>1, <2>5 DEF ConnectionFails, Retry, NotAccepted, Goto, Abort, Started, Commanding, Armed
    <2> QED BY <1>2, <2>2, <2>3, <2>4, <2>5
  <1>3. CASE Receive
    <2>1. conf' = conf /\ sent' = sent /\ obeyed' = obeyed
      BY <1>3, ClientKeeps
    <2>2. CASE ~Matches(Head(down))
      BY <1>3, <2>1, <2>2 DEF Receive, client, Started, Commanding, Armed
    <2>3. CASE Matches(Head(down)) /\ at = "request"
      BY <1>3, <2>1, <2>3 DEF Receive, Answered, Goto, Started, Commanding, Armed
    <2>4. CASE Matches(Head(down)) /\ at = "ack"
      BY <1>3, <2>1, <2>4 DEF Receive, Answered, Goto, Uploaded, Started, Commanding, Armed
    <2>5. CASE Matches(Head(down)) /\ at = "command_ack"
      <3>1. IF Head(down).ok THEN Accepted ELSE NotAccepted
        BY <1>3, <2>5 DEF Receive, Answered
      <3>2. CASE ~Head(down).ok
        BY <2>1, <2>5, <3>1, <3>2 DEF NotAccepted, Goto, Abort, Started, Commanding, Armed
      <3>3. CASE Head(down).ok
        <4>1. down \in Seq(DownMessage) /\ down # <<>>
          BY <1>0, <1>3 DEF TypeOK, Receive
        <4>2. 1 \in 1..Len(down) /\ Head(down) = down[1]
          BY <4>1, HeadTailProperties
        <4>3. cmd \in obeyed
          BY <1>0, <2>5, <3>3, <4>2 DEF Matches, Orders
        <4> QED BY <2>1, <2>5, <3>1, <3>3, <4>3 DEF Accepted, Goto, Started, Commanding, Armed
      <3> QED BY <3>2, <3>3
    <2> QED BY <2>2, <2>3, <2>4, <2>5 DEF Matches
  <1>4. CASE Vehicle
    <2>1. UNCHANGED <<conf, at, cmd, failing, sent>>
      BY <1>4 DEF Vehicle, client
    <2>2. obeyed \subseteq obeyed'
      BY <1>4 DEF Vehicle, VehicleClears, VehicleCounts, VehicleStores, VehicleObeys
    <2> QED BY <2>1, <2>2 DEF Started, Commanding, Armed
  <1>5. CASE VehicleAsksAgain \/ Lose \/ Done \/ UNCHANGED vars
    <2>1. UNCHANGED <<conf, at, cmd, failing, sent, obeyed>>
      BY <1>5 DEF VehicleAsksAgain, Lose, Done, vars, client, vehicle
    <2> QED BY <2>1 DEF Started, Commanding, Armed
  <1> QED BY <1>1, <1>2, <1>3, <1>4, <1>5 DEF Next, Client

LEMMA ClientKeepsContract ==
    ASSUME Inv, Inv', Started, ConversionFails \/ Heartbeat \/ Timeout \/ ConnectionFails \/ Receive
    PROVE  [Promise!Step]_(Promise!contract)
  <1>0. conf' = conf /\ sent' = sent /\ obeyed' = obeyed
    BY ClientKeeps
  <1>1. at \notin Ended
    BY DEF ConversionFails, Heartbeat, Timeout, ConnectionFails, Receive, Waiting, Uploading, Ended
  <1>2. broken' \in {broken, TRUE}
    BY DEF ConversionFails, Heartbeat, Timeout, ConnectionFails, Receive, link
  <1>3. at' \in Uploading \cup Executing \cup Ended
    BY DEF Inv, TypeOK
  <1>4. ASSUME at' = "error", broken' = broken PROVE "takeoff" \in obeyed => "rtl" \in sent \/ broken
    BY <1>0, <1>4 DEF Inv, Recalled, Orders
  <1>5. ASSUME at' = "ok" PROVE "start" \in obeyed /\ broken' = broken
    <2>1. CASE Heartbeat
      BY <1>5, <2>1 DEF Heartbeat, Goto, Abort, Started, link
    <2>2. CASE Receive
      <3>1. at = "command_ack" /\ cmd = "rtl" /\ ~failing
        BY <1>1, <1>5, <2>2 DEF Receive, client, Answered, Goto, Uploaded, Accepted, NotAccepted, Abort, Ended
      <3> QED BY <2>2, <3>1 DEF Receive, link, Started, Commanding
    <2>3. CASE ConversionFails \/ Timeout \/ ConnectionFails
      BY <1>1, <1>5, <2>3 DEF ConversionFails, Timeout, ConnectionFails, Goto, Retry, Abort, NotAccepted, Ended
    <2> QED BY <2>1, <2>2, <2>3
  <1>6. CASE at' \notin Ended /\ broken' = broken
    BY <1>0, <1>1, <1>6 DEF Promise!contract
  <1>7. CASE at' = "ok"
    <2>1. Promise!Succeed
      BY <1>0, <1>1, <1>5, <1>7 DEF Promise!Succeed, Ended
    <2> QED BY <2>1 DEF Promise!Step
  <1>8. CASE at' = "error" /\ broken' = broken
    <2>1. Promise!GiveUp
      BY <1>0, <1>1, <1>4, <1>8 DEF Promise!GiveUp, Ended
    <2> QED BY <2>1 DEF Promise!Step
  <1>9. CASE at' # "ok" /\ broken' = TRUE
    <2>1. Promise!Break
      BY <1>0, <1>1, <1>9 DEF Promise!Break, Ended
    <2> QED BY <2>1 DEF Promise!Step
  <1> QED BY <1>2, <1>6, <1>7, <1>8, <1>9 DEF Ended

LEMMA SendKeepsContract ==
    ASSUME Inv, Send
    PROVE  [Promise!Step]_(Promise!contract)
  <1>1. at \notin Ended /\ at' \notin Ended
    BY DEF Send, SendClear, SendCount, SendItem, SendCommand, Goto, Ended
  <1>2. conf' = conf /\ obeyed' = obeyed /\ broken' = broken
    BY DEF Send, vehicle, link
  <1>3. sent' = sent \/ (SendCommand /\ sent' = sent \cup {cmd})
    BY DEF Send, SendClear, SendCount, SendItem, SendCommand, Goto
  <1>4. CASE ("rtl" \in sent') = ("rtl" \in sent)
    BY <1>1, <1>2, <1>4 DEF Promise!contract
  <1>5. CASE ("rtl" \in sent') # ("rtl" \in sent)
    <2>1. "rtl" \in sent' /\ "rtl" \notin sent
      BY <1>3, <1>5
    <2>2. Promise!Recall
      BY <1>1, <1>2, <2>1 DEF Promise!Recall
    <2> QED BY <2>2 DEF Promise!Step
  <1> QED BY <1>4, <1>5

LEMMA VehicleKeepsContract ==
    ASSUME Inv, Started, Vehicle
    PROVE  [Promise!Step]_(Promise!contract)
  <1>0. Orders /\ InOrder /\ Home /\ Recalled
    BY DEF Inv
  <1>1. UNCHANGED <<conf, at, sent, broken>>
    BY DEF Vehicle, client, link
  <1>2. CASE obeyed' = obeyed
    BY <1>1, <1>2 DEF Promise!contract
  <1>3. CASE obeyed' # obeyed
    <2>1. VehicleObeys
      BY <1>3 DEF Vehicle, VehicleClears, VehicleCounts, VehicleStores
    <2>2. obeyed' = obeyed \cup {Head(up).cmd} /\ Head(up).kind = "command"
      BY <1>3, <2>1, ObeyAnswer
    <2>3. 1 \in 1..Len(up) /\ up[1] = Head(up) /\ up # <<>> /\ Head(up) \in UpMessage
      BY VehicleFacts, HeadTailProperties DEF Vehicle, Inv, TypeOK
    <2>4. Head(up).cmd \in sent /\ "rtl" \notin obeyed
      BY <1>0, <2>2, <2>3 DEF Orders, Home
    <2>5. Head(up).cmd \in Commands
      BY <2>4 DEF Inv, TypeOK
    <2>6. Promise!Before(Head(up).cmd)
      <3>1. CASE Head(up).cmd = "arm"
        BY <3>1 DEF Promise!Before
      <3>2. CASE Head(up).cmd = "takeoff"
        BY <2>4, <3>2 DEF Promise!Before, Started, Armed
      <3>3. CASE Head(up).cmd = "start"
        BY <1>0, <2>4, <3>3 DEF Promise!Before, InOrder
      <3>4. CASE Head(up).cmd = "rtl"
        BY <2>4, <3>4 DEF Promise!Before
      <3> QED BY <2>5, <3>1, <3>2, <3>3, <3>4 DEF Commands
    <2>7. Promise!Obey(Head(up).cmd)
      BY <1>0, <1>1, <2>2, <2>4, <2>6 DEF Promise!Obey, Recalled
    <2> QED BY <2>5, <2>7 DEF Promise!Step, Commands
  <1> QED BY <1>2, <1>3

(* Every flight of upload_and_execute keeps the contract: it implements    *)
(* FlightContract, with what the vehicle obeyed, the recall, the errors of *)
(* the connection and the verdict as its state.                            *)
THEOREM ContractKept == Spec => KeepsContract
  <1>1. Init => Promise!Start
    BY DEF Init, Promise!Start, Configuration, Ended
  <1>2. Init => Started
    BY DEF Init, Started, Commanding
  <1>3. ASSUME Inv, Inv', Started, [Next]_vars PROVE [Promise!Step]_(Promise!contract)
    <2>1. CASE VehicleAsksAgain \/ Lose \/ Done \/ UNCHANGED vars
      <3>1. UNCHANGED <<conf, at, sent, obeyed, broken>>
        BY <2>1 DEF VehicleAsksAgain, Lose, Done, vars, client, vehicle, link
      <3> QED BY <3>1 DEF Promise!contract
    <2> QED BY <1>3, <2>1, ClientKeepsContract, SendKeepsContract, VehicleKeepsContract DEF Next, Client
  <1>4. Spec => []Started
    BY <1>2, StartedStep, Invariance, PTL DEF Spec
  <1> QED BY <1>1, <1>3, <1>4, Invariance, PTL DEF Spec, KeepsContract, Promise!Contract
=============================================================================
