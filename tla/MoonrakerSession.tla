------------------------------- MODULE MoonrakerSession -------------------------------
(***************************************************************************)
(* The Moonraker driver (core/driver/moonraker/driver.rs): one worker that *)
(* opens a status session, keeps a map of what the printer has told it,    *)
(* publishes what that decodes to, and opens the next session when one     *)
(* ends.  A session runs over the open WebSocket (moonraker/session.rs) or *)
(* over a paired printer's MQTT bus (snapmaker/mqtt_status.rs).            *)
(*                                                                         *)
(* A status map is object -> field -> value.  The printer answers the      *)
(* subscription with everything it has and then reports what changes.  An  *)
(* object it does not have is an empty one.                                *)
(***************************************************************************)
EXTENDS Naturals, Sequences, FiniteSets

CONSTANTS
    Toolheads,          \* how many extruders the printer has ...
    MaxToolheads,       \* ... and how many are asked for
    KlipperStates,      \* the values of print_stats.state that occur
    Filaments,          \* what may be loaded in the toolheads
    Changes             \* how often the printer and the user do something

ASSUME ToolheadsAssumption ==
    Toolheads \in 1..MaxToolheads /\ MaxToolheads \in 1..4 /\ Changes \in Nat

VARIABLES
    transport,          \* "ws" or "mqtt"
    printer,            \* <<object, field>> -> value
    power,              \* "up", "closed": it said so, or "dark": it did not
    phase,              \* where the worker is
    aborted,            \* it was told to end, but may be in the middle of a step
    wire,               \* what is on its way to the session
    status,             \* the session's map
    slot,               \* whether there is a control handle
    shown,              \* the published status
    left                \* of Changes

sessionVars == <<transport, printer, power, phase, aborted, wire, status, slot, shown, left>>

Extruder(n) == <<"extruder", "extruder1", "extruder2", "extruder3">>[n]
Fields ==
    {<<"print_stats", "state">>, <<"print_task_config", "filament_type">>}
    \cup {<<Extruder(n), f>> : n \in 1..Toolheads, f \in {"temperature", "target"}}
Objects == {"print_stats", "print_task_config"} \cup {Extruder(n) : n \in 1..MaxToolheads}
ValuesOf(f) ==
    IF f[2] = "state" THEN KlipperStates ELSE IF f[2] = "filament_type" THEN Filaments ELSE {0, 200}
FieldsOf(o) == {x[2] : x \in {y \in Fields : y[1] = o}}
Snapshot == [o \in Objects |-> [f \in FieldsOf(o) |-> printer[<<o, f>>]]]
\* What notify_status_update says of one field.
Patch(f, v) == [o \in {f[1]} |-> [x \in {f[2]} |-> v]]

(***************************************************************************)
(* What the status map says (moonraker/status.rs).                         *)
(***************************************************************************)
Nothing == [o \in {} |-> <<>>]
Get(map, object, field, none) ==
    IF object \in DOMAIN map /\ field \in DOMAIN map[object] THEN map[object][field] ELSE none

\* decode_state
JobOf(map) ==
    LET raw == Get(map, "print_stats", "state", "")
        names == [standby |-> "Idle", printing |-> "Printing", paused |-> "Paused",
                  complete |-> "Finished"]
    IN IF raw = "" THEN "none" ELSE IF raw \in DOMAIN names THEN names[raw] ELSE "Failed"

\* extruders: one that reports no temperature is not there.
Extruders(map) ==
    {n \in 1..MaxToolheads : Extruder(n) \in DOMAIN map /\ "temperature" \in DOMAIN map[Extruder(n)]}

\* decode_temps: in their order, with no gap for one that is not there.
Nozzles(map) ==
    LET nth(k) == CHOOSE n \in Extruders(map) : Cardinality({m \in Extruders(map) : m <= n}) = k
    IN [k \in 1..Cardinality(Extruders(map)) |->
          <<Get(map, Extruder(nth(k)), "temperature", 0), Get(map, Extruder(nth(k)), "target", 0)>>]

Decode(map, connection) ==
    [job |-> JobOf(map), nozzles |-> Nozzles(map),
     filaments |-> Get(map, "print_task_config", "filament_type", <<>>), connection |-> connection]

ResolveU1(current, filament) ==
    IF filament = "" THEN <<"", "">>
    ELSE IF current[2] = filament THEN current ELSE <<"generic", filament>>

\* merge_status_into: object by object, field by field.
Overlay(f, g) == [x \in DOMAIN f \cup DOMAIN g |-> IF x \in DOMAIN f THEN f[x] ELSE g[x]]
MergeStatus(into, update) ==
    [o \in DOMAIN into \cup DOMAIN update |->
        IF o \in DOMAIN into /\ o \in DOMAIN update THEN Overlay(update[o], into[o])
        ELSE IF o \in DOMAIN update THEN update[o] ELSE into[o]]

Publish(connection, map) == shown' = Decode(map, connection)
Keep(connection) == shown' = [shown EXCEPT !.connection = connection]

SessionInit ==
    /\ transport \in {"ws", "mqtt"}
    /\ printer = [f \in Fields |-> CASE f[2] = "state" -> "standby"
                                     [] f[2] = "filament_type" -> [n \in 1..Toolheads |-> ""]
                                     [] OTHER -> 0]
    /\ power = "up" /\ phase = "off" /\ aborted = FALSE /\ wire = <<>> /\ status = Nothing
    /\ slot = FALSE /\ left = Changes
    /\ shown = Decode(Nothing, "disconnected")

Change == left > 0 /\ left' = left - 1

\* connect: the probe first; one that fails leaves no worker behind.  By its
\* answer a worker that was aborted before has ended.
SessionConnect ==
    /\ Change /\ phase = "off"
    /\ phase' = IF power = "up" THEN "dialing" ELSE "off"
    /\ Keep("connecting")
    /\ UNCHANGED <<transport, printer, power, aborted, wire, status, slot>>

\* The end of a session, or of the attempt at one: the worker waits (for how
\* long, see DriverConnection).
End ==
    /\ phase' = "waiting" /\ wire' = <<>> /\ slot' = FALSE
    /\ Keep("reconnecting")
    /\ UNCHANGED <<transport, printer, power, status, left>>

Dial ==
    /\ phase = "dialing" /\ power = "up"
    /\ phase' = "subscribing" /\ status' = Nothing /\ wire' = <<>>
    /\ UNCHANGED <<transport, printer, power, slot, shown, left>>
Retry ==
    /\ phase = "waiting" /\ phase' = "dialing" /\ Keep("connecting")
    /\ UNCHANGED <<transport, printer, power, wire, status, slot, left>>

\* send_subscribe: the WebSocket session skips what comes before the reply,
\* the MQTT one merges it.
Early ==
    /\ phase = "subscribing" /\ wire # <<>> /\ Head(wire).kind = "notify" /\ wire' = Tail(wire)
    /\ status' = IF transport = "mqtt" THEN MergeStatus(status, Head(wire).map) ELSE status
    /\ UNCHANGED <<transport, printer, power, phase, slot, shown, left>>
Subscribed ==
    /\ phase = "subscribing" /\ wire # <<>> /\ Head(wire).kind = "reply" /\ wire' = Tail(wire)
    /\ status' = MergeStatus(status, Head(wire).map)
    /\ phase' = "live" /\ slot' = TRUE
    /\ Publish("connected", status')
    /\ UNCHANGED <<transport, printer, power, left>>

\* next_status
NextStatus ==
    /\ phase = "live" /\ wire # <<>> /\ wire' = Tail(wire)
    /\ status' = MergeStatus(status, Head(wire).map)
    /\ Publish("connected", status')
    /\ UNCHANGED <<transport, printer, power, phase, slot, left>>

\* mutant: the bus is read without a keepalive too
NoticesNothing == power = "closed"

\* A link that is closed ends the session; one that has gone dark is noticed by
\* MQTT's keepalive, and by nothing on the WebSocket.
Notices == power = "closed" \/ (power = "dark" /\ transport = "mqtt")
\* An attempt is bounded, so one at a printer that is not up fails; a printer
\* that is up answers in time.
Lost ==
    \/ phase \in {"dialing", "subscribing"} /\ power # "up" /\ (phase = "subscribing" => wire = <<>>)
    \/ phase = "live" /\ wire = <<>> /\ Notices
LinkLost == Lost /\ End

\* disconnect: the task is aborted and not waited for.  What it does before its
\* next await still happens: it may publish after this, and hand out the
\* control handle of a session it has just opened.
SessionDisconnect ==
    /\ Change
    /\ \/ aborted' = FALSE /\ phase' = "off"
       \/ phase # "off" /\ aborted' = TRUE /\ UNCHANGED phase
    /\ slot' = FALSE /\ Keep("disconnected")
    /\ UNCHANGED <<transport, printer, power, wire, status>>
Opening == phase = "subscribing" /\ wire # <<>> /\ Head(wire).kind = "reply"
Aborted ==
    /\ aborted /\ aborted' = FALSE /\ phase' = "off"
    /\ \/ UNCHANGED <<slot, shown>>
       \/ /\ Opening \/ (phase = "live" /\ wire # <<>>)
          /\ Publish("connected", MergeStatus(status, Head(wire).map))
          /\ slot' = Opening
       \/ Lost /\ slot' = FALSE /\ Keep("reconnecting")
       \/ phase = "waiting" /\ Keep("connecting") /\ UNCHANGED slot
    /\ UNCHANGED <<transport, printer, power, wire, status, left>>

(***************************************************************************)
(* The printer.                                                            *)
(***************************************************************************)
Listening == phase \in {"subscribing", "live"}
Reply ==
    /\ phase = "subscribing" /\ power = "up" /\ \A i \in DOMAIN wire : wire[i].kind # "reply"
    /\ wire' = Append(wire, [kind |-> "reply", map |-> Snapshot])
    /\ UNCHANGED <<transport, printer, power, phase, aborted, status, slot, shown, left>>
PrinterChanges(f) ==
    /\ Change /\ power = "up"
    /\ \E v \in ValuesOf(f) \ {printer[f]} :
          /\ printer' = [printer EXCEPT ![f] = v]
          /\ wire' = IF Listening
                     THEN Append(wire, [kind |-> "notify", map |-> Patch(f, v)])
                     ELSE wire
    /\ UNCHANGED <<transport, power, phase, aborted, status, slot, shown>>
PowerChanges ==
    /\ Change
    /\ \/ power = "up" /\ power' \in {"closed", "dark"} /\ UNCHANGED wire
       \/ power # "up" /\ ~Listening /\ power' = "up" /\ UNCHANGED wire
    /\ UNCHANGED <<transport, printer, phase, aborted, status, slot, shown>>

Worker ==
    \/ /\ ~aborted /\ UNCHANGED aborted
       /\ Dial \/ Retry \/ Early \/ Subscribed \/ NextStatus \/ LinkLost
    \/ Aborted
SessionNext ==
    \/ SessionConnect \/ SessionDisconnect \/ Worker \/ Reply
    \/ \E f \in Fields : PrinterChanges(f)
    \/ PowerChanges
SessionSpec == SessionInit /\ [][SessionNext]_sessionVars
SessionFairness == WF_sessionVars(Worker) /\ WF_sessionVars(Reply)

(***************************************************************************)
(* Properties.                                                             *)
(***************************************************************************)
\* A session at work can be controlled.  A handle that an aborted worker left
\* behind is gone with the end of the next attempt.
SessionTypeOK ==
    /\ phase \in {"off", "dialing", "subscribing", "live", "waiting"}
    /\ shown.connection \in {"disconnected", "connecting", "connected", "reconnecting"}
    /\ DOMAIN status \subseteq Objects
    /\ aborted => phase # "off" /\ shown.connection = "disconnected"
    /\ phase = "live" /\ ~aborted => slot
    /\ slot => ~aborted /\ phase # "waiting"

\* Once a live session has read what is on the wire, the page is shown exactly
\* what the printer is at: every toolhead it has and no other, its job, and the
\* filaments in it, however the reports were cut into patches.
StatusIsFaithful ==
    phase = "live" /\ wire = <<>> =>
        /\ shown.job = JobOf(Snapshot) /\ shown.filaments = printer[<<"print_task_config", "filament_type">>]
        /\ shown.nozzles = [n \in 1..Toolheads |-> <<printer[<<Extruder(n), "temperature">>],
                                                     printer[<<Extruder(n), "target">>]>>]

\* A sync from what is shown leaves each slot with the material the printer
\* reports, and touches no pick of that material.
SlotsFollowToolheads ==
    \A n \in DOMAIN shown.filaments, own \in {"", "PLA", "PETG"} :
        LET slotAfter == ResolveU1(<<"own", own>>, shown.filaments[n])
        IN /\ slotAfter[2] = shown.filaments[n]
           /\ (own = shown.filaments[n] /\ own # "") => slotAfter[1] = "own"

\* A worker that is left alone gets there: it is connected to a printer that
\* stays up, and shows no connection to one that is gone (over MQTT: the
\* WebSocket session has no keepalive and never notices one that went dark).
WorkerSettles ==
    <>[](\/ phase = "off"
         \/ power = "up" /\ phase = "live"
         \/ power # "up" /\ shown.connection # "connected"
         \/ power = "dark" /\ transport = "ws" /\ phase = "live")

(* What a session shows is what the printer is at, over dropped links, new sessions *)
(* and patches that come before the answer, and its worker ends up connected or     *)
(* stopped (session.rs:245, driver.rs:193 disconnect).                              *)
SessionFollows == [](SessionTypeOK /\ StatusIsFaithful /\ SlotsFollowToolheads) /\ WorkerSettles
=======================================================================================
