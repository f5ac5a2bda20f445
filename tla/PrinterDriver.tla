---------------------------- MODULE PrinterDriver ----------------------------
(***************************************************************************)
(* What the application asks of one connected printer driver               *)
(* (driver/commands.rs): sending a sliced plate, cancelling the upload,    *)
(* pause / resume / stop, and a Bambu pressure-advance calibration.  They  *)
(* run as concurrent commands, hold the driver's RwLock for reading while  *)
(* they talk to the printer, and meet DriverConnection's tasks in the      *)
(* request queue and in the watch channel.                                 *)
(***************************************************************************)
EXTENDS DriverConnection

CONSTANTS Commands   \* the commands to check: "pause", "resume", "stop", "cali"

ASSUME CommandsAssumption == Commands \subseteq {"pause", "resume", "stop", "cali"}

VARIABLES sendPc,     \* where each send call is; it ends in an outcome
          armed,      \* the send whose cancel token is registered, or "none"
          fired,      \* that token has been cancelled
          unanswered, \* sends cancelled after the printer had the request
          cmd         \* the command call: [op, pc, started, settled, target]

sendVars == <<sendPc, armed, fired, unanswered>>
driverVars == <<connVars, sendVars, cmd>>

Outcomes == {"ok", "err", "cancelled", "rejected"}
Uploading == {"lock", "pushK", "upload", "publish", "script", "answer"}

NoCommand == [op |-> "none", pc |-> "idle", started |-> FALSE, settled |-> TRUE,
              target |-> "none"]

DriverInit ==
    /\ ConnInit
    /\ sendPc = [s \in Sends |-> "idle"] /\ armed = "none" /\ fired = FALSE
    /\ unanswered = {} /\ cmd = NoCommand

connUnlocked == <<fixed, life, linkVars, workVars, chanVars, raw, drops, notes>>

(***************************************************************************)
(* driver_send_plate and driver_send_pa_calibration.                       *)
(***************************************************************************)
Goto(s, pc) == sendPc' = [sendPc EXCEPT ![s] = pc]

\* Dropping the guard frees the slot; dropping the read guard frees the lock.
Finish(s, outcome) ==
    /\ Goto(s, outcome)
    /\ armed' = "none" /\ fired' = FALSE
    /\ readers' = readers \ {s}

\* The page offers Send on a connected, idle printer.
IssueSend(s) ==
    /\ sendPc[s] = "idle" /\ purpose = "live" /\ life = "up"
    /\ shown.conn = "Connected" /\ Idle(shown.job)
    /\ Goto(s, "payload")
    /\ UNCHANGED <<connVars, armed, fired, unanswered, cmd>>

\* kind() under a short read lock, then the payload: a slow file read.
PayloadFails(s) ==
    /\ sendPc[s] = "payload" /\ CanRead /\ Goto(s, "err")
    /\ UNCHANGED <<connVars, armed, fired, unanswered, cmd>>

Arm(s) ==
    /\ sendPc[s] = "payload" /\ CanRead
    /\ IF armed = "none"
         THEN armed' = s /\ fired' = FALSE /\ Goto(s, "lock")
         ELSE UNCHANGED <<armed, fired>> /\ Goto(s, "rejected")
    /\ UNCHANGED <<connVars, unanswered, cmd>>
\* Bambu pushes the stored K values first, unless the printer calibrates.
LockForSend(s) ==
    /\ sendPc[s] = "lock" /\ CanRead
    /\ readers' = readers \cup {s}
    /\ \E pushK \in {FALSE} \cup {kind = "bambu"} : Goto(s, IF pushK THEN "pushK" ELSE "upload")
    /\ UNCHANGED <<connUnlocked, reqs, printer, armed, fired, unanswered, cmd>>

\* Best effort (the table read before it is part of the step): a failed push
\* is logged and the print goes on.  The cancel token is not looked at here.
PushK(s) ==
    /\ sendPc[s] = "pushK" /\ Goto(s, "upload")
    /\ IF HasClient THEN Len(reqs) < ReqCap /\ reqs' = Append(reqs, "setK")
                    ELSE UNCHANGED reqs
    /\ UNCHANGED <<connUnlocked, readers, printer, armed, fired, unanswered, cmd>>

\* The file is on the printer.  Plain Moonraker starts it with the upload.
Upload(s) ==
    /\ sendPc[s] = "upload" /\ printer.up
    /\ IF kind = "bambu" THEN HasClient ELSE ~printer.owed
    /\ CASE kind = "bambu"     -> Goto(s, "publish") /\ UNCHANGED printer
         [] kind = "u1"        -> Goto(s, "script") /\ UNCHANGED printer
         [] kind = "moonraker" -> Goto(s, "answer") /\ Obeys(s)
    /\ UNCHANGED <<connUnlocked, readers, reqs, armed, fired, unanswered, cmd>>

\* mutant: the start is published but the send waits on, still cancellable
PublishStartEarly(s) ==
    /\ sendPc[s] = "publish" /\ Len(reqs) < ReqCap
    /\ reqs' = Append(reqs, s) /\ Goto(s, "script")
    /\ UNCHANGED <<readers, armed, fired>>
    /\ UNCHANGED <<connUnlocked, printer, unanswered, cmd>>

\* Bambu: project_file goes to the request queue, and the send is over.
PublishStart(s) ==
    /\ sendPc[s] = "publish" /\ Len(reqs) < ReqCap
    /\ reqs' = Append(reqs, s) /\ Finish(s, "ok")
    /\ UNCHANGED <<connUnlocked, printer, unanswered, cmd>>
\* U1: the vendor macro starts the uploaded file.
StartScript(s) ==
    /\ sendPc[s] = "script" /\ printer.up /\ ~printer.owed
    /\ Goto(s, "answer") /\ Obeys(s)
    /\ UNCHANGED <<connUnlocked, readers, reqs, armed, fired, unanswered, cmd>>

Answered(s) ==
    /\ sendPc[s] = "answer" /\ Finish(s, "ok")
    /\ UNCHANGED <<connUnlocked, reqs, printer, unanswered, cmd>>

\* A refused, lost or timed-out transfer; the answer itself may be what is lost.
SendFails(s) ==
    /\ sendPc[s] \in {"upload", "script", "answer"} /\ Finish(s, "err")
    /\ UNCHANGED <<connUnlocked, reqs, printer, unanswered, cmd>>

\* driver_send_cancel: a no-op unless a send is armed.
Cancel ==
    /\ armed # "none" /\ ~fired /\ fired' = TRUE
    /\ UNCHANGED <<connVars, sendPc, armed, unanswered, cmd>>

\* The select! takes the cancelled branch and drops the send future.
CancelWins(s) ==
    /\ armed = s /\ fired /\ sendPc[s] \in {"upload", "publish", "script", "answer"}
    /\ unanswered' = IF sendPc[s] = "answer" THEN unanswered \cup {s} ELSE unanswered
    /\ Finish(s, "cancelled")
    /\ UNCHANGED <<connUnlocked, reqs, printer, cmd>>

(***************************************************************************)
(* driver_command and driver_calibrate_pa_bambu.                           *)
(***************************************************************************)
Step(pc) == cmd' = [cmd EXCEPT !.pc = pc]
CommandEnds(pc) == readers' = readers \ {"command"} /\ Step(pc)

IssueCommand(op) ==
    /\ cmd.pc = "idle" /\ purpose = "live" /\ life = "up"
    /\ op = "cali" => kind = "bambu"
    /\ cmd' = [NoCommand EXCEPT !.op = op, !.pc = "lock"]
    /\ UNCHANGED <<connVars, sendVars>>

LockForCommand ==
    /\ cmd.pc = "lock" /\ CanRead
    /\ readers' = readers \cup {"command"} /\ Step("check")
    /\ UNCHANGED <<connUnlocked, reqs, printer, sendVars>>

\* The state guard on a job state: the cached one (Bambu) or the printer's.
Allowed(op, job) ==
    CASE op = "pause"  -> job = "printing"
      [] op = "resume" -> job = "paused"
      [] op = "stop"   -> job \notin {"idle", "finished"}
      [] op = "cali"   -> TRUE

\* The cached state is the printer's, and nothing is on its way either way.
Settled(op) ==
    /\ status.job = printer.job /\ pend = "none" /\ raw = <<>> /\ reqs = <<>>
    /\ ~printer.owed
    /\ op = "cali" => Idle(printer.job)

\* Bambu: guard, then publish; the result channel is subscribed to later.
PublishCommand ==
    /\ cmd.pc = "check" /\ kind = "bambu"
    /\ IF HasClient /\ Allowed(cmd.op, status.job)
         THEN /\ Len(reqs) < ReqCap /\ reqs' = Append(reqs, cmd.op)
              /\ cmd' = [cmd EXCEPT !.pc = "sent", !.target = printer.by,
                                    !.settled = Settled(cmd.op)]
              /\ UNCHANGED readers
         ELSE CommandEnds("err") /\ UNCHANGED reqs
    /\ UNCHANGED <<connUnlocked, printer, sendVars>>

\* Only now does command() subscribe; await_cali_job looks at once.
SubscribeStatus ==
    /\ cmd.pc = "sent"
    /\ unseen' = IF cmd.op = "cali" THEN unseen \cup {"command"} ELSE unseen \ {"command"}
    /\ Step("waiting")
    /\ UNCHANGED <<fixed, lockVars, linkVars, workVars, status, shown, queues, machine,
                   notes, sendVars>>

Satisfies(op, job) ==
    CASE op = "pause"  -> job = "paused"
      [] op = "resume" -> job = "printing"
      [] op = "stop"   -> job \in {"failed", "finished"}
LookAtStatus ==
    /\ cmd.pc = "waiting" /\ cmd.op # "cali" /\ "command" \in unseen
    /\ unseen' = unseen \ {"command"}
    /\ IF Satisfies(cmd.op, status.job) THEN CommandEnds("ok")
                                        ELSE UNCHANGED <<readers, cmd>>
    /\ UNCHANGED <<fixed, life, linkVars, workVars, status, shown, queues, machine,
                   notes, sendVars>>

\* await_cali_job: an active state first, then the end of the job.
LookAtCali ==
    /\ cmd.pc = "waiting" /\ cmd.op = "cali" /\ "command" \in unseen
    /\ unseen' = unseen \ {"command"}
    /\ CASE status.job = "printing" ->
              cmd' = [cmd EXCEPT !.started = TRUE] /\ UNCHANGED readers
         [] status.job = "finished" /\ cmd.started -> Step("result") /\ UNCHANGED readers
         [] status.job = "failed" /\ cmd.started -> CommandEnds("err")
         [] OTHER -> UNCHANGED <<readers, cmd>>
    /\ UNCHANGED <<fixed, life, linkVars, workVars, status, shown, queues, machine,
                   notes, sendVars>>
\* The measured result of the last calibration, matched by sequence id; the
\* printer may have nothing to say.
CaliResult ==
    /\ cmd.pc = "result"
    /\ \E outcome \in {"ok", "err"} : CommandEnds(outcome)
    /\ UNCHANGED <<connUnlocked, reqs, printer, sendVars>>

\* mutant: a command waits for its acknowledgement without a deadline
CommandWaitsOn == FALSE

CommandTimesOut ==
    /\ cmd.pc = "waiting" /\ CommandEnds("err")
    /\ UNCHANGED <<connUnlocked, reqs, printer, sendVars>>

\* Moonraker: the printer itself refuses an illegal transition.
HttpCommand ==
    /\ cmd.pc = "check" /\ kind # "bambu"
    /\ IF printer.up /\ Allowed(cmd.op, printer.job)
         THEN /\ ~printer.owed /\ Obeys(cmd.op)
              /\ \E outcome \in {"ok", "err"} :
                   /\ readers' = readers \ {"command"}
                   /\ cmd' = [cmd EXCEPT !.pc = outcome, !.target = printer.by]
         ELSE CommandEnds("err") /\ UNCHANGED printer
    /\ UNCHANGED <<connUnlocked, reqs, sendVars>>

SendSteps(s) ==
    \/ PayloadFails(s) \/ Arm(s) \/ LockForSend(s) \/ PushK(s)
    \/ Upload(s) \/ PublishStart(s) \/ StartScript(s) \/ Answered(s) \/ SendFails(s)
    \/ CancelWins(s)
CommandSteps ==
    \/ LockForCommand \/ PublishCommand \/ SubscribeStatus \/ LookAtStatus
    \/ LookAtCali \/ CaliResult \/ CommandTimesOut \/ HttpCommand

DriverNext ==
    \/ ConnNext /\ UNCHANGED <<sendVars, cmd>>
    \/ \E s \in Sends : IssueSend(s) \/ SendSteps(s)
    \/ Cancel
    \/ \E op \in Commands : IssueCommand(op)
    \/ CommandSteps

DriverSpec == DriverInit /\ [][DriverNext]_driverVars

\* The runtime polls every task and call that can run, timers fire, transfers
\* end.  Nothing is fair about the network, the machine or the user.
DriverFairness ==
    /\ WF_driverVars(LoopSteps /\ UNCHANGED <<sendVars, cmd>>)
    /\ WF_driverVars((WorkerSteps \/ BridgeSteps) /\ UNCHANGED <<sendVars, cmd>>)
    /\ WF_driverVars(CallSteps /\ UNCHANGED <<sendVars, cmd>>)
    /\ WF_driverVars(\E s \in Sends : SendSteps(s))
    /\ WF_driverVars(CommandSteps) /\ WF_driverVars(CommandTimesOut)

(***************************************************************************)
(* Properties.                                                             *)
(***************************************************************************)
\* The variables have their types.
DriverTypeOK ==
    /\ status \in [conn : Connections, job : Jobs] /\ shown \in [conn : Connections, job : Jobs]
    /\ unseen \subseteq Watchers /\ readers \subseteq Sends \cup {"command"}
    /\ loop \in {"none", "start", "poll", "subscribing", "pushing", "publishing",
                 "open", "backoff", "gone"}
    /\ worker \in {"none", "run", "gone"} /\ flush \in Connections \cup {"idle"}
    /\ pend \in Jobs \cup {"none"} /\ Len(reqs) <= ReqCap /\ Len(raw) <= RawCap
    /\ printer.job \in Jobs /\ armed \in Sends \cup {"none"} /\ fired \in BOOLEAN
    /\ \A s \in Sends : sendPc[s] \in {"idle", "payload"} \cup Uploading \cup Outcomes
    /\ cmd.pc \in {"idle", "lock", "check", "sent", "waiting", "result", "ok", "err"}

\* Two sends to one driver never upload at the same time, and the registered
\* token is the uploading send's: `send` itself only takes a read lock
\* (commands.rs:64, SendCancelRegistry).
OneUpload ==
    \A s \in Sends : sendPc[s] \in Uploading =>
        armed = s /\ \A t \in Sends : sendPc[t] \in Uploading => t = s

\* A send reported as cancelled did not start a print, and will not, unless
\* the printer already had the request and only its answer was outstanding;
\* that never happens on a Bambu, whose start is the send's last act.
CancelIsExact ==
    \A s \in Sends : sendPc[s] = "cancelled" =>
        \/ printer.by # s /\ \A i \in DOMAIN reqs : reqs[i] # s
        \/ s \in unanswered /\ kind # "bambu"

\* Once a driver is torn down nothing of it talks to the printer any more: no
\* event loop, no status worker, no queued request; an aborted Moonraker
\* worker at most finishes the publication it was in.
NoTaskLeft ==
    life \in {"down", "wantRemove", "removed"} =>
        /\ loop \in {"none", "gone"} \cup (IF kind = "bambu" THEN {} ELSE {"publishing"})
        /\ worker # "run" /\ reqs = <<>>

\* The status never claims a connection the task does not have, unless a
\* publication overtook a newer one (the flush of the status worker, or the
\* last snapshot of an aborted Moonraker worker).
NoFalseConnected ==
    status.conn = "Connected" /\ ~overtaken =>
        \/ loop = "open"
        \/ loop = "publishing"
        \/ life \in {"closing", "joinLoop", "joinWorker"}

\* An acknowledged pause, resume or stop is one the printer has carried out:
\* the job the command was aimed at is not in its old state any more, unless
\* the cached state was behind the printer's when the command was checked.
CommandOkIsTrue ==
    cmd.pc = "ok" /\ cmd.op # "cali" /\ cmd.settled /\ printer.by = cmd.target =>
        printer.job # (CASE cmd.op = "pause" -> "printing"
                         [] cmd.op = "resume" -> "paused"
                         [] cmd.op = "stop" -> "printing")

\* The results a calibration reads are those of its own job, not of a print
\* that was over before it, unless the driver still believed in that print, or
\* had a request on its way, when it was asked for: its end then passes for the
\* calibration's
\* (connection.rs:116, await_cali_job).
CaliEndIsOwn ==
    cmd.op = "cali" /\ cmd.pc \in {"result", "ok"} /\ cmd.settled =>
        printer.by # "screen"

\* What the page shows ends up being the channel's job state and, while the
\* link is open, the printer's own, unless a report met a full channel.
PageSettles ==
    <>[](purpose = "live" =>
           /\ shown.job = status.job
           /\ loop = "open" /\ printer.up /\ ~overtaken =>
                shown.conn = "Connected" /\ (reportLost \/ shown.job = printer.job))

\* A full request queue that nothing reads: the event loop is not at its poll with a
\* link.  On its ConnAck the loop waits for a slot of this very queue
\* (connection.rs:970-996), so a queue that filled up while the link was down is never
\* read again.
QueueStuck == Len(reqs) = ReqCap /\ loop # "open"

\* A disconnect or an unregister that was asked for comes to an end, unless the queue
\* stays stuck: then disconnect() waits for a slot without a deadline (:251), or never
\* gets the lock from a command that does.
TeardownFinishes ==
    <>[]QueueStuck \/ (life \in {"wantDisconnect", "wantRemove"} ~> life = "removed")

\* "never let a wedged task hang disconnect: abort on timeout" (connection.rs:259): a
\* disconnect() that has begun comes to an end, whatever its tasks wait for.
WedgedTaskIsAborted == life = "closing" ~> life \in {"down", "removed"}

(* One upload per printer, and a send that is reported as cancelled has not told    *)
(* the printer to start, unless it says so (commands.rs:591, :634                   *)
(* driver_send_plate).                                                              *)
SendIsExact == DriverTypeOK /\ OneUpload /\ CancelIsExact

(* The driver claims nothing the printer has not said, and leaves nothing running:  *)
(* a connection it lost, a command that was not carried out, a calibration that is  *)
(* another job's, a task after its disconnect (connection.rs:119, :262, status.rs). *)
DriverIsTrue == NoTaskLeft /\ NoFalseConnected /\ CommandOkIsTrue /\ CaliEndIsOwn
=============================================================================
