--------------------------- MODULE DriverConnection ---------------------------
(***************************************************************************)
(* One printer driver of src-tauri/src/core/driver: its life in the        *)
(* registry under the RwLock, the background tasks that hold the printer   *)
(* connection, the watch channel they publish the status through, and the  *)
(* bridge that forwards that status to the page.                           *)
(*                                                                         *)
(* A Bambu driver runs an MQTT event loop and a status worker that merges  *)
(* the reports and flushes at most once a second; a Moonraker driver (the  *)
(* U1 wraps one) runs a single worker.  The tasks of both are atomic from  *)
(* one await to the next, except where a task reads the watch channel and  *)
(* writes it back, or is past the point where abort() can stop it.         *)
(***************************************************************************)
EXTENDS Naturals, Sequences, FiniteSets

CONSTANTS Kinds,      \* the driver kinds to check: "bambu", "moonraker", "u1"
          Purposes,   \* "live": registered for an instance; "test": transient
          Sends,      \* the send calls a behaviour may make
          ReqCap,     \* slots of the MQTT client's request queue (32)
          RawCap,     \* slots of the raw report channel (64)
          MaxDrops    \* how often the printer may drop off the network

\* A send is none of the other names a request, a reader or a job may have.
ASSUME LinkAssumption ==
    /\ Kinds \subseteq {"bambu", "moonraker", "u1"} /\ Purposes \subseteq {"live", "test"}
    /\ ReqCap \in Nat /\ RawCap \in Nat /\ MaxDrops \in Nat
    /\ Sends \cap {"none", "command", "screen", "pause", "resume", "stop", "cali",
                   "setK", "pushall", "disconnect"} = {}

VARIABLES kind,       \* the DriverConfig's variant, fixed at registration
          purpose,    \* "live" or "test", fixed at registration
          life,       \* where the driver's connect/disconnect calls are
          readers,    \* who holds the driver's RwLock for reading
          loop,       \* where the event loop (or Moonraker worker) is
          signalled,  \* the shutdown channel has been used
          worker,     \* the Bambu status worker: "none", "run" or "gone"
          pend,       \* the job state a task is about to publish, or "none"
          flush,      \* the connection state the status worker read, or "idle"
          status,     \* the watch channel: [conn, job]
          unseen,     \* watchers with an update they have not looked at
          shown,      \* the last status emitted to the page
          reqs,       \* requests queued to the MQTT client
          raw,        \* reports on their way to the status worker
          printer,    \* the machine: [up, job, by, owed, watching]
          drops,      \* how often it dropped off
          verdict,    \* driver_test_connection's answer
          overtaken,  \* a publication overwrote a newer connection state
          reportLost  \* a report met a full channel

fixed == <<kind, purpose>>
lockVars == <<life, readers>>
linkVars == <<loop, signalled>>
workVars == <<worker, pend, flush>>
chanVars == <<status, unseen, shown>>
queues == <<reqs, raw>>
machine == <<printer, drops>>
notes == <<verdict, overtaken, reportLost>>
connVars == <<fixed, lockVars, linkVars, workVars, chanVars, queues, machine, notes>>

Connections == {"Disconnected", "Connecting", "Connected", "Reconnecting"}
Jobs == {"idle", "printing", "paused", "finished", "failed"}
Watchers == {"bridge", "command"}

Idle(j) == j \in {"idle", "finished", "failed"}

\* The lock is fair: once a writer waits, a new reader waits behind it.
Writing == {"wantConnect", "probing", "wantDisconnect", "closing", "joinLoop",
            "joinWorker", "wantRemove"}
CanRead == life \notin Writing
CanWrite == readers = {}

\* self.client is Some, as a holder of the read lock sees it.
HasClient == life \in {"up", "wantDisconnect"}

ConnInit ==
    /\ kind \in Kinds /\ purpose \in Purposes
    /\ life = "new" /\ readers = {} /\ loop = "none" /\ signalled = FALSE
    /\ worker = "none" /\ pend = "none" /\ flush = "idle"
    /\ status = [conn |-> "Disconnected", job |-> "idle"]
    /\ unseen = {} /\ shown = status /\ reqs = <<>> /\ raw = <<>>
    /\ printer \in [up : {TRUE}, job : {"idle", "printing"}, by : {"screen"},
                    owed : {FALSE}, watching : {FALSE}]
    /\ drops = 0 /\ verdict = "none"
    /\ overtaken = FALSE /\ reportLost = FALSE

(***************************************************************************)
(* The watch channel and the bridge.                                       *)
(***************************************************************************)
Publish(s) == status' = s /\ unseen' = Watchers
PublishConn(c) == Publish([status EXCEPT !.conn = c])

structural_change(prev, next) == prev.conn # next.conn \/ prev.job # next.job

\* A turn of the bridge: telemetry within the minimum interval is skipped.
BridgeEmits(soon) ==
    /\ purpose = "live" /\ "bridge" \in unseen
    /\ unseen' = unseen \ {"bridge"}
    /\ shown' = IF soon /\ ~structural_change(shown, status) THEN shown ELSE status
    /\ UNCHANGED <<fixed, lockVars, linkVars, workVars, status, queues, machine,
                     notes>>

(***************************************************************************)
(* connect(): a probe, then the tasks.                                     *)
(***************************************************************************)
RequestConnect ==
    /\ life = "new" /\ life' = "wantConnect"
    /\ UNCHANGED <<fixed, readers, linkVars, workVars, chanVars, queues,
                     machine, notes>>

BeginProbe ==
    /\ life = "wantConnect" /\ CanWrite
    /\ life' = "probing" /\ PublishConn("Connecting")
    /\ UNCHANGED <<fixed, readers, linkVars, workVars, shown, queues, machine,
                     notes>>

\* The probe fails: connect() returns early, and the caller unregisters.
ProbeFails ==
    /\ life = "probing" /\ ~printer.up
    /\ life' = IF purpose = "live" THEN "failed" ELSE "removed"
    /\ verdict' = IF purpose = "test" THEN "err" ELSE verdict
    /\ UNCHANGED <<fixed, readers, linkVars, workVars, chanVars, queues,
                     machine, overtaken, reportLost>>

SpawnTasks ==
    /\ life = "probing" /\ printer.up
    /\ life' = "up" /\ signalled' = FALSE
    /\ loop' = IF kind = "bambu" THEN "poll" ELSE "start"
    /\ worker' = IF kind = "bambu" THEN "run" ELSE "none"
    /\ UNCHANGED <<fixed, readers, pend, flush, chanVars, queues, machine,
                     notes>>

(***************************************************************************)
(* The link: the event loop of a Bambu driver, and the steps a Moonraker   *)
(* worker shares with it.                                                  *)
(***************************************************************************)
\* A biased select! looks at the shutdown channel first; Moonraker's is not.
Heard == signalled /\ kind = "bambu"

StartWorker ==
    /\ loop = "start" /\ loop' = "poll" /\ PublishConn("Connecting")
    /\ UNCHANGED <<fixed, lockVars, signalled, workVars, shown, queues, machine,
                     notes>>

\* ConnAck (Bambu), or a session with its initial snapshot (Moonraker).
LinkUp ==
    /\ loop = "poll" /\ printer.up /\ ~Heard
    /\ IF kind = "bambu"
         THEN loop' = "subscribing" /\ UNCHANGED <<pend, printer>>
         ELSE /\ loop' = "publishing" /\ pend' = printer.job
              /\ printer' = [printer EXCEPT !.watching = TRUE, !.owed = FALSE]
    /\ UNCHANGED <<fixed, lockVars, signalled, worker, flush, chanVars, queues,
                     drops, notes>>

\* mutant: the lost link is not announced
LinkDownSilent ==
    /\ loop \in {"poll", "open"} /\ ~printer.up /\ ~Heard
    /\ loop' = "backoff" /\ UNCHANGED <<status, unseen>>
    /\ UNCHANGED <<fixed, lockVars, signalled, workVars, shown, queues, machine,
                     notes>>

\* The attempt fails or the link is lost: publish Reconnecting and back off.
LinkDown ==
    /\ loop \in {"poll", "open"} /\ ~printer.up /\ ~Heard
    /\ loop' = "backoff" /\ PublishConn("Reconnecting")
    /\ UNCHANGED <<fixed, lockVars, signalled, workVars, shown, queues, machine,
                     notes>>

BackoffOver ==
    /\ loop = "backoff" /\ ~Heard
    /\ loop' = IF kind = "bambu" THEN "poll" ELSE "start"
    /\ UNCHANGED <<fixed, lockVars, signalled, workVars, chanVars, queues,
                     machine, notes>>

\* The task leaves at the shutdown signal; the queues go with it.
LoopExits ==
    /\ signalled /\ loop \in {"start", "poll", "open", "backoff"}
    /\ loop' = "gone" /\ reqs' = <<>>
    /\ printer' = [printer EXCEPT !.watching = FALSE, !.owed = FALSE]
    /\ UNCHANGED <<fixed, lockVars, signalled, workVars, chanVars, raw, drops,
                     notes>>

\* mutant: the full report is not asked for
PushAllSkipped ==
    /\ loop = "subscribing"
    /\ loop' = "open" /\ reqs' = reqs /\ PublishConn("Connected")
    /\ UNCHANGED <<fixed, lockVars, signalled, workVars, shown, raw, machine, notes>>

\* ConnAck: subscribing and asking for a full report wait for a slot of the
\* request queue (one request here), and only then is the state Connected.
PushAll ==
    /\ loop = "subscribing" /\ Len(reqs) < ReqCap
    /\ loop' = "open" /\ reqs' = Append(reqs, "pushall") /\ PublishConn("Connected")
    /\ UNCHANGED <<fixed, lockVars, signalled, workVars, shown, raw, machine, notes>>
\* The printer's reaction to a request that starts or changes its job.
Took(job, by) ==
    printer' = [printer EXCEPT !.job = job, !.by = by, !.owed = printer.watching]
Obeys(r) ==
    CASE r = "pushall" -> printer' = [printer EXCEPT !.watching = TRUE, !.owed = TRUE]
      [] r \in Sends \cup {"cali"} ->
           IF Idle(printer.job) THEN Took("printing", r) ELSE UNCHANGED printer
      [] r = "pause" ->
           IF printer.job = "printing" THEN Took("paused", printer.by) ELSE UNCHANGED printer
      [] r = "resume" ->
           IF printer.job = "paused" THEN Took("printing", printer.by) ELSE UNCHANGED printer
      [] r = "stop" ->
           IF Idle(printer.job) THEN UNCHANGED printer ELSE Took("failed", printer.by)
      [] OTHER -> UNCHANGED printer

\* The event loop writes the next request to the printer.
Deliver ==
    /\ loop = "open" /\ printer.up /\ ~Heard /\ reqs # <<>> /\ ~printer.owed
    /\ reqs' = Tail(reqs) /\ Obeys(Head(reqs))
    /\ UNCHANGED <<fixed, lockVars, linkVars, workVars, chanVars, raw, drops,
                     notes>>

\* A report arrives: try_send drops it when the channel is full or
\* its worker is gone.
Report ==
    /\ loop = "open" /\ printer.up /\ ~Heard /\ printer.owed
    /\ printer' = [printer EXCEPT !.owed = FALSE]
    /\ IF kind # "bambu"
         THEN loop' = "publishing" /\ pend' = printer.job /\ UNCHANGED <<raw, reportLost>>
         ELSE /\ UNCHANGED <<loop, pend>>
              /\ IF worker = "run" /\ Len(raw) < RawCap
                   THEN raw' = Append(raw, printer.job) /\ UNCHANGED reportLost
                   ELSE reportLost' = TRUE /\ UNCHANGED raw
    /\ UNCHANGED <<fixed, lockVars, signalled, worker, flush, chanVars, reqs,
                     drops, verdict, overtaken>>

\* Moonraker: the decoded snapshot replaces the status, even after an abort.
PublishSnapshot ==
    /\ loop = "publishing"
    /\ Publish([conn |-> "Connected", job |-> pend])
    /\ pend' = "none" /\ loop' = IF life = "up" \/ ~signalled THEN "open" ELSE "gone"
    /\ overtaken' = (overtaken \/ status.conn = "Disconnected")
    /\ UNCHANGED <<fixed, lockVars, signalled, worker, flush, shown, queues,
                     machine, verdict, reportLost>>

(***************************************************************************)
(* The Bambu status worker.                                                *)
(***************************************************************************)
MergeReport ==
    /\ worker = "run" /\ flush = "idle" /\ raw # <<>>
    /\ pend' = Head(raw) /\ raw' = Tail(raw)
    /\ UNCHANGED <<fixed, lockVars, linkVars, worker, flush, chanVars, reqs,
                     machine, notes>>

\* The tick: copy the connection state of the channel into the snapshot ...
FlushReads ==
    /\ worker = "run" /\ flush = "idle" /\ kind = "bambu" /\ pend # "none"
    /\ flush' = status.conn
    /\ UNCHANGED <<fixed, lockVars, linkVars, worker, pend, chanVars, queues,
                     machine, notes>>
\* ... and send the snapshot: the event loop may have published in between.
FlushSends ==
    /\ flush # "idle"
    /\ Publish([conn |-> flush, job |-> pend])
    /\ pend' = "none" /\ flush' = "idle"
    /\ overtaken' = (overtaken \/ flush # status.conn)
    /\ UNCHANGED <<fixed, lockVars, linkVars, worker, shown, queues, machine,
                     verdict, reportLost>>

WorkerExits ==
    /\ worker = "run" /\ loop = "gone" /\ raw = <<>> /\ flush = "idle"
    /\ worker' = "gone" /\ pend' = "none"
    /\ UNCHANGED <<fixed, lockVars, linkVars, flush, chanVars, queues, machine,
                     notes>>

(***************************************************************************)
(* disconnect() and unregister.                                            *)
(***************************************************************************)
RequestDisconnect ==
    /\ life = "up" /\ purpose = "live" /\ life' = "wantDisconnect"
    /\ UNCHANGED <<fixed, readers, linkVars, workVars, chanVars, queues,
                     machine, notes>>

\* The shutdown signal; Moonraker also aborts its worker, which ends at its
\* next await.
BeginClose ==
    /\ life = "wantDisconnect" /\ CanWrite
    /\ life' = "closing" /\ signalled' = TRUE
    /\ loop' = IF kind # "bambu" /\ loop # "publishing" THEN "gone" ELSE loop
    /\ printer' = IF kind # "bambu"
                    THEN [printer EXCEPT !.watching = FALSE, !.owed = FALSE] ELSE printer
    /\ UNCHANGED <<fixed, readers, workVars, chanVars, queues, drops, notes>>

\* client.disconnect() waits for a slot too, unless the loop is gone.
CloseClient ==
    /\ life = "closing" /\ kind = "bambu"
    /\ loop = "gone" \/ Len(reqs) < ReqCap
    /\ life' = "joinWorker"
    /\ reqs' = IF loop = "gone" THEN reqs ELSE Append(reqs, "disconnect")
    /\ UNCHANGED <<fixed, readers, linkVars, workVars, chanVars, raw, machine,
                     notes>>

\* The tasks are joined in the order they were spawned.  Each gets 5 s to exit
\* and is then aborted; a flush past its await is not stopped by that.
JoinWorker ==
    /\ life = "joinWorker" /\ life' = "joinLoop"
    /\ worker' = "gone" /\ raw' = <<>>
    /\ pend' = IF flush = "idle" THEN "none" ELSE pend
    /\ UNCHANGED <<fixed, readers, linkVars, flush, chanVars, reqs, machine, notes>>

\* Nothing is left of the tasks: publish Disconnected and free the lock.
Disconnect ==
    /\ life = (IF kind = "bambu" THEN "joinLoop" ELSE "closing")
    /\ life' = IF purpose = "live" THEN "down" ELSE "removed"
    /\ loop' = IF kind = "bambu" THEN "gone" ELSE loop
    /\ reqs' = <<>>
    /\ printer' = [printer EXCEPT !.watching = FALSE, !.owed = FALSE]
    /\ PublishConn("Disconnected")
    /\ UNCHANGED <<fixed, readers, signalled, workVars, shown, raw, drops, notes>>

RequestRemove ==
    /\ life \in {"down", "failed"} /\ life' = "wantRemove"
    /\ UNCHANGED <<fixed, readers, linkVars, workVars, chanVars, queues,
                     machine, notes>>

\* unregister disconnects again, with no tasks left, and drops the entry.
Remove ==
    /\ life = "wantRemove" /\ CanWrite
    /\ life' = "removed" /\ PublishConn("Disconnected")
    /\ UNCHANGED <<fixed, readers, linkVars, workVars, shown, queues, machine,
                     notes>>

(***************************************************************************)
(* driver_test_connection: wait for a verdict on a transient driver.       *)
(***************************************************************************)
TestDecides(v) ==
    /\ purpose = "test" /\ life = "up" /\ verdict = "none"
    /\ v = "timeout" \/ "command" \in unseen
    /\ v = "ok" => status.conn = "Connected"
    /\ v = "err" => status.conn \in {"Disconnected", "Reconnecting"}
    /\ verdict' = v /\ life' = "wantDisconnect"
    /\ unseen' = unseen \ {"command"}
    /\ UNCHANGED <<fixed, readers, linkVars, workVars, status, shown, queues,
                     machine, overtaken, reportLost>>

(***************************************************************************)
(* The machine and its network.                                            *)
(***************************************************************************)
DropOff ==
    /\ printer.up /\ drops < MaxDrops /\ drops' = drops + 1
    /\ printer' = [printer EXCEPT !.up = FALSE, !.owed = FALSE, !.watching = FALSE]
    /\ UNCHANGED <<fixed, lockVars, linkVars, workVars, chanVars, queues, notes>>

\* A drop is a drop once the link's task has noticed it.
ComeBack ==
    /\ ~printer.up /\ printer' = [printer EXCEPT !.up = TRUE]
    /\ loop \notin {"subscribing", "publishing", "open"}
    /\ UNCHANGED <<fixed, lockVars, linkVars, workVars, chanVars, queues, drops,
                     notes>>

JobEnds ==
    /\ printer.job = "printing" /\ ~printer.owed
    /\ Took("finished", printer.by)
    /\ UNCHANGED <<fixed, lockVars, linkVars, workVars, chanVars, queues, drops,
                     notes>>

\* The tasks and calls the runtime schedules one by one.
LoopSteps ==
    \/ StartWorker \/ LinkUp \/ LinkDown \/ BackoffOver \/ LoopExits
    \/ PushAll \/ Deliver \/ Report \/ PublishSnapshot
WorkerSteps == MergeReport \/ FlushReads \/ FlushSends \/ WorkerExits
BridgeSteps == \E soon \in BOOLEAN : BridgeEmits(soon)
CallSteps ==
    \/ BeginProbe \/ ProbeFails \/ SpawnTasks \/ BeginClose \/ CloseClient
    \/ JoinWorker \/ Disconnect \/ RequestRemove \/ Remove
    \/ \E v \in {"ok", "err", "timeout"} : TestDecides(v)

ConnNext ==
    \/ LoopSteps \/ WorkerSteps \/ BridgeSteps \/ CallSteps
    \/ RequestConnect \/ RequestDisconnect
    \/ DropOff \/ ComeBack \/ JobEnds
=============================================================================
