--------------------------- MODULE PrinterInstances ---------------------------
(***************************************************************************)
(* The printers a user has set up, and the drivers kept connected to them: *)
(*                                                                         *)
(*  - the backend's instance registry (printer/instance_registry.rs) and   *)
(*    its one file per instance (printer/instance_storage.rs);             *)
(*  - the page's cached list of instances (state/queryCache.ts);           *)
(*  - the reconciler that registers, replaces and unregisters a driver per *)
(*    instance as the list changes (driver/useDriverConnections.ts);       *)
(*  - the automatic syncs a status report sets off: the AMS count, and the *)
(*    full sync armed by saving a connection (printer/sync.rs).            *)
(*                                                                         *)
(* Synchronous commands run one at a time on the main thread; the sync     *)
(* from a driver runs on the async runtime beside them.  A driver is only  *)
(* registered, connected or gone here: DriverConnection has its inside.    *)
(* Connections are those of Bambu printers, which have an AMS to report.   *)
(***************************************************************************)
EXTENDS Naturals, Sequences, FiniteSets

CONSTANTS Ids,        \* instance ids (UUIDs)
          Conns,      \* the usable connections: one per physical printer
          AmsUnits,   \* the AMS units each of those printers has
          AmsMax,     \* the printer profile's ams_max
          Counts,     \* the AMS counts a request may carry
          MaxDrivers  \* drivers a behaviour may register

ASSUME InstancesAssumption ==
    /\ AmsUnits \in [Conns -> Nat] /\ AmsMax \in Nat /\ Counts \subseteq Nat /\ MaxDrivers \in Nat
    /\ Conns \cap {"none", "absent", "default"} = {}

VARIABLES inst,      \* the registry: [conn, units, loadout, k] or NoInstance
          disk,      \* the instance files
          io,        \* file operations of a command that has left the lock
          changed,   \* printer:instance_changed is on its way to the page
          fetch,     \* the list query: "idle", "asked" or "answered"
          requeued,  \* an invalidation came while it was in flight
          reply,     \* what the list command answered
          list,      \* the cached list
          entries,   \* ENTRIES: [kind, driver, signature]
          routed,    \* DRIVER_TO_IDENTITY: the drivers it has
          queue,     \* PENDING: the desired connections queued per identity
          job,       \* the reconcile under way per identity
          drv,       \* the driver registry: [owner, conn, st, ams] by id
          reports,   \* status events on their way to the page
          armed,     \* PENDING_FULL_SYNC
          synced,    \* AMS_COUNT_SYNCED
          saving,    \* instances whose save has been answered, not yet armed
          sync,      \* the sync_from_driver command per instance
          stolen     \* instances whose armed sync a driver on its way out used up

registryVars == <<inst, disk, io>>
listVars == <<changed, fetch, requeued, reply, list>>
reconcileVars == <<entries, routed, queue, job, drv>>
reportVars == <<reports, armed, synced, saving, sync, stolen>>
instVars == <<registryVars, listVars, reconcileVars, reportVars>>

Drivers == 1..MaxDrivers
NoInstance == [conn |-> "absent", units |-> 0]
Deleted == [conn |-> "deleted", units |-> 0]
New == [conn |-> "none", units |-> 0, loadout |-> "default", k |-> "none"]
Exists(i) == inst[i] \notin {NoInstance, Deleted}
Listing == [i \in Ids |-> IF Exists(i) THEN [conn |-> inst[i].conn, units |-> inst[i].units]
                                       ELSE NoInstance]
Listed(i) == list[i] # NoInstance
Key(l) == [i \in Ids |-> l[i].conn]

NoCount == AmsMax + 99
NoEntry == [kind |-> "absent", driver |-> 0, signature |-> "none"]
NoJob == [pc |-> "idle", conn |-> "none", driver |-> 0]
NoDriver == [owner |-> "none", conn |-> "none", st |-> "gone", ams |-> FALSE]
NoSync == [pc |-> "idle", driver |-> 0, k |-> "none"]
\* A queued reconcile with none before it is a microtask: it starts before the
\* page handles anything else.
Settled == \A i \in Ids : queue[i] = <<>> \/ job[i] # NoJob
Registered(i) == {d \in Drivers : drv[d].owner = i /\ drv[d].st # "gone"}

\* The app starts: instances are loaded from disk, the list is being fetched.
InstancesInit ==
    /\ inst \in [Ids -> {NoInstance, New} \cup {[New EXCEPT !.conn = c] : c \in Conns}]
    /\ disk = inst /\ io = {}
    /\ changed = FALSE /\ fetch = "asked" /\ requeued = FALSE
    /\ reply = [i \in Ids |-> NoInstance] /\ list = reply
    /\ entries = [i \in Ids |-> NoEntry] /\ routed = {}
    /\ queue = [i \in Ids |-> <<>>] /\ job = [i \in Ids |-> NoJob]
    /\ drv = [d \in Drivers |-> NoDriver]
    /\ reports = {} /\ armed = {} /\ synced = [i \in Ids |-> NoCount]
    /\ saving = {} /\ sync = [i \in Ids |-> NoSync] /\ stolen = {}

\* mutate_instance: the change and its file under one lock.
Mutate(i, r) ==
    /\ inst' = [inst EXCEPT ![i] = r]
    /\ disk' = [disk EXCEPT ![i] = r] /\ UNCHANGED io
\* A synchronous command runs when the one before it has returned.
MainThread == io = {}

\* create_instance and delete_instance touch the file outside the lock.
Create(i) ==
    /\ MainThread /\ inst[i] = NoInstance
    /\ inst' = [inst EXCEPT ![i] = New] /\ UNCHANGED disk
    /\ io' = io \cup {[id |-> i, file |-> New]} /\ changed' = TRUE
    /\ UNCHANGED <<fetch, requeued, reply, list, reconcileVars, reportVars>>

Delete(i) ==
    /\ MainThread /\ Exists(i) /\ Listed(i)
    /\ inst' = [inst EXCEPT ![i] = Deleted] /\ UNCHANGED disk
    /\ io' = io \cup {[id |-> i, file |-> Deleted]} /\ changed' = TRUE
    /\ UNCHANGED <<fetch, requeued, reply, list, reconcileVars, reportVars>>

FileOp ==
    /\ \E op \in io : disk' = [disk EXCEPT ![op.id] = op.file] /\ io' = io \ {op}
    /\ UNCHANGED <<inst, listVars, reconcileVars, reportVars>>

\* rebuild_ams_slots: the slots that both counts have keep their bindings.
ResizeTo(r, units) == [r EXCEPT !.units = units]

\* validate_ams_request.
ValidUnits(units) == units <= AmsMax


\* The settings modal saves a connection (and perhaps a count with it) ...
SaveConnection(i, c, units) ==
    /\ MainThread /\ Exists(i) /\ Listed(i) /\ inst[i].conn # c
    /\ ValidUnits(units) /\ Mutate(i, [ResizeTo(inst[i], units) EXCEPT !.conn = c])
    /\ changed' = TRUE /\ saving' = saving \cup {i}
    /\ UNCHANGED <<fetch, requeued, reply, list, reconcileVars, reports,
                   armed, synced, sync, stolen>>

\* ... and once the command has returned arms the full sync.
requestFullSyncOnConnect(i) ==
    /\ Settled /\ i \in saving /\ saving' = saving \ {i} /\ armed' = armed \cup {i}
    /\ UNCHANGED <<registryVars, listVars, reconcileVars, reports, synced,
                   sync, stolen>>

ForgetConnection(i) ==
    /\ MainThread /\ Exists(i) /\ Listed(i) /\ inst[i].conn # "none"
    /\ Mutate(i, [inst[i] EXCEPT !.conn = "none"]) /\ changed' = TRUE
    /\ UNCHANGED <<fetch, requeued, reply, list, reconcileVars, reportVars>>

\* A pressure advance measured on the printer is stored for a slot's filament.
SetCalibrated(i) ==
    /\ MainThread /\ Exists(i) /\ inst[i].k # "local"
    /\ \E d \in Registered(i) : drv[d].st = "connected"
    /\ Mutate(i, [inst[i] EXCEPT !.k = "local"]) /\ changed' = TRUE
    /\ UNCHANGED <<fetch, requeued, reply, list, reconcileVars, reportVars>>

(***************************************************************************)
(* The list query.                                                         *)
(***************************************************************************)
\* mutant: an invalidation during a fetch is taken to be covered by it
InvalidateDropped ==
    /\ Settled /\ changed /\ changed' = FALSE
    /\ fetch' = (IF fetch = "idle" THEN "asked" ELSE fetch) /\ requeued' = FALSE
    /\ UNCHANGED <<reply, list, registryVars, reconcileVars, reportVars>>

\* The event starts a fetch, or has one follow the fetch in flight.
Invalidate ==
    /\ Settled /\ changed /\ changed' = FALSE
    /\ fetch' = (IF fetch = "idle" THEN "asked" ELSE fetch)
    /\ requeued' = (fetch # "idle")
    /\ UNCHANGED <<reply, list, registryVars, reconcileVars, reportVars>>
ListInstances ==
    /\ MainThread /\ fetch = "asked" /\ fetch' = "answered" /\ reply' = Listing
    /\ UNCHANGED <<changed, requeued, list, registryVars, reconcileVars,
                   reportVars>>

\* The list is cached and rendered.  If its key flipped, the reconciler's effect
\* queues a reconcile for every listed instance, and one towards no driver for
\* every entry that is not listed any more.
FetchSettles ==
    /\ Settled /\ fetch = "answered" /\ list' = reply
    /\ fetch' = (IF requeued THEN "asked" ELSE "idle") /\ requeued' = FALSE
    /\ LET gone == {i \in Ids : list'[i] = NoInstance /\ entries[i].kind # "absent"}
       IN IF Key(reply) = Key(list) THEN UNCHANGED <<queue, synced, armed>>
          ELSE /\ queue' = [i \in Ids |->
                    CASE i \in gone             -> Append(queue[i], "none")
                      [] list'[i] # NoInstance -> Append(queue[i], list'[i].conn)
                      [] OTHER                 -> queue[i]]
               /\ synced' = [i \in Ids |->
                    CASE i \in gone -> NoCount
                      [] list'[i] # NoInstance /\ synced[i] = NoCount -> list'[i].units
                      [] OTHER -> synced[i]]
               /\ armed' = armed \ gone
    /\ UNCHANGED <<changed, reply, registryVars, entries, routed, job, drv, reports,
                   saving, sync, stolen>>

(***************************************************************************)
(* The reconciler.                                                         *)
(***************************************************************************)
SetEntry(i, e) == entries' = [entries EXCEPT ![i] = e]
SetJob(i, j) == job' = [job EXCEPT ![i] = j]
InFlight == [NoEntry EXCEPT !.kind = "in_flight"]

\* reconcileIdentity, as its turn in the identity's queue comes.
reconcileIdentity(i) ==
    /\ job[i] = NoJob /\ queue[i] # <<>>
    /\ queue' = [queue EXCEPT ![i] = Tail(@)]
    /\ LET want == Head(queue[i])
           live == entries[i].kind = "live"
       IN \/ /\ live /\ entries[i].signature # want
             /\ SetEntry(i, NoEntry) /\ routed' = routed \ {entries[i].driver}
             /\ SetJob(i, [pc |-> "disconnect", conn |-> want, driver |-> entries[i].driver])
          \/ /\ ~live /\ want # "none"
             /\ SetEntry(i, InFlight) /\ UNCHANGED routed
             /\ SetJob(i, [pc |-> "register", conn |-> want, driver |-> 0])
          \/ /\ ~live /\ want = "none" /\ SetEntry(i, NoEntry) /\ UNCHANGED <<routed, job>>
          \/ /\ live /\ entries[i].signature = want /\ UNCHANGED <<entries, routed, job>>
    /\ UNCHANGED <<drv, registryVars, listVars, reportVars>>

registerDriver(i) ==
    /\ job[i].pc = "register"
    /\ \E d \in Drivers :
         /\ drv[d] = NoDriver /\ \A e \in Drivers : e < d => drv[e] # NoDriver
         /\ drv' = [drv EXCEPT ![d] = [owner |-> i, conn |-> job[i].conn,
                                        st |-> "registered", ams |-> FALSE]]
         /\ routed' = routed \cup {d}
         /\ SetJob(i, [job[i] EXCEPT !.pc = "connect", !.driver = d])
    /\ UNCHANGED <<entries, queue, registryVars, listVars, reportVars>>

Connected(i) ==
    /\ job[i].pc = "connect" /\ SetJob(i, NoJob)
    /\ drv' = [drv EXCEPT ![job[i].driver].st = "connected"]
    /\ SetEntry(i, [kind |-> "live", driver |-> job[i].driver, signature |-> job[i].conn])
    /\ UNCHANGED <<routed, queue, registryVars, listVars, reportVars>>

\* mutant: a failed connect leaves its driver registered
ConnectFailsLeaks(i) ==
    /\ job[i].pc = "connect" /\ SetJob(i, NoJob)
    /\ SetEntry(i, [NoEntry EXCEPT !.kind = "failed"])
    /\ routed' = routed \ {job[i].driver}
    /\ UNCHANGED <<queue, drv, registryVars, listVars, reportVars>>

\* The probe fails: show it at once, then roll the registration back.
ConnectFails(i) ==
    /\ job[i].pc = "connect" /\ SetJob(i, [job[i] EXCEPT !.pc = "rollback"])
    /\ SetEntry(i, [NoEntry EXCEPT !.kind = "failed"])
    /\ routed' = routed \ {job[i].driver}
    /\ UNCHANGED <<queue, drv, registryVars, listVars, reportVars>>
Disconnected(i) ==
    /\ job[i].pc = "disconnect" /\ SetJob(i, [job[i] EXCEPT !.pc = "unregister"])
    /\ drv' = [drv EXCEPT ![job[i].driver].st = "registered"]
    /\ UNCHANGED <<entries, routed, queue, registryVars, listVars, reportVars>>

\* driver_unregister; a replacement then registers the new connection.
unregisterDriver(i) ==
    /\ job[i].pc \in {"unregister", "rollback"}
    /\ drv' = [drv EXCEPT ![job[i].driver].st = "gone"]
    /\ IF job[i].pc = "unregister" /\ job[i].conn # "none"
         THEN SetEntry(i, InFlight) /\ SetJob(i, [job[i] EXCEPT !.pc = "register", !.driver = 0])
         ELSE SetJob(i, NoJob) /\ UNCHANGED entries
    /\ UNCHANGED <<routed, queue, registryVars, listVars, reportVars>>

(***************************************************************************)
(* Status reports and the syncs they set off.                              *)
(***************************************************************************)
\* The printer answers the full-report request: its AMS state is known.
Populate(d) ==
    /\ drv[d].st = "connected" /\ ~drv[d].ams
    /\ drv' = [drv EXCEPT ![d].ams = TRUE]
    /\ UNCHANGED <<entries, routed, queue, job, registryVars, listVars, reportVars>>

\* The bridge emits the driver's status.
Emit(d) ==
    /\ drv[d].st = "connected"
    /\ \A r \in reports : r.driver # d
    /\ reports' = reports \cup {[driver |-> d, ams |-> drv[d].ams]}
    /\ UNCHANGED <<registryVars, listVars, reconcileVars, armed, synced, saving,
                   sync, stolen>>

\* mutant: any report sets the armed sync off, an AMS state or not
AuthoritativeAny(r) == TRUE

Authoritative(r) == r.ams
\* syncFromStatusReport: an armed full sync uses the report up; otherwise a
\* count not seen before is written.  Reports of unrouted drivers are ignored.
syncFromStatusReport(r) ==
    /\ Settled /\ MainThread /\ r \in reports /\ reports' = reports \ {r}
    /\ LET i == drv[r.driver].owner
           units == AmsUnits[drv[r.driver].conn]
           full == i \in armed /\ Authoritative(r)
           count == r.ams /\ synced[i] # units
       IN \/ /\ (r.driver \notin routed \/ (~full /\ ~count))
             /\ UNCHANGED <<registryVars, changed, armed, synced, sync, stolen>>
          \/ /\ r.driver \in routed /\ full /\ sync[i] = NoSync
             /\ armed' = armed \ {i}
             /\ synced' = IF r.ams THEN [synced EXCEPT ![i] = units] ELSE synced
             /\ sync' = [sync EXCEPT ![i] = [NoSync EXCEPT !.pc = "apply", !.driver = r.driver]]
             /\ stolen' = IF drv[r.driver].conn = inst[i].conn THEN stolen ELSE stolen \cup {i}
             /\ UNCHANGED <<registryVars, changed>>
          \/ /\ r.driver \in routed /\ ~full /\ count
             /\ synced' = [synced EXCEPT ![i] = units]
             /\ IF Exists(i) /\ ValidUnits(units)
                  THEN Mutate(i, ResizeTo(inst[i], units)) /\ changed' = TRUE
                  ELSE UNCHANGED <<registryVars, changed>>
             /\ UNCHANGED <<armed, sync, stolen>>
    /\ UNCHANGED <<fetch, requeued, reply, list, reconcileVars, saving>>

\* printer_instance_sync_from_driver: the driver's cached status, then the
\* count and the loadout in one mutation; an unknown driver or id is an error.
SyncApply(i) ==
    /\ sync[i].pc = "apply"
    /\ LET d == sync[i].driver
           c == drv[d].conn
       IN IF drv[d].st = "gone" \/ ~Exists(i)
            THEN /\ sync' = [sync EXCEPT ![i] = NoSync] /\ stolen' = stolen \cup {i}
                 /\ UNCHANGED registryVars
            ELSE /\ IF drv[d].ams
                      THEN LET sized == IF ValidUnits(AmsUnits[c])
                                          THEN ResizeTo(inst[i], AmsUnits[c]) ELSE inst[i]
                           IN Mutate(i, [sized EXCEPT !.loadout = c])
                      ELSE Mutate(i, inst[i])
                 /\ sync' = [sync EXCEPT ![i] = [@ EXCEPT !.pc = "table", !.k = inst[i].k]]
                 /\ UNCHANGED stolen
    /\ UNCHANGED <<listVars, reconcileVars, reports, armed, synced, saving>>

\* The printer's calibration table, awaited meanwhile, fills in a value that
\* was missing when the loadout was applied; then the change is announced.
SyncSeed(i) ==
    /\ sync[i].pc = "table" /\ sync' = [sync EXCEPT ![i] = NoSync]
    /\ IF sync[i].k = "none" /\ Exists(i)
         THEN \/ Mutate(i, [inst[i] EXCEPT !.k = "seeded"])
              \/ UNCHANGED registryVars
         ELSE UNCHANGED registryVars
    /\ changed' = TRUE
    /\ UNCHANGED <<fetch, requeued, reply, list, reconcileVars, reports, armed,
                   synced, saving, stolen>>

UserActs ==
    \E i \in Ids :
        \/ Create(i) \/ Delete(i) \/ ForgetConnection(i) \/ SetCalibrated(i)
        \/ \E c \in Conns, u \in Counts : SaveConnection(i, c, u)
PageSteps == Invalidate \/ FetchSettles \/ \E i \in Ids : requestFullSyncOnConnect(i)
BackendSteps == FileOp \/ ListInstances
ReconcileSteps(i) ==
    \/ reconcileIdentity(i) \/ registerDriver(i) \/ Connected(i) \/ ConnectFails(i)
    \/ Disconnected(i) \/ unregisterDriver(i)
SyncSteps(i) == SyncApply(i) \/ SyncSeed(i)
\* What one user action sets off comes to an end, whatever the order.
Work ==
    \/ PageSteps \/ BackendSteps
    \/ \E i \in Ids : ReconcileSteps(i) \/ SyncSteps(i)
    \/ \E d \in Drivers : Populate(d)
Report(i) == \E d \in Drivers : drv[d].owner = i /\ Emit(d)
HandleReport == \E r \in reports : syncFromStatusReport(r)
OtherSteps == Work \/ HandleReport \/ \E i \in Ids : Report(i)

InstancesNext == UserActs \/ OtherSteps
InstancesSpec == InstancesInit /\ [][InstancesNext]_instVars

\* The page's tasks, the commands and the reconcile queue get their turn, and
\* a connected printer goes on reporting.  No fairness of users.
InstancesFairness ==
    /\ WF_instVars(Work) /\ WF_instVars(HandleReport)
    /\ \A i \in Ids : WF_instVars(Report(i))

(***************************************************************************)
(* Properties.                                                             *)
(***************************************************************************)
\* The variables have their types.
InstancesTypeOK ==
    /\ \A i \in Ids : Exists(i) =>
         inst[i] \in [conn : Conns \cup {"none"}, units : 0..AmsMax,
                     loadout : Conns \cup {"default"}, k : {"none", "local", "seeded"}]
    /\ fetch \in {"idle", "asked", "answered"} /\ {changed, requeued} \subseteq BOOLEAN
    /\ armed \cup saving \cup stolen \subseteq Ids /\ routed \subseteq Drivers
    /\ \A i \in Ids :
         /\ entries[i].kind \in {"absent", "in_flight", "live", "failed"}
         /\ synced[i] \in Nat
         /\ job[i].pc \in {"idle", "register", "connect", "rollback", "disconnect", "unregister"}

\* However often a connection is edited, one printer never has two drivers
\* talking to it (useDriverConnections.ts, enqueueForIdentity).
OneDriverPerPrinter == \A i \in Ids : Cardinality(Registered(i)) <= 1

\* With no file operation under way the files are the registry: no deleted
\* printer comes back at the next start, no edit is undone by it
\* (instance_registry.rs:192, "so concurrent mutations can't race to write
\* stale state").
DiskFollows == io = {} => disk = inst

\* Once the user stops editing, every printer that has a usable connection has
\* one driver, made for that connection and connected, or is shown as failed
\* with none left over; one without a connection has no driver.
ConnectionsConverge ==
    <>[](\A i \in Ids : Exists(i) =>
           CASE inst[i].conn = "none" -> Registered(i) = {}
             [] entries[i].kind = "failed" -> Registered(i) = {}
             [] OTHER -> \E d \in Drivers :
                   /\ Registered(i) = {d} /\ drv[d].st = "connected"
                   /\ drv[d].conn = inst[i].conn)

\* A saved connection brings the printer's own AMS count and loadout into the
\* instance once it is connected, unless the connection is removed or fails
\* first, or a report of a driver on its way out has used the armed sync up.
LoadoutArrives ==
    \A i \in Ids :
        i \in armed ~>
            \/ ~Exists(i) \/ inst[i].conn = "none" \/ entries[i].kind = "failed" \/ i \in stolen
            \/ /\ inst[i].loadout = inst[i].conn
               /\ ValidUnits(AmsUnits[inst[i].conn]) => inst[i].units = AmsUnits[inst[i].conn]

(* The file follows the list and a printer has at most one driver, whatever edits   *)
(* and connects overtake each other (instance_registry.rs:180 mutate_instance,      *)
(* useDriverConnections.ts:664).                                                    *)
RegistryIsTrue == InstancesTypeOK /\ DiskFollows /\ OneDriverPerPrinter
=============================================================================
