------------------------------ MODULE DocumentSave ------------------------------
(*****************************************************************************)
(* The project document of n3o-slic3r and the copies of it on disk: the      *)
(* live Session, the DirtyTracker's two counters, Save / Open / New on the   *)
(* main thread, an edit made by an async command on the worker pool, the     *)
(* autosave thread, and the start-up recovery dialog after a crash or exit.  *)
(*                                                                           *)
(* A project is its uuid and a version: each change of its content gives it  *)
(* a version never used before, version 0 is the default project.  A file is *)
(* the version it holds, None, or Torn: write_project_inner truncates the    *)
(* file it replaces (File::create) and fills it afterwards.                  *)
(*****************************************************************************)
EXTENDS Naturals

CONSTANTS Uuid,         \* project uuids
          None, Torn,   \* no file / no sequence number; a half-written file
          AsyncEdits,   \* whether an async command edits from the pool
          MaxEdits,     \* bound: content changes in a behaviour
          MaxTroubles   \* bound: starts of the program and I/O errors

ASSUME DocumentAssumption ==
  /\ MaxEdits \in Nat /\ MaxTroubles \in Nat /\ AsyncEdits \in BOOLEAN
  /\ None \notin Nat /\ Torn \notin Nat /\ None # Torn /\ None \notin Uuid

VARIABLES
  app,       \* "up", "down" (not started, or crashed), "exited" (shut down)
  session,   \* Session.project
  editSeq, cleanSeq,  \* DirtyTracker
  file,      \* the project file of each project
  recovery,  \* the autosave file of each project
  main,      \* the synchronous command the main thread is in, and its snapshot
  pool,      \* an async editing command: "idle", or "emit" between edit and event
  worker,    \* the autosave thread
  last,      \* its last_written_seq
  stop,      \* its stop flag
  dialog,    \* recovery entries the user has still to decide on
  edits, launches, faults,  \* counters for the bounds
  secured,   \* history: newest version of each project ever completely written
  undercut,  \* history: projects whose newest recovery file a Save of an older state took
  slipped    \* history: the live project has a change nothing will mark

docVars == <<session, editSeq, cleanSeq>>
diskVars == <<file, recovery, secured, undercut>>
bounds == <<edits, launches, faults>>
vars == <<app, docVars, diskVars, main, pool, worker, last, stop, dialog, bounds, slipped>>

-----------------------------------------------------------------------------
Version == 0..MaxEdits
Doc == [uuid : Uuid, ver : Version]
Fresh(u) == [uuid |-> u, ver |-> 0]
IsDirty == editSeq # cleanSeq
Unused == {u \in Uuid : file[u] = None /\ recovery[u] = None /\ u # session.uuid
                         /\ u # worker.doc.uuid}
Newer(v, w) == w = None \/ w < v
Newest(u, v) == IF Newer(v, secured[u]) THEN v ELSE secured[u]
\* A late write of a version the user has reverted since counts for nothing.
Reverted(d) == d.uuid = session.uuid /\ session.ver < d.ver
Mends(u, v) == undercut' = IF Newest(u, v) = v THEN undercut \ {u} ELSE undercut

NoDoc == [uuid |-> None, ver |-> 0]
Idle == [at |-> "idle", doc |-> NoDoc]
Off == [at |-> "off", seq |-> 0, doc |-> NoDoc, stopping |-> FALSE,
        failed |-> FALSE, linked |-> TRUE]

Init ==
  /\ app = "down"
  /\ session = NoDoc /\ editSeq = 0 /\ cleanSeq = 0
  /\ file = [u \in Uuid |-> None]
  /\ recovery = [u \in Uuid |-> None]
  /\ secured = [u \in Uuid |-> None] /\ undercut = {}
  /\ main = Idle /\ pool = "idle" /\ worker = Off /\ last = None /\ stop = FALSE
  /\ dialog = {}
  /\ edits = 0 /\ launches = 0 /\ faults = 0
  /\ slipped = FALSE

\* What every start of the program finds in its memory.
Blank ==
  /\ editSeq' = 0 /\ cleanSeq' = 0
  /\ main' = Idle /\ pool' = "idle" /\ worker' = Off /\ last' = None /\ stop' = FALSE
  /\ slipped' = FALSE

\* The dialog lists every autosave file there is, readable or not.
Launch ==
  /\ app # "up" /\ launches + faults < MaxTroubles
  /\ \E u \in {v \in Uuid : file[v] = None /\ recovery[v] = None} : session' = Fresh(u)
  /\ app' = "up" /\ launches' = launches + 1
  /\ Blank
  /\ dialog' = {u \in Uuid : recovery[u] # None}
  /\ UNCHANGED <<diskVars, edits, faults>>

\* Power loss, kill, panic: memory is gone, the disk stays as it is.
Crash ==
  /\ app = "up" /\ app' = "down"
  /\ Blank /\ dialog' = {} /\ session' = NoDoc
  /\ UNCHANGED <<diskVars, bounds>>

-----------------------------------------------------------------------------
(* Commands of the main thread; the dialog gates the UI until it is resolved. *)

Ready == app = "up" /\ main.at = "idle"
MainGoes(at, doc) == main' = [at |-> at, doc |-> doc]

Change ==
  /\ edits < MaxEdits
  /\ edits' = edits + 1
  /\ session' = [session EXCEPT !.ver = edits + 1]

\* A content edit changes the session under its lock, then emits its event.
Edit ==
  /\ Ready /\ dialog = {}
  /\ Change
  /\ MainGoes("emitEdit", NoDoc)
  /\ UNCHANGED <<app, editSeq, cleanSeq, diskVars, pool, worker, last, stop, dialog,
                 launches, faults, slipped>>

EmitEdit ==
  /\ app = "up" /\ main.at = "emitEdit"
  /\ editSeq' = editSeq + 1
  /\ main' = Idle
  /\ slipped' = FALSE
  /\ UNCHANGED <<app, session, cleanSeq, diskVars, pool, worker, last, stop, dialog, bounds>>

\* Closing a plate's tab drops the plate with its objects (the default project
\* has one plate, and the last one stays); PlateRemoved is Neutral, so neither
\* counter moves.
RemovePlate ==
  /\ Ready /\ dialog = {}
  /\ session.ver # 0
  /\ Change
  /\ slipped' = TRUE
  /\ UNCHANGED <<app, editSeq, cleanSeq, diskVars, main, pool, worker, last, stop, dialog,
                 launches, faults>>

\* mutant: the recovery file goes before the project is written
SaveCloneDropsFirst ==
  /\ Ready /\ dialog = {}
  /\ MainGoes("saveOpen", session)
  /\ recovery' = [recovery EXCEPT ![session.uuid] = None]
  /\ UNCHANGED <<app, docVars, file, secured, undercut, pool, worker, last, stop, dialog,
                 bounds, slipped>>

SaveClone ==
  /\ Ready /\ dialog = {}
  /\ MainGoes("saveOpen", session)
  /\ UNCHANGED <<app, docVars, diskVars, pool, worker, last, stop, dialog, bounds, slipped>>

SaveOpen ==
  /\ app = "up" /\ main.at = "saveOpen"
  /\ file' = [file EXCEPT ![main.doc.uuid] = Torn]
  /\ MainGoes("saveWrite", main.doc)
  /\ UNCHANGED <<app, docVars, recovery, secured, undercut, pool, worker, last, stop, dialog,
                 bounds, slipped>>

SaveWrite ==
  /\ app = "up" /\ main.at = "saveWrite"
  /\ LET u == main.doc.uuid IN
       /\ file' = [file EXCEPT ![u] = main.doc.ver]
       /\ secured' = [secured EXCEPT ![u] = Newest(u, main.doc.ver)]
       /\ Mends(u, main.doc.ver)
  /\ MainGoes("saveEmit", main.doc)
  /\ UNCHANGED <<app, docVars, recovery, pool, worker, last, stop, dialog, bounds, slipped>>

\* write_project fails, before or after the truncation: the command returns.
SaveFails ==
  /\ app = "up" /\ main.at \in {"saveOpen", "saveWrite"} /\ launches + faults < MaxTroubles
  /\ faults' = faults + 1
  /\ main' = Idle
  /\ UNCHANGED <<app, docVars, diskVars, pool, worker, last, stop, dialog, edits, launches,
                 slipped>>

\* ProjectSaved, ProjectLoaded: clean_seq is snapped to edit_seq, whatever the
\* live project is by now.
Clean ==
  /\ cleanSeq' = editSeq
  /\ slipped' = (session # main.doc /\ pool = "idle")
  /\ UNCHANGED <<session, editSeq>>

SaveEmit ==
  /\ app = "up" /\ main.at = "saveEmit"
  /\ Clean
  /\ MainGoes("saveDrop", main.doc)
  /\ UNCHANGED <<app, diskVars, pool, worker, last, stop, dialog, bounds>>

\* The recovery file the drop unlinks may be newer than what was saved.
DropsNewer(u) ==
  \/ recovery[u] \in Version /\ recovery[u] > main.doc.ver
  \/ worker.at = "write" /\ worker.doc.uuid = u /\ worker.doc.ver > main.doc.ver

\* What Save unlinks unconditionally, though a newer version was complete there.
Undercuts(u) == recovery[u] # None /\ Newest(u, main.doc.ver) # main.doc.ver

\* An unlink under the autosave thread's open file leaves its write nowhere.
SaveDrop ==
  /\ app = "up" /\ main.at = "saveDrop"
  /\ LET u == main.doc.uuid IN
       /\ recovery' = [recovery EXCEPT ![u] = None]
       /\ worker' = [worker EXCEPT !.linked = @ /\ worker.doc.uuid # u]
       /\ slipped' = (slipped \/ DropsNewer(u))
       /\ undercut' = IF Undercuts(u) THEN undercut \cup {u} ELSE undercut
  /\ main' = Idle
  /\ UNCHANGED <<app, docVars, file, secured, pool, last, stop, dialog, bounds>>

\* Replaces the session with `doc`; the event follows.
Replace(doc) == session' = doc /\ MainGoes("emitLoad", doc)

\* Opening the saved file gives up what only its recovery file holds.
Load(u) ==
  /\ Ready /\ dialog = {} /\ file[u] \in Version
  /\ Replace([uuid |-> u, ver |-> file[u]])
  /\ secured' = [secured EXCEPT ![u] = file[u]] /\ undercut' = undercut \ {u}
  /\ UNCHANGED <<app, editSeq, cleanSeq, file, recovery, pool, worker, last, stop, dialog,
                 bounds, slipped>>

New ==
  /\ Ready /\ dialog = {}
  /\ \E u \in Unused : Replace(Fresh(u))
  /\ UNCHANGED <<app, editSeq, cleanSeq, diskVars, pool, worker, last, stop, dialog, bounds,
                 slipped>>

EmitLoaded ==
  /\ app = "up" /\ main.at = "emitLoad"
  /\ Clean
  /\ main' = Idle
  /\ UNCHANGED <<app, diskVars, pool, worker, last, stop, dialog, bounds>>

\* The dialog's three buttons.  A recovered project's file stays, and what Save
\* will overwrite is given up, were it newer; Recover of a torn file reports the
\* error and leaves the entry listed.
Recover(u) ==
  /\ Ready /\ u \in dialog /\ recovery[u] \in Version
  /\ Replace([uuid |-> u, ver |-> recovery[u]])
  /\ secured' = [secured EXCEPT ![u] = recovery[u]] /\ undercut' = undercut \ {u}
  /\ dialog' = dialog \ {u}
  /\ UNCHANGED <<app, editSeq, cleanSeq, file, recovery, pool, worker, last, stop, bounds,
                 slipped>>

Discard(u) ==
  /\ Ready /\ u \in dialog
  /\ recovery' = [recovery EXCEPT ![u] = None]
  /\ secured' = [secured EXCEPT ![u] = IF file[u] \in Version THEN file[u] ELSE None]
  /\ undercut' = undercut \ {u}
  /\ dialog' = dialog \ {u}
  /\ UNCHANGED <<app, docVars, file, main, pool, worker, last, stop, bounds, slipped>>

Keep(u) ==
  /\ Ready /\ u \in dialog
  /\ dialog' = dialog \ {u}
  /\ UNCHANGED <<app, docVars, diskVars, main, pool, worker, last, stop, bounds, slipped>>

AutosaveEnable ==
  /\ Ready /\ worker.at = "off"
  /\ worker' = [worker EXCEPT !.at = "parked"]
  /\ UNCHANGED <<app, docVars, diskVars, main, pool, last, stop, dialog, bounds, slipped>>

\* ExitRequested: set the flag, unpark, join.
Exit ==
  /\ Ready
  /\ stop' = (worker.at # "off")
  /\ MainGoes("exit", NoDoc)
  /\ UNCHANGED <<app, docVars, diskVars, pool, worker, last, dialog, bounds, slipped>>

ExitJoined ==
  /\ app = "up" /\ main.at = "exit" /\ worker.at \in {"off", "done"}
  /\ app' = "exited"
  /\ UNCHANGED <<docVars, diskVars, main, pool, worker, last, stop, dialog, bounds, slipped>>

-----------------------------------------------------------------------------
(* An async command (scene_cut_apply) edits from the pool, in two steps too. *)

PoolEdit ==
  /\ AsyncEdits /\ app = "up" /\ pool = "idle" /\ dialog = {}
  /\ Change
  /\ pool' = "emit"
  /\ UNCHANGED <<app, editSeq, cleanSeq, diskVars, main, worker, last, stop, dialog,
                 launches, faults, slipped>>

\* After ExitRequested the last flush may have passed already.
PoolEmit ==
  /\ app = "up" /\ pool = "emit"
  /\ editSeq' = editSeq + 1
  /\ pool' = "idle"
  /\ slipped' = (main.at = "exit")
  /\ UNCHANGED <<app, session, cleanSeq, diskVars, main, worker, last, stop, dialog, bounds>>

-----------------------------------------------------------------------------
(* The autosave thread: autosave_loop and write_one_tick. *)

WorkerAt(at) == app = "up" /\ worker.at = at

\* The tick is over: leave if the flag was set when it began, else sleep.
TickEnds(failed) ==
  worker' = [Off EXCEPT !.at = IF worker.stopping THEN "done" ELSE "parked",
                        !.failed = failed /\ worker.stopping]

\* mutant: the stop flag ends the loop before its last tick
WakeLeavesAtOnce ==
  /\ WorkerAt("parked")
  /\ worker' = IF stop THEN [Off EXCEPT !.at = "done"]
               ELSE [worker EXCEPT !.at = "check", !.seq = editSeq]
  /\ UNCHANGED <<app, docVars, diskVars, main, pool, last, stop, dialog, bounds, slipped>>

\* Wake (timer, unpark or spuriously), look at the flag, read edit_seq.
Wake ==
  /\ WorkerAt("parked")
  /\ worker' = [worker EXCEPT !.at = "check", !.stopping = stop, !.seq = editSeq]
  /\ UNCHANGED <<app, docVars, diskVars, main, pool, last, stop, dialog, bounds, slipped>>

Check ==
  /\ WorkerAt("check")
  /\ IF IsDirty /\ worker.seq # last THEN worker' = [worker EXCEPT !.at = "clone"]
                                     ELSE TickEnds(FALSE)
  /\ UNCHANGED <<app, docVars, diskVars, main, pool, last, stop, dialog, bounds, slipped>>

Clone ==
  /\ WorkerAt("clone")
  /\ worker' = [worker EXCEPT !.at = "open", !.doc = session, !.linked = TRUE]
  /\ UNCHANGED <<app, docVars, diskVars, main, pool, last, stop, dialog, bounds, slipped>>

Open ==
  /\ WorkerAt("open")
  /\ recovery' = [recovery EXCEPT ![worker.doc.uuid] = Torn]
  /\ worker' = [worker EXCEPT !.at = "write", !.linked = TRUE]
  /\ UNCHANGED <<app, docVars, file, secured, undercut, main, pool, last, stop, dialog, bounds,
                 slipped>>

Write ==
  /\ WorkerAt("write")
  /\ LET u == worker.doc.uuid IN
       IF worker.linked
         THEN /\ recovery' = [recovery EXCEPT ![u] = worker.doc.ver]
              /\ IF Reverted(worker.doc) THEN UNCHANGED <<secured, undercut>>
                 ELSE /\ secured' = [secured EXCEPT ![u] = Newest(u, worker.doc.ver)]
                      /\ Mends(u, worker.doc.ver)
         ELSE UNCHANGED <<recovery, secured, undercut>>
  /\ last' = worker.seq
  /\ TickEnds(FALSE)
  /\ UNCHANGED <<app, docVars, file, main, pool, stop, dialog, bounds, slipped>>

\* write_autosave fails, before or after the truncation; last stays.
TickFails ==
  /\ app = "up" /\ worker.at \in {"open", "write"} /\ launches + faults < MaxTroubles
  /\ faults' = faults + 1
  /\ TickEnds(TRUE)
  /\ UNCHANGED <<app, docVars, diskVars, main, pool, last, stop, dialog, edits, launches,
                 slipped>>

-----------------------------------------------------------------------------
Tick == Wake \/ Check \/ Clone \/ Open \/ Write

Next ==
  \/ Launch \/ Crash
  \/ Edit \/ EmitEdit \/ RemovePlate
  \/ SaveClone \/ SaveOpen \/ SaveWrite \/ SaveFails \/ SaveEmit \/ SaveDrop
  \/ New \/ EmitLoaded
  \/ \E u \in Uuid : Load(u) \/ Recover(u) \/ Discard(u) \/ Keep(u)
  \/ AutosaveEnable \/ Exit \/ ExitJoined
  \/ PoolEdit \/ PoolEmit
  \/ Tick \/ TickFails

Spec == Init /\ [][Next]_vars

-----------------------------------------------------------------------------
DocTypeOK ==
  /\ app \in {"up", "down", "exited"}
  /\ session \in Doc \cup {NoDoc}
  /\ editSeq \in 0..MaxEdits /\ cleanSeq \in 0..editSeq
  /\ file \in [Uuid -> Version \cup {None, Torn}]
  /\ recovery \in [Uuid -> Version \cup {None, Torn}]
  /\ secured \in [Uuid -> Version \cup {None}] /\ undercut \subseteq Uuid
  /\ main \in [at : {"idle", "emitEdit", "saveOpen", "saveWrite", "saveEmit", "saveDrop",
                     "emitLoad", "exit"}, doc : Doc \cup {NoDoc}]
  /\ pool \in {"idle", "emit"}
  /\ worker \in [at : {"off", "parked", "check", "clone", "open", "write", "done"},
                 seq : 0..MaxEdits, doc : Doc \cup {NoDoc}, stopping : BOOLEAN, failed : BOOLEAN,
                 linked : BOOLEAN]
  /\ last \in 0..MaxEdits \cup {None}
  /\ stop \in BOOLEAN
  /\ dialog \subseteq Uuid
  /\ slipped \in BOOLEAN

Stored(d) == d.ver = 0 \/ d.ver \in {file[d.uuid], recovery[d.uuid]}
Settled == main.at \in {"idle", "exit"} /\ pool = "idle"
Skips == ~IsDirty \/ last = editSeq

(* Whenever the autosave thread would skip its tick -- the project looks clean, or
   looks written already (write_one_tick, autosave.rs:239) -- the live project is
   completely on disk.  Not so after a change that slipped past the marks (a plate
   removed, an edit made while a save was under way), or a failed save, which leaves the
   file it replaces torn. *)
SkippedIsStored ==
  app = "up" /\ Settled /\ Skips /\ ~slipped /\ file[session.uuid] # Torn
    => Stored(session)

(* A graceful exit does not drop the latest edits (lib.rs:533): the flush of the stopping
   thread has them on disk, unless its own write failed. *)
ExitKeepsEdits ==
  app = "exited" /\ worker.at = "done" /\ ~worker.failed /\ Settled /\ ~slipped
    /\ file[session.uuid] # Torn
    => Stored(session)

Held(u) == {file[u], recovery[u]} \cap Version
KeepsCopy(u) == secured[u] # None => \E v \in Held(u) : v >= secured[u]

(* A crash at any point -- also between any two steps of a save or of a tick -- leaves a
   copy at least as new as the newest one completely written since the user last gave one
   up, for every project none of whose files is torn.  Left out, and a loss: a Save that
   was overtaken.  It took its copy, an edit followed, the autosave thread completely wrote
   that edit, and the unlink at the end of the Save (project/commands.rs:459
   drop_recovery_after_save) took it away as "stale" although it is newer than what the
   Save wrote: until the next complete write that edit is only in memory. *)
CrashCostsOnlyTheTorn ==
  app = "down" =>
    \A u \in Uuid \ undercut : Torn \notin {file[u], recovery[u]} => KeepsCopy(u)

(* An edit is kept: what the autosave thread skips is stored, and a graceful exit   *)
(* stores the rest (autosave.rs:182 autosave_loop, lib.rs:533).                     *)
EditsAreKept == DocTypeOK /\ SkippedIsStored /\ ExitKeepsEdits
=============================================================================
