# n3o-slic3r in TLA+

n3o-slic3r is a desktop slicer: a Rust backend (Tauri commands over a project
held in memory, worker threads, the libslic3r engine behind an FFI, network
drivers for printers) and a React page that mirrors it through `invoke()`
replies and events. This directory models the parts of it where the order of
steps, or the way values travel, decides whether the program is right; TLC
checks the models on small instances, and TLAPS proves the central results for
every value of the constants.

Paths below are relative to the repository: `core/` stands for
`src-tauri/src/core/`, `page/` for `src/` (the React sources), `ffi/` for
`crates/slic3r-ffi/`, `app/` for `src-tauri/src/`.

Contents: 1 inventory, 2 modules, 3 runs, 4 what the code does that its text
denies, 5 proofs, 6 what is not modelled, 7 plan, 8 how to run it.

## 1. Inventory

| Component | State | Operations | Hard behaviour | What makes it correct |
|---|---|---|---|---|
| Slice jobs, `core/slice/{job,orchestrator,commands,events}.rs` | `JobRegistry` of `JobHandle`s (cancel flag, status); one worker thread per job | `slice_active_plate`, `slice_cancel`, `slice_status`; `run_worker` over a plate list | a cancel at any point of a worker; ten exits; the handle pruned while it may still be asked about | one outcome per job; a finished job is complete; a cancel is prompt; the registry empties |
| Engine, `ffi/src/lib.rs`, `ffi/ffi/slic3r_ffi.cpp` | process globals: `SLICE_LOCK`, `g_active_print`, `g_calib_armed`, the Print's cancel flag | `slic3r_slice`, `slic3r_cancel`, arming a calibration | jobs and pressure-advance calibrations share the globals | exclusion; the published Print is in `process()`; a calibration reaches no other slice |
| Slice page, `page/slice/{reducer.ts,useSliceJob.ts,SlicePanel.tsx,SliceProgressWindow.tsx}` | reducer state, job id in localStorage | Slice, Cancel, reload and reconnect, every `slice:*` event | replies race events; a reload loses both | outcomes shown are true; one job per page; Running ends |
| Slice output, `page/slice/useLastSliceOutput.ts`, `page/preview/useSlicePreviewBridge.ts`, `page/project/editEvents.ts`, `core/preview/{commands,registry}.rs` | path and preview per plate id, backend preview handles | what Send takes, what is shown, dropping both on edits | edits, changes that send no edit event, re-slices, removed plates and reused ids in any order | what is sent matches the plate but for what the page cannot hear; no older output; no leaked handle |
| Document, `core/project/{commands,autosave,dirty}.rs`, `project_io.rs`, `lib.rs`, `page/project/AutosaveRecoveryDialog.tsx` | live `Session`, `edit_seq`/`clean_seq`, project file, recovery file, autosave thread | edits, Save, Open, New, Recover/Discard/Keep, autosave tick, exit | three threads, non-atomic writes, crash, I/O errors | what autosave skips is stored; exit keeps edits; a crash costs at most the file it tore |
| Project and scene, `core/project/{mod,model}.rs`, `core/project/mutation/*`, `core/scene/commands.rs` | plates, objects, groups, mesh pool, materials, slots, overrides, selection | every scene and project command | id reuse; groups over plates; a cut on another thread | every reference resolves; bindings are to slots of the plate's printer; a group is on one plate |
| Undo, `core/project/history.rs` | snapshots and a cursor | record (coalesced, capped), undo, redo, reset | an edit between the edit and its capture; what a restore does not rewind | the cursor's snapshot is the live project |
| Viewport, `app/viewport_*.rs`, `app/paint_tool.rs`, `page/viewport/*` | GPU mesh cache, tower placement and mesh, paint session | drag the tower, paint, draw; the viewport comes and goes with the Prepare layout | page, main thread and renderer each keep their own copy | the tower is drawn where it is sliced; paint shown is paint sliced |
| Arrange, `core/scene/{arrange,primitives}.rs` | none | auto-arrange, clamp, generated meshes | groups, rotations, further beds | every unit is placed once, where the nester put it |
| Drivers, `core/driver/*` | connection state, status watch channel, request queue, send registry, tasks | connect, reconnect with backoff, send, cancel, pause/resume/stop, calibration, status bridge | cancel against upload; probe failures; disconnect against tasks; a full request queue | a send ends once; no task survives; the page learns the last state |
| Moonraker, U1, cameras, `core/driver/{moonraker,snapmaker,camera.rs}` | sessions, pairing token, camera workers | open, identify, subscribe, pair, start/stop a camera | links that drop; other clients on the bus; two watchers of one camera | the status follows the printer; the token is ours and approved; one stream |
| Spools, `core/driver/{ams.rs,bambu/status.rs}`, `core/printer/sync.rs` | accumulated report, typed status, the instance's slots | merge a report, sync, pick, route a plate | reports say only what changed | the slots are the printer's; a pick survives; a material prints from its tray |
| Printer instances, `core/printer/instance_*.rs`, `page/driver/useDriverConnections.ts`, `page/state/queryCache.ts` | list, one file each, page cache, drivers | create, edit, delete, sync, reconcile | asynchronous plans against later edits | the file follows the list; one driver per printer; plans converge |
| Profiles, `core/{cascade,cascade_adapter,profile_library,filament,process}` | rules, libraries, user files | scan, compose, resolve, clone, stamp, revert, delete | precedence of tiers; a plate whose profile goes | the setting the user sees is the one the engine gets |
| Gate and input, `core/slice/{pre_slice_gate,input}.rs`, `core/project/resolve.rs` | none | gate, build the input, resolve for the panel | what is checked is not what is sent | what passes the last check is safe as the engine gets it |
| Plugins, `core/plugin/*` | enabled set, settings of four levels, Lua runtimes | discover, enable, hooks, reload | a hook that fails in a slice | one bad plugin changes nothing; off means untouched |
| G-code and preview, `core/gcode`, `core/preview`, `page/preview/*` | none | parse, edit, write, segments, statistics, colours | malformed and unordered files | nothing lost, nothing counted twice |
| Bundles and import, `core/threemf`, `core/orca_import`, `core/project/format.rs` | none | wrap, read back, import, save | files of other programs | what was in the file is in the project |
| Logging, configuration, packaging, bundled profiles | none of interest | | | |

How they interact:

- The page calls sync Tauri commands, which the main thread runs **one at a
  time**, and async ones, which run on tokio's pool beside it. `slice_cancel`,
  `project_save`, `project_load`, `preview_load` and nearly every edit are
  sync; `slice_active_plate`, `scene_cut_apply` and the driver commands are not.
- The backend calls the page through events (`slice:*`, `project:*`, `scene:*`,
  `driver:*`). Events of one emitter arrive in order; a reply to an `invoke()`
  is a message of its own and races them.
- Shared memory: `Arc<Mutex<Session>>` (commands, async edits, autosave clone),
  the two atomics of `DirtyTracker`, `JobRegistry`, each `JobHandle`, a
  `RwLock` per driver, and the process globals of the shim.
- Shared disk: the project file and `<autosave dir>/<uuid>.n3o`, written by the
  main thread and by the autosave thread; a file per printer instance, per
  user profile and per pairing token.

The hazards this gives rise to, each at its line and with the properties that
watch it, are in `PROJECT.json` under `hazards`.

## 2. Modules

```
SliceLifecycle            what listeners of slice:* may rely on (abstract)
   ^   ^   ^
   |   |   '--- SliceOutput <---- SliceOutputProofs
   |   '------- SliceLifecycleProofs
   | implements (INSTANCE ... WITH phase <- PhaseOf(pc), ...)
SliceEngine <-- SliceJobs <-- SliceUi <-- MCSliceUi           (EXTENDS)
                                 '------- SliceJobsProofs

DocumentSave  TowerView  Arrangement                <-- MCDocumentSave
UndoHistory <-- SceneSession <-- MCSceneSession,   ProjectModel <-- SceneSession
DriverConnection <-- PrinterDriver <-- MCPrinterDriver
MoonrakerSession  CameraStream  U1Pairing  SpoolSync  PrinterInstances  <-- MCDevices
Cascade <-- ProfileLibrary <-- ProfileComposer <-- SliceInput <-- UserProfiles <-- MCProfiles
GcodeLines <-- GcodePreview, PluginHost
GcodePreview PluginHost ForeignProject SlicedBundle PaintTool PaintCodec <-- MCArtifacts
```

An MC module gives constants their values, and where components share no state
it checks several in one run: a variable `comp`, chosen in the initial state,
says which is at work, and the others stay as they start. Proof modules EXTEND
the module they are about: `SliceLifecycleProofs`, `SliceJobsProofs`,
`SliceOutputProofs`, `DocumentSaveProofs`, `SceneProofs`, `PartsProofs`,
`PrinterDriverProofs` and `DevicesProofs`. Some are about several modules:
`SliceJobsProofs` about `SliceJobs` and `SliceUi`, `DocumentSaveProofs` about
`DocumentSave` and `TowerView`, `SceneProofs` about `ProjectModel`,
`UndoHistory` and `SceneSession`, `DevicesProofs` about `SpoolSync`,
`MoonrakerSession`, `CameraStream`, `U1Pairing` and `PrinterInstances`,
`PartsProofs` about `UserProfiles`, `PluginHost` and `PaintTool`.

### SliceEngine

The inside of `slice_outcome_calib` (Rust) and `slic3r_slice` (C++), as control
points of the calling thread: `waiting` for `SLICE_LOCK`, `locked`, `armed`
(calibrations), `applied` (the Print exists), `processing`, `exporting`,
`succeeded`/`failed`. `lock` is the mutex, `active` is `g_active_print`,
`abort` the cancel flag of the current Print, `armed` is `g_calib_armed`,
`sweep` what the current Print took from it. `CancelActive` is `slic3r_cancel`.
`process()` may throw at any time with or without an abort (slicing errors) and
may complete in spite of one (no checkpoint left). The mutex is not fair.

### SliceJobs

`run_worker`, one action per step another thread can tell apart: the two reads
of the cancel flag around the engine (`check`, `precheck`), the third after it
(`judgeSliced`, `judgeBroken`), each status write, each event. The plate's
preparation (hooks, gate, adapter, geometry, paint) succeeds (`Prepared`) or
fails (`PrepareFails`). `Tick` is the progress callback: it overwrites the
status, whatever that was, and is subject to the event throttle. `slice_cancel`
is three steps of the main thread (`CancelFlag`, `CancelMark`, `CancelAbort`),
since the worker may run between any two. `Prune` is the registry removal after
the retention time; the time itself is not modelled. `Calibrate` is
`driver_send_pa_calibration`'s slice, which has no job and no flag. `log` is
the sequence of events of each job; its field `late` is history for the
properties (was the cancel flag up when the event was emitted).

### SliceLifecycle

The abstract job: idle, between plates, slicing, ended, with the event each
transition emits. It knows nothing of threads, flags, locks or libslic3r.
`SliceJobs` implements it under `phase <- PhaseOf(pc)`, `total <- plates`,
`asked <- flag`, with the same `log` and `done`.

### SliceUi

The reducer as functions on `[status, job]`, the hook's effects as actions, and
SliceJobs underneath. `channel` is the event stream (FIFO), `reply` the
answer of `slice_active_plate` on its way, `resume` the `slice_status` round
trip of the mount effect. `Reload` clears the page and loses what is on its
way; a `slice_active_plate` whose page has gone still starts its job
(`orphans`).

### SliceOutput

What the page keeps after a slice. The jobs are those of `SliceLifecycle`
(justified by the refinement above), each of one plate, since the UI slices the
active plate only. `content[p]` is a stamp of what a slice of plate `p` would
read, `snapshot[j]` what job `j` did read. An edit is two steps: the change
under the session lock, the event after it. `RemovePlate` emits no edit event
and `AddPlate` reuses the highest free id, as the code does. `inbox` is the
main thread's queue of sync commands, so `preview_load` and `preview_drop` run
in the order they were called. `ChangeUnheard` is a change of what plates slice
to that emits no edit event: a printer's settings, nozzles, bed, slots and
calibration (`printer:instance_changed` is not in the edit list), a filament's
overrides (`filament:changed`), `user_process_revert` without `apply` (no event),
a stamped profile for the other plates that use it. The page then keeps path and
preview. `overtaken` is history: jobs whose plate changed while they were reading
or slicing it, or changed unheard at any time after they had read it.

### DocumentSave

A project is a uuid and a version; each change gives it a version never used
before, version 0 is the default project. A file holds a version, is absent, or
is `Torn`: `write_project_inner` truncates in place and fills afterwards
(`SaveOpen`/`SaveWrite`, `Open`/`Write`). The main thread is in at most one sync
command (`main`), the pool may be between an edit and its event (`pool`), the
autosave thread reads `edit_seq`, then both counters, then clones, opens and
writes (`Wake`, `Check`, `Clone`, `Open`, `Write`), recording the number it read
first. `park_timeout` may wake at any time, so `Wake` needs no timer. Save,
which emits and then drops the recovery file, may unlink it under the thread's
open file: that write is then nowhere (`linked`). `Crash` loses all memory at
any step; `Exit` sets the stop flag and joins. After a start the recovery dialog
holds the UI until each entry is recovered, discarded or kept. `secured` and
`slipped` are history: the newest version completely written that nobody has
given up since (opening, recovering and discarding give up the rest), and
whether the live project has a change that nothing will mark as dirty.
`undercut`, history too, are the projects of which a Save has just unlinked a
recovery file newer than what it wrote; the next complete write of something at
least as new ends it. Saving gives up nothing.

### ProjectModel, UndoHistory, SceneSession

`ProjectModel` is the persisted document and its mutation methods, as functions
from a document to a document: plates, objects with group and connector marks,
the mesh pool, materials and their slots, overrides, the id allocators, and of
the session the selection, the primitive cache and the last group id. A
geometry is what it came from, the materials painted on it and whether it has
support paint; a pose is 0 (the program's choice) or 1 (the user's). A printer's
slots are not the document's: AMS settings and syncs lay them out anew at any time.
`Rotation` has, for each printer, one walk of auto-binding per layout it may have;
a command takes the layout of the moment (`Walks`), and nothing visits the plates
when it changes.

`UndoHistory` is the stack of snapshots with its cursor: record with coalescing,
cap and redo branch, selection tracking, undo, redo, reset. Time is one bit, set
by a record and cleared by `Lapse`.

`SceneSession` composes them. A command changes the session under the lock,
releases it, and then `emit_all` captures it under a second lock and records it
under the history's own (`main.pc`: idle, emitted, captured); `scene_cut_apply`
runs on the blocking pool and interleaves with that. The GPU mesh cache, the
support-paint session and the page's gates (no undo while the split or the paint
tool is open, `page/App.tsx:122`) are here too. `Workloads` are the families of
commands a behaviour uses, each with its documents, inputs and bounds.

### TowerView, Arrangement

`TowerView`: the renderer resolves the wipe tower's place once per plate and
keeps it, gets the sliced mesh from the event sink, and is told by the page,
event by event, to resolve again; the page drags the tower and commits when it
is released. The page listens only while its viewport is mounted (`Mount`,
`Unmount`: the Prepare layout), and only to its list of events: an event that
finds no listener (`LoseEvent`) and a change that sends none (`EditUnheard`: a
printer's settings, the user tier, a process) leave the renderer with an older
placement, which mounting does not invalidate. `missed` is history: the plates this
is true of. A configuration has the tower on or off, and a corner of the user tier,
which the slice folds in and the view does not. The bed is one axis, the other is
the same. `Arrangement` is
auto-arrange on a grid (footprints, convex hull, units, the nester's answer
applied) and the clamp of a selection; the nester is external, any packing it
may return. It also builds the five generated meshes, as vertices on their ring
and step and triangles over them.

### DriverConnection, PrinterDriver

One driver: its life under the RwLock, the tasks that hold the connection, the
watch channel and the bridge that forwards it to the page; then what commands
ask of it while it lives: uploads with progress and cancel, pause/resume/stop, a
Bambu calibration. Tasks are atomic from one await to the next, except where a
task reads the watch channel and writes it back, or is past the point where
`abort()` can stop it. Queues have their capacity in the model (`ReqCap`,
`RawCap`); whoever sends a request waits for a slot: a command, an upload, the
event loop itself on its ConnAck, `disconnect()`. Only a poll of the loop with a
link empties the queue. Kinds are Bambu, Moonraker and the U1 that wraps it; a
driver is registered for a printer or probed for a connection test.

### MoonrakerSession, CameraStream, U1Pairing

A session opens, subscribes, merges the answer and what changes into its status
map and publishes what that decodes to; it ends with the link. Notifications may
come before the answer: the WebSocket session skips them, the MQTT one merges
them. A disconnect aborts the worker and does not wait for it: `aborted` is a
worker that may still do one step. A printer that is up answers within the
timeout. `CameraStream` is the camera's workers, its wake task and
heartbeat, the printer's own watchdog and the panel that starts and stops it.
`U1Pairing` is a request over a bus every client shares, the answers (ours and
theirs), the approvals on the printer's screen and the token that is kept.

### SpoolSync

The printer's trays, the partial reports, the accumulator they are merged into,
the typed status lowered from it, the instance's slots, picks and the writes
they send, the mapping of a plate's materials and the calibrations sent along;
and the names a slot is shown with.

### PrinterInstances

Registry, files, cached list, reconciler and automatic syncs. Synchronous
commands run one at a time; the sync from a driver runs beside them. A plan is
made from the cached list and carried out one `await` at a time while the list
changes again. A write that fails is undone where the code undoes it; one whose
failure the code only logs is taken to succeed.

### Cascade, ProfileLibrary, ProfileComposer, SliceInput, UserProfiles

From documents to rules (`Cascade`: leaves, sections, `[[rule]]`, specificity,
order, `!important`, the override tiers and the authored fallback), from files
to the catalogue and its offers (`ProfileLibrary`), from a printer and the
filaments of a plate to the composed rules and the engine's configuration, with
its vectors per filament and per nozzle (`ProfileComposer`), from a plate to the
gate and the job's input (`SliceInput`), and the user's own filaments and
processes with everything that changes them, a restart included
(`UserProfiles`). All but the last are pure; `Cascade` is modelled as the code
folds it, and the properties compare the fold with a declarative reading (the
highest matching rule wins, the fallback is what is below the first override).

### GcodeLines, GcodePreview, PluginHost, SlicedBundle, ForeignProject, PaintCodec, PaintTool

Files are read line by line (element by element), so that every file within the
bounds is a state. `GcodeLines` is the typed parser and the serializer.
`GcodePreview` is the walk from lines to segments and layers, the statistics,
the colour ramps of the legend and the slider's window. `PluginHost` folds the
post-slice hook over the plugins that may run. `SlicedBundle` is the
`.gcode.3mf` and its three readers. `ForeignProject` is the 3MF reader, the
importer of other slicers' projects, and this program's own container.
`PaintCodec` is the hex spelling of a split tree. `PaintTool` is the
support-paint tool: page, main thread, engine session, replies.

## 3. Runs

Ten runs pass and two find the violations of section 4. A property of a run
may be the conjunction of named parts: each part says one thing and is stated
and commented where it is defined. States are TLC's distinct states.

| Run | Module, cfg | Instance | States |
|---|---|---|---|
| `jobs_plates` | SliceJobs, SliceJobsPlates | 1 job of 1-2 plates, 1 calibration, 1 progress tick; fair | 54,574 |
| `slice_page` | MCSliceUi, SliceUiPage | 2 jobs, 1 calibration, either under a page or left behind by one; symmetric | 1,082,838 |
| `ui_reload` | SliceUi, SliceUiReload | 1 job, 1 tick, 1 reload; fair | 234,197 |
| `output` | SliceOutput, SliceOutputTwo | 2 jobs, 2 plate ids, 2 changes (heard or not), 1 cancel | 1,167,163 |
| `document` | MCDocumentSave, DocumentSave | 2 projects, 2 edits (main thread and pool), 2 starts or I/O errors; tower: 2 plates, 2 edits, the viewport left and entered; arrange: bed of 3; primitives: up to 6 segments; symmetric | 1,721,971 |
| `scene` | MCSceneSession, Scene | 2 printers, one with two layouts of its slots, 2 plates, history of 3, one asynchronous cut | 500,513 |
| `drivers` | MCPrinterDriver, PrinterDriver | 3 kinds, 2 sends, 2 commands, 1 network drop, a request queue of 1; a budget of 2 | 169,781 |
| `devices` | MCDevices, Devices | 1 session, 3 camera workers, 2 pairing attempts beside 2 strangers, up to 2 units of 2 trays, 1 printer on 2 connections; a budget of 2 | 361,886 |
| `profiles` | MCProfiles, Profiles | 3 printers, 2 filaments, 2 nozzles, 2 beds; a budget of 2 | 3,176 |
| `artifacts` | MCArtifacts, Artifacts | files of up to 3 lines or items, 2 plugins, 4 paint actions | 496,917 |
| `custom_survives_restart` | MCProfiles, ProfilesRestart | as `profiles` | violated |
| `disconnect_hangs` | MCPrinterDriver, DisconnectHangs | as `drivers` | violated |

What they show:

- **jobs_plates.** `OneOutcome`: a terminal event is the last event of its job,
  whichever exit of `run_worker` is taken. `WorkerIsHonest`: a finished job
  reported every plate once and in order (`FinishedIsComplete`), after a cancel
  at most one plate boundary is still reported (`CancelIsPrompt`), a job is
  registered as long as its worker may speak and no Failed or Finished status
  precedes the last plate event (`StatusServesTheWorker`). `RegistryDrains`:
  every registered job leaves the registry. `ImplementsLifecycle`: the workers
  refine `SliceLifecycle`, its fairness included. `TypeOK`.
- **slice_page.** `EngineIsOwned`: the shim's globals belong to whoever holds
  the lock (`EngineExclusive`), a cancel can reach only a Print that is in
  `process()` (`PublishedWhileProcessing`), calibration parameters reach their
  own slice (`SweepOnlyCalibrates`). `PanelIsTrue`: complete, failed or
  cancelled on the page is what happened (`OutcomeIsTrue`), a page that was not
  reloaded never has two workers (`OneJobPerPage`), Running with nothing on its
  way means a worker at work (`RunningIsLive`).
- **ui_reload.** `PageRecovers`: over a reload the outcomes stay true and Running
  does not last (`RunningEnds`).
- **output.** `OutputIsCurrent`: the path Send takes matches the plate unless the
  plate changed under that very slice or by a change that sends no edit event
  (`PathIsCurrentUnlessOvertaken`), once a
  later slice announced a plate an older output is never offered
  (`NoOlderOutput`), preview and path are of the same slice (`ShownIsSent`).
  `HandlesOwned`: a preview handle is live exactly while it is cached, on its
  way, or about to be dropped.
- **document.** `EditsAreKept`: when the autosave thread would skip its tick the
  project is completely on disk (`SkippedIsStored`), after a graceful exit the
  edits are on disk (`ExitKeepsEdits`). `CrashCostsOnlyTheTorn`: a crash at any
  step leaves every project a copy as new as the newest ever completely written,
  if no file of it was torn and no Save has just unlinked a newer recovery file
  (`undercut`, section 4). `TowerIsTrue`: the tower is drawn where it is sliced once
  every change of its plate was heard (`DrawnWhereSliced` names what is left out), a
  press acts on what is drawn, a tower stays on the bed, its mesh fits unless an
  edit overtook the slice or nobody heard of it. `PlacedIsSound`: the hull is the
  hull, every unit is placed exactly once and lies where the nester put it, a clamped
  selection is inside (`ArrangementIsSound`); the generated meshes are closed
  and face outward (`PrimitiveIsSolid`).
- **scene.** `ReferencesHold`: every object's mesh, material and plate exists,
  the pool holds what is used, the selection and the primitive cache resolve (the
  cache unless an undo took its mesh, section 4). `BindingsHold`: a group is on
  one plate, materials are bound exactly as they are used, each to a slot of the
  plate's own printer in a layout it may have: not always one it still has
  (section 4). `HistoryOK`; `RestoreIsWhole`: the snapshot under the cursor
  is the live project when nothing is under way (`HistoryMirrors`), the GPU and
  the paint session do not outlive their mesh. `CutTakesItsSources`: what a cut
  replaces is what it was asked to cut.
- **drivers.** `SendIsExact`: one upload at a time, and it is cancelled exactly
  when asked (`OneUpload`, `CancelIsExact`). `DriverIsTrue`: a removed driver has
  no task left, no driver shows Connected without a session, a command reports
  success only if the printer confirmed, a calibration ends by its own report.
  `TeardownFinishes`: a teardown ends, unless the request queue stays full and
  nobody reads it (`QueueStuck`, section 4). `PageSettles`: the page ends with the
  printer's last state.
- **devices.** `TokenIsApproved`; `SlotsAreTrue`: the status is the printer's, a
  sync agrees with it, a pick survives syncs, a material prints from its tray,
  one calibration per tray and of its spool, no two slots share a name or an
  address; which address a slot of a second unit has is not claimed (section 4).
  `SessionFollows`, `CameraIsServed`: statuses are faithful, workers settle; one
  stream, watched cameras are awake, unwatched ones released. `RegistryIsTrue`:
  the file is what the list says and a printer has one driver.
  `ConnectionsConverge`: when nothing more happens, each printer is connected as
  its entry says. `LoadoutArrives`: a sync armed by a new connection is taken.
- **profiles.** `SettingIsAuthored`: what is shown as resolved is the highest
  matching layer and its fallback what lies below, qualities fit the nozzles.
  `EngineGetsItsOwn`: a filament's settings are its own in the engine's vectors,
  follow the spool, and are values the engine accepts. `NothingUnsafePasses`:
  what passes the last check is no hotter than the limit in the form the engine
  gets. `LibraryKeeps`: saving, stamping and clearing keep values.
- **artifacts.** `PreviewIsTrue`: ranges partition the segments, filament and
  time are conserved, a parse and a write give the file back, colours are
  ordered as values are. `PluginsAreContained`: a hook's result is taken whole or
  not at all; a plugin that is off changes nothing. `FileIsRead`,
  `OverridesAreFaithful`, `BundleIsWhole`: what was in the file is in the
  project, once, with its paint and its own overrides; the bundle's readers
  agree. `PaintIsTrue`: the paint that is shown is sliced, recorded and undone by
  the drag.

### Bounds and why they are enough

- `MaxPlates = 2`: the worker's loop has a first plate, a next one and an end; a
  third repeats the second. `MaxTicks = 1`: the callback's effect on the status
  is idempotent. One calibration and two jobs: contention for the engine, and a
  cancel that meets either kind of stranger. `MaxReloads = 1`: a second reload
  finds what the first one found.
- `MaxPlate = 2`, `MaxEdits = 2` in `SliceOutput`: an id can be removed and
  reused; a change, heard or not, can fall before, in and after a slice.
- `MaxEdits = 2` in `DocumentSave`: one change in a file, another only in memory,
  from different threads. `MaxTroubles = 2` bounds starts and I/O errors
  together: start, crash, start again; or one start and one error. Two uuids: a
  project opened over another one. That is enough for the Save that undercuts: it
  clones, an edit follows, the thread writes it, the Save unlinks it. The tower has
  two plates (switching is one way to go stale), spots at both ends of the bed and
  one message in flight; two edits: one heard and one not, or one undone.
- `MCRotation`: a printer with two AMS slots and with one, so that a command finds
  fewer slots, or more, than a binding was made from; and a printer of one slot.
- `MaxDepth = 3`: a snapshot below the cursor, at it and above it, and the cap.
  Workloads bound commands and objects per family, so that each family's race is
  explored without the product of all.
- `Budget` bounds what users and networks do in a behaviour (sends, commands,
  drops, edits), not what the code does with it; two are a thing and what
  overtakes it. `ReqCap = 1` and `RawCap = 1` stand for the 32- and 64-slot queues
  of the code: with one slot every send can meet a full queue, the event loop's own
  requests and `disconnect()` among them. The safety of the drivers is proved for
  every capacity.
- `PerUnit = 2`, `MaxUnits = 2`: a unit with more than one tray, and a second one.
- `Workers = 3`: a camera replaced while its predecessor is still releasing, and
  the next. `Attempts = 2`, `Others = 2`: an answer to an earlier attempt of
  ours, and two strangers that may be approved or refused.
- The catalogue of `profiles` has a printer with an AMS, a tool changer that
  routes in firmware and one that does not, two spools of one type with
  different settings, one setting in each tier.
- Files of three lines: a marker, a move and a marker again; three 3MF items: two
  objects and a group or a plate.
- `CHECK_DEADLOCK FALSE`: those instances stop when their jobs or budgets are used
  up; that is no deadlock of the code. That what is started ends is what
  `RegistryDrains`, `TeardownFinishes`, `WorkerSettles` and their like say.
  `profiles` has no end and checks deadlock.

Each property of a passing run has a mutant in `PROJECT.json`: a plausible bug
in a mapped definition (a dropped check, an early drop, a late read) under which
TLC finds that property violated. The mutants' definitions stand directly before
what they replace and are used by nothing else.

### Fairness

- `SliceJobs!Fairness` is weak fairness of each worker thread, of each thread in
  the engine and of the command the main thread is in: an OS thread that can run
  does, and `process()` terminates (it is a computation; an abort only makes it
  shorter). `SLICE_LOCK` needs no strong fairness: with finitely many jobs it is
  eventually free for good. Nobody has to start or cancel anything, and `Tick` is
  not fair. `SliceUi` adds that an accepted command runs and that the page
  dispatches what it is sent.
- `DriverFairness`: the tasks of a driver, the calls on it, the sends and the
  commands move on when they can: the runtime schedules them, and an await that is
  bounded by a timeout ends. An await for a slot of the request queue has no bound
  in the code and none in the model: it ends when a slot is free. rumqttc moves
  what is in its channel to a list of its own when a link is lost, so the queue is
  one bound for both. The network and the user are not fair.
- `InstancesFairness`: the page works off its queue and handles the reports it
  gets, and a connected driver reports sooner or later.
- `SessionFairness`, `CameraFairness`: a worker runs, the wake task sends its
  heartbeat, and the printer's own watchdog expires.
- `SliceOutput`, `DocumentSave`, `SceneSession`, the profiles and the artifacts
  are checked for safety only.

## 4. What the code does that its text denies

`disconnect_hangs`: the driver's event loop is the only reader of its request
queue (32 slots, `core/driver/bambu/connection.rs:199`), and on every ConnAck it
waits for two slots of that queue (`:970-996`). If commands filled the queue while
the link was down, it never comes back to its poll. `disconnect()` takes the
shutdown channel, which the loop does not look at there, and then waits for a slot
as well (`:251`): the five-second abort behind it, with its comment "never let a
wedged task hang disconnect: abort on timeout instead of detaching it" (`:259`), is
never reached, and the driver's lock stays taken.

`custom_survives_restart`: a custom filament or process that overrides nothing
yet is written to disk but skipped when the library is loaded again
(`core/filament/library.rs:270`, `core/process/library.rs:243`), against the
comments that promise it (`core/filament/library.rs:169`,
`core/process/library.rs:165`). A plate that chose it keeps an id that names
nothing; stamping that plate then writes a profile whose base is that id, which
cannot be composed.

Also seen while modelling. The models have the behaviour, and where a property
would fail because of it, the property's name says what it exempts
(`...UnlessOvertaken`, `...UnlessRestored`, `...UnlessLateMiss`).

Slices and their output:
- `slice_cancel` aborts whichever Print is published: a waiting job, cancelled
  while a calibration is in `process()`, aborts the calibration.
- A job that ends before the reply of `slice_active_plate` is dispatched leaves
  the window at "starting". The status stays Running after a cancel, so a
  reloaded page resumes a job that has ended. A PlateStarted under way when
  Cancel is pressed flips "cancelling" back (`page/slice/reducer.ts:81`, against
  the comment at 89).
- An edit during a slice has no path to drop; PlateFinished installs an outdated
  one. A `preview_load` under way when the plate is edited fills the cache after
  the edit emptied it; `forgetPlate` is never called
  (`page/preview/useSlicePreviewBridge.ts:137`).
- A change outside the plate's own edit events leaves a path Send still takes,
  though "Send/Export can't push a gcode that no longer matches the plate"
  (`page/slice/useLastSliceOutput.ts:54`): changes of the bound printer emit
  only `printer:instance_changed` (`core/printer/mod.rs:58`), of a filament only
  `filament:changed` (`core/filament/mod.rs:31`), `user_process_revert` without
  `apply` nothing (`core/project/commands.rs:366`), and a stamp reaches every plate
  that uses the profile but is announced for one. None of them is in
  `page/project/editEvents.ts`.
- `next_plate_id` is documented as monotonic and reuses ids
  (`core/project/mutation/plates.rs:15`).

Document and undo:
- Removing a plate emits only neutral events: the project looks saved, is not
  autosaved and gets no undo step, and the plate's meshes stay in the pool.
- Save and autosave truncate in place: a crash after that leaves no readable
  copy. `project_save_as` sets `source_path` before the write
  (`core/project/commands.rs:485`). A recovery entry the user keeps is
  overwritten by the next autosave of its project (`core/project/autosave.rs:258`).
- An async edit between Save's clone and ProjectSaved is marked clean
  (`core/project/dirty.rs:74`); an autosave tick past its gate writes a recovery
  file after Save dropped it.
- Save drops the recovery file as "stale" (`core/project/commands.rs:459`) without
  looking: an async edit after Save's clone, completely autosaved before Save ends,
  is unlinked with it, and a crash before the next tick loses it although it was on
  disk.
- The primitive cache survives an undo and may name a mesh that is gone
  (`core/project/history.rs:61`, the panic at `mutation/geometry.rs:233`); the mesh
  store is documented as never pruned (`history.rs:5`) and is. A cut that
  interleaves with commands leaves the history one step off (`history.rs:11`);
  a cut lands on whatever plate is active when it is applied
  (`mutation/geometry.rs:1267`).
- Undo and import with no frame between leave a stale GPU mesh. The paint session
  is not closed when the project is replaced (`app/paint_tool.rs:163`).
- `move_objects` ignores painted materials; a move between printers copies slots
  (`mutation/plates.rs:230`); delete leaves a group of one (`geometry.rs:518`);
  `group_objects` stops half-way at an unknown id; imported object overrides
  skip the checks the editor makes (`mutation/overrides.rs:18`).

- "Slot refs don't survive a topology change" (`mutation/plates.rs:226`) is heeded
  when a plate is bound to another printer only. `printer_instance_set_ams_units`,
  `printer_instance_update` (`core/printer/mod.rs:381-407`) and the automatic sync
  (`core/printer/sync.rs`) take slots from a bound printer and leave
  `material_to_slot` as it is: a plate may name a slot that is gone.

Viewport:
- The viewport's listeners live as long as the Prepare layout
  (`page/App.tsx:615-645`, `page/viewport/WgpuViewport.tsx:1196-1221`); undo and redo
  work in the others, and its mount effect does not invalidate (`:1225`). An edit
  undone in Preview, a changed printer and a reverted process leave the old tower
  drawn until the next event it hears. Leaving Prepare in a drag commits nothing and
  keeps the drag.
- A press that missed and was released before its answer clears the paint flags
  (`page/viewport/WgpuViewport.tsx:627`, comment at 468); two presses or an undo
  in a drag merge undo steps.
- A tower dragged and released before the first answer commits nothing and
  leaves the drag set; a commit goes to the plate that is active at release, in
  two commands. `emit_sink` labels a tower mesh with the slots of the moment the
  plate finished; width and brim edits reshape the tower and keep the mesh.
- `ArrangeResult.un_placed` is documented for objects that did not fit
  (`core/scene/arrange.rs:62`) and holds others (line 118).

Printers:
- A failed probe is never retried (`core/driver/backoff.rs:15` promises it);
  `await_cali_job` may see the previous job's Finished; reports are dropped on a
  full queue;
  `core/driver/bambu/status.rs:782` denies the race of lines 786-787.
- The bridge drops an update that comes within 500 ms of the last
  (`core/driver/commands.rs:213`); held events are replayed by key, not by time
  (`page/state/eventRouter.ts:62`).
- An aborted Moonraker worker may publish after Disconnected and put a handle in
  the slot that the disconnect has just cleared (`core/driver/moonraker/driver.rs:206`);
  a WebSocket has no keepalive; a page reload leaks drivers and camera workers.
- Duplicate or stale plans are said to converge
  (`page/driver/useDriverConnections.ts:667`): a deleted printer can keep a
  driver. A sync armed by a new connection is used up by the old driver's report
  (204-209). "Fill-only" K values are seeded from a stale copy
  (`core/printer/mod.rs:601`).
- Another client's rejection fails our pairing; deleting an instance leaves its
  token file; the stop_monitor of a replaced camera may come after the new start.
- `ams_mapping` is documented as the slot *within the unit* and `ams_id` as 0..N-1
  (`core/driver/ams.rs:108-116`), and below that as one unit only, always id 0
  (138-141). The code numbers slots on through the units under id 0. For one unit
  the two agree and the model claims the tray; for several it claims no tray.
- Accumulated AMS units never shrink; a default filament put into a new slot is
  later taken for the user's pick; an empty tray keeps its error.

Profiles and files:
- `predicate_value` does not know `nozzle.diameter`
  (`core/project/context.rs:60`); `cascade_safety` looks at the first element of
  a vector; the pressure-advance table overrides the user's own value; authored
  order is the order of table keys (`docs/dev/profiles.md`); the tower's
  geometry ignores the user's own overrides; the gate ignores painted materials.
- `GcodeDoc` drops malformed moves, so any post-slice plugin deletes those lines;
  the slider hides the top layer (`page/preview/layerWindow.ts`); a purge before the
  first marker opens a second layer 0; a range of equal values is drawn with the
  ramp's end, not its middle (`core/preview/colors.rs:73`).
- A bundle is always written for an A1 mini with a default summary
  (`wrap_gcode_as_3mf`, `core/driver/send.rs:27`, uses a test helper); the
  duration parser skips days.
- An object placed twice in a foreign file becomes one group on the first plate;
  skipped keys are not in the report; painted plates of a one-filament file do
  not bind filament 1. A paint string whose dominant states are all 0 is shown
  as unpainted though its leaves are painted.

## 5. Proofs

The theorems hold for every value of the constants that satisfies the named
assumptions of the modules, which TLC evaluates in the runs: the sets of jobs
and calibrations are disjoint and "nobody" is in neither (`EngineAssumption`),
bounds are naturals and a job has a plate (`BoundsAssumption`,
`DocumentAssumption`, `OutputAssumption`, `DepthAssumption`,
`InstancesAssumption`), the words for "nothing" are not values
(`DocumentAssumption`, `InstancesAssumption`), a send is none of the other names a
request, a reader or a job may have (`LinkAssumption`), the commands are the four
there are (`CommandsAssumption`), the keys the safety check looks at are in the
engine's schema (`GatedAssumption`), a printer comes with the
fields of its record (`StartsAssumption`), one plate comes first and every printer
has a bed (`TowerAssumption`), a user's filament has a bundled base and each
generic filament is of the type it stands for (`SpoolAssumption`), "not reported"
is no word a tray may report (`WordsAssumption`), and a printer has one to four
toolheads, not more than it is asked about (`ToolheadsAssumption`).

Where a property is not inductive, what it lacks is the point of its proof:

- **Engine** (`SliceJobsProofs`: `EngineIsExclusive`,
  `PrintIsPublishedWhileProcessing`, `SweepNeverLeaks`, together
  `EngineAlwaysOwned` for `EngineIsOwned`). `EngineInv` is the types, the three
  properties and `ArmedIsHeld`: a calibration is armed exactly while its owner is
  between arming and entering. Exclusion is inductive by itself;
  `SweepOnlyCalibrates` needs to know that nothing is armed when an ordinary
  slice enters, which is `ArmedIsHeld`, which needs exclusion. `StepShapes` sorts
  every action into four shapes for the engine (a thread moves outside, moves in
  the engine, leaves it; nobody moves), so the workers' twenty actions are one
  case.
- **Workers** (`JobsTypeCorrect`, `WorkersAreHonest` for `WorkerIsHonest`).
  `done` stays within the plate list only because a worker in a plate has plates
  left: `JobInv` adds `PlatesLeft` and `RegisteredIsStarted` to the types. `HonestInv`
  reads the log against the place of the worker: what it has announced follows
  from `done` and its control point (`Reported`), a boundary announced after the
  cancel is the last (`Prompt`), and a worker that may still speak is registered
  with a status that is not final (`Served`).
- **Refinement** (`JobsFollowTheLifecycle`: `Spec => Lifecycle!Spec`). A move of
  a worker shifts its own phase and no other (`PhaseMove`), an emit is a `Hear`,
  a step that neither speaks nor changes the phase is a stutter (`Silence`);
  `JobInv` supplies the guards of the abstract steps. `LifecycleHasOneOutcome`
  (`SliceLifecycleProofs`) is proved on the abstract machine, where a job that
  has not ended has said nothing terminal (`Silent`), and `JobsHaveOneOutcome`
  carries it over: one outcome at most, and nothing after it. That the events of a
  *finished* job are complete is `FinishedIsComplete`; a failed or cancelled job may
  end with a plate open.
- **Slice panel** (`SliceJobsProofs`). `OutcomesAreTrue` (`UiTypeOK` and the
  `OutcomeIsTrue` of `PageRecovers`, reloads included): what the panel shows of a
  job was on the channel, and what is on the channel is in the job's log
  (`ChannelHeard`), which only grows. `PanelsAreTrue`: `PanelIsTrue` as long as
  the page was not reloaded (after a reload `RunningIsLive` is false: the resumed
  job may have ended before the page listened). `PageInv` says that one job at
  most is *pending*, that is working, on the channel or with its id on the way
  (`OnePending`), that the panel then shows a slice in flight or still waits for
  the id, so the button is disabled (`PendingShows`), that the channel ends in an
  outcome exactly when its job's worker is done (`ChannelEnds`), that a running
  panel's job is working or still on the channel (`RunningIsPending`), and that a
  panel without a job has missed nothing (`FirstWord`): a PlateProgress never
  meets it, because the first event of every job is PlateStarted or Cancelled
  (`Speech`). For the page a step of the backend is one of three (`BackendShapes`:
  mute, one event, one accepted job). Both hold with calibrations slicing at any
  time (`PanelSpec`).
- **Output** (`SliceOutputProofs`). `HandlesAreOwned` (`HandlesOwned`): `OutInv`
  has four parts. `MailInOrder` and `CallsInOrder` say which message may stand
  behind which; `Turns` where the page's one slice is (clicked, prepared, ready,
  active, told), each place excluding the others; `Previews` what becomes of a
  job's preview (finished, asked for, loaded, cached, dropped), each once
  (`Owned`). The order of the queue is what matters: the cached preview is
  dropped before the next one of that plate is asked for (`Emptied`), because
  PlateStarted precedes PlateFinished.
  `SentIsCurrent` (`OutputIsCurrent`): `SentInv` adds that path, cached preview
  and those on their way are of one slice (`OneIsShown`), that a later slice
  which began has been told or is on its way (`Superseded`), and, for every
  place a slice's result can be, that the plate is as it was read, or was changed
  during the slice, or unheard, or the edit that changed it is still on its way
  *behind* the result (`Covered`: the event not yet sent, or one further back in the
  channel).
- **Document** (`DocumentSaveProofs`). `CrashIsSurvived`
  (`CrashCostsOnlyTheTorn`): two threads each about to replace one of a
  project's two files. `Copies` speaks of all four pairs of a copy that is there
  or about to be and its counterpart; in each, one is half written or at least as
  new as what was secured, unless the project is `undercut`: nothing is taken from
  `secured` when a Save unlinks a newer recovery file. `SaveIsOfLive` and
  `FlushIsOfPast` tie what the
  threads hold to the live project, `DialogIsAside` keeps them off what the
  recovery dialog still asks about.
  `EditsStayKept` (`EditsAreKept`): for each reason the autosave thread has to
  skip its tick (nothing dirty, or written since the last mark) `CleanIsKept` and
  `WrittenIsKept` name the copy that has the live project; `FlushIsLive` says
  that what the thread is about to write is live if no mark came since it woke;
  `Counted` bounds the counters against each other; `DoneIsFlushed` carries it
  through the exit.
- **Wipe tower** (`DocumentSaveProofs`). `TowersAreTrue` (`TowerIsTrue`), for any
  plates, beds, configurations and pointer positions. What is drawn is described
  by what it was drawn from (`FrameHolds`): the placement kept for the plate in
  front, the mesh that counts for it, the drag, the printer's bed. Every action
  that changes one of these drops the frame, except the release of a drag, which
  changes only the corner of the configuration, and the press, which resolves
  what the frame has already resolved. The rest says which event, commit or slice is
  under way, or which change was missed, while a placement (`PlacementsFresh`), a
  drag (`DragEnds`) or a slice
  (`SliceIsOfPlate`, `MeshIsLabelled`) is not of its plate. `ClampType` is the
  clamp on integers: whatever the reach, the tower starts on the bed and ends on
  it or fills it.
- **Scene** (`SceneProofs`): `SceneReferencesHold`, `SceneBindingsHold`,
  `SceneRestoreIsWhole` and `SceneCutTakesItsSources`, for any documents,
  printers, slots, materials, workloads and history depth. All four follow from
  `SceneIInv` (`SceneAlwaysOK`). None of the properties is inductive, because an
  undo brings a document back that none of them speaks of. So `SceneIInv` says
  `SessionOK` not of the live session only but, as `Whole`, of every snapshot in
  the history, of every snapshot a thread has captured and is yet to record, and
  of the one a step of the history is restoring. What is excused differs: a
  snapshot is from another time, so it is excused what was *ever* excused (a
  binding the user undid, a plate that got bindings of another printer, the
  meshes of a closed plate), the live session only what is now. `alone` tells
  which record in the making is still of the live session; that is what
  `HistoryMirrors` rests on.
  `SessionOK` itself is kept by one lemma per mutation, on values: a session
  that is whole becomes one that is (`Result`), and no mesh id comes to stand
  for another geometry (`PoolStep`), which the paint tool, the renderer's cache
  and the cut's targets need. Registering objects is proved once (`Grown`: what
  the materials of new objects do to the slots) and used by loads, copies,
  3MF files, halves and pins; removing once for deleting, moving and cutting.
- **Undo** (`SceneProofs`). `StackAlwaysOK` (`HistoryOK`): the cursor is on
  the stack and the stack within its cap, whatever snapshots are handed to it and
  when; `UndoTargetsSurvive`: only the cap and a new document change an undo step
  below the cursor. Stated of the stack driven by any caller, of which
  `SceneSession` is one.
- **Drivers** (`PrinterDriverProofs`: `SendsAreExact` for `SendIsExact`,
  `DriversAreTrue` for `DriverIsTrue`). `DriverInv` has a side of the link and a
  side of the calls, and nearly every step moves one and leaves what the other
  reads alone. Link: `TaskShape` tells which tasks exist at each point of the
  driver's life, so that after a close only a publication already past its await
  is left. Calls: `Locks` and `Tokens` say who reads under the lock and whose
  upload is armed; `Starts` that a send is on its way to the printer once and
  only after its last act, which is what makes a cancel exact on a Bambu;
  `Commanded` that, while the job a command is aimed at is unchanged, neither the
  status nor anything on its way to it (merged report, queued report) says the
  command was obeyed, provided it was settled when the command was checked.
- **Sessions** (`DevicesProofs`, `SessionsAreFaithful`: the safety half of
  `SessionFollows`). Of every field, the last that was said, among what the session
  has merged and what is still on its way, is what the printer is at (`Current`),
  from the moment the answer is on the wire: skipping what precedes it loses
  nothing, because it says everything (`SkipKeeps`), and a merge replaces a field
  and no other (`MergeSays`). `MapOK`: no map has more in it than was asked for, so
  the toolheads that are counted are the printer's, in their order.
- **Cameras** (`DevicesProofs`, `OneCameraAtATime`: the safety half of
  `CameraIsServed`). Whatever is started, stopped and reloaded, a worker that is not
  told to stop is the one the manager would stop.
- **Pairing** (`DevicesProofs`, `TokensAreApproved` for `TokenIsApproved`). The
  invariant speaks of the bus: an approval on its way to us names an id the
  printer's user has approved, whoever asked for it (`Truthful`), and our id is
  never another client's.
- **Spools** (`DevicesProofs`, `SlotsStayTrue` for `SlotsAreTrue`). What makes
  partial reports add up is `Reported`: once there was a full report, each field of
  each attached tray has either been reported as it is or is on the list of what
  the next report carries. An empty list and a flush then make the status the
  trays, so a sync, a send or a calibration reads what is loaded. `TraysFit`: a
  tray is consistent with the pick it holds, which is why a sync keeps that pick
  (a custom filament's through its base). `SpoolTypes`: the slots are whole units
  and then the direct feed, through every resize, so slot k is tray k - 1 for the
  report and the calibration, and for the send on a printer of one unit; for several
  the send's own spellings agree and no address is used twice. The names follow by
  division
  (`PlaceShape`), and that no two are equal by counting (`SameCount`).
- **Plugins** (`PartsProofs`, `PluginsStayContained` for `PluginsAreContained`).
  `HostIInv` speaks of the three lists of lines there are (typed, the running
  plugin's copy, written): a line of a plugin stands in them only if that plugin
  ran to its end or is the one running, may change the plate, and is not ahead of
  its turn (`Earned`, `Copies`). Without the copy the invariant is not inductive:
  a hook that returns makes the copy the list. `TypedLines` and `WrittenLines`
  say that only the last line may lack its end, which is why lines stay apart as
  they are written.
- **Paint** (`PartsProofs`, `PaintStaysTrue` for `PaintIsTrue`). `PaintIInv` adds
  what is on its way between the page and the tool: `FlagsAreSent` (the panel's
  flags are those of the paint or the last answer that hit carries them),
  `OpensAreSent`, and `DragsAreHeard` (while a drag samples, its last sample or
  that sample's answer is in flight and of this drag), from which an undo step is
  one drag. `Numbered` tells one drag's calls from the next one's.
- **Last check** (`PartsProofs`, `CheckHolds` for `NothingUnsafePasses`).
  The check sees resolved values and the printer's catalogue entry, the engine
  gets the adapted configuration and the printer as the user has made it.
  `AdaptedAsResolved`: the adapter drops and substitutes nothing among the gated
  keys; `PrinterOK` (inductive): the printer keeps the slots its entry has.
- **Printers** (`DevicesProofs`, `RegistryHolds` for `RegistryIsTrue`).
  The files: at most one command is between its lock and its file, what it writes
  is what the registry has, and no sync of that instance comes in between, since
  none has begun for a printer that is new or gone (`Writing`, `Created`). The
  drivers: what an instance has registered is told by its entry while nothing is
  under way, and by the reconcile under way otherwise (`Held`); a step of another
  instance's reconcile leaves it alone (`SameHolders`).

Variables with Boolean values are typed in a part of their own (`FlagsOK`) where
the solver needs it.

Only model-checked:

- liveness and the fair half of the refinement (`ImplementsLifecycle`), which
  the prover does not reach: `RegistryDrains`, the `RunningEnds` of
  `PageRecovers`, `TeardownFinishes`, `PageSettles`, `ConnectionsConverge`,
  `LoadoutArrives`, and the ends of `SessionFollows` and `CameraIsServed`;
- what a fold or a `RECURSIVE` operator computes for every input, which is
  induction over data: `SettingIsAuthored`, `EngineGetsItsOwn`, `LibraryKeeps`,
  `PlacedIsSound`, `PreviewIsTrue`, `FileIsRead`, `OverridesAreFaithful`,
  `BundleIsWhole`.

The walks of `ProjectModel` and of the plugins' parser are recursive *functions*
instead. What they compute is proved without an induction scheme: the set of
places where it is right holds 0 and with a place the next one, and a set of
naturals that is not all of them misses a least (`UpTo`, `LeastOne`).

The proof of the scene found one error in its model: the ghost that excuses
`SlotsFitPrinter` was cleared by a rebind, though an undo brings back what was
there before it (move across printers, rebind, undo). It is a pair now, what is
excused at present and what ever was.

## 6. What is not modelled

- Drawing, picking, gizmos, window state, wording, layout and names.
- The text of files: TOML, XML, JSON and ZIP are read as what they say. Lua, the
  nester, libslic3r's geometry and G-code writer, TLS, FTPS and the printers are
  external and modelled by what the code relies on.
- Time: retention, throttles, the autosave interval, backoffs and timeouts are
  steps that may happen whenever they are enabled.
- Panics: those of plugin hooks are caught (`core/slice/orchestrator.rs:675`) and
  the preparation goes on, which `Prepared` covers; a worker that panics elsewhere
  would announce no outcome and never be pruned. `SLICE_LOCK` recovers from
  poisoning (`ffi/src/lib.rs:1814`).
- Page freezing (`page/state/eventRouter.ts`) coalesces only driver events; the
  `slice:*` and edit events are dispatched as they arrive, as modelled.
- `project_save_as` beyond `project_save` (`source_path`).
- A restart of Klipper under a link that holds: the driver does not listen for it,
  and the model's printer keeps the subscription.
- Logging, configuration and packaging. `PROJECT.json` says for each component
  what its modules leave out.

## 7. Plan

1. The profiles' vectors and the arrangement as recursive functions, so that
   `EngineGetsItsOwn` and `PlacedIsSound` can be proved as the scene's walks are.
2. Page freezing and replay; `source_path` of a failed save-as.

## 8. Running it

```
tlc -workers 2 -config SliceJobsPlates.cfg SliceJobs
tlc -workers 2 -config DocumentSave.cfg MCDocumentSave
tlapm SliceOutputProofs.tla
```

`PROJECT.json` pairs every cfg with its module and the properties it checks, and
maps every definition to the lines of the source it stands for. No passing run
takes more than four minutes with two workers. The eight proof modules have
25,249 obligations, of which `SceneProofs` has 8,412.
