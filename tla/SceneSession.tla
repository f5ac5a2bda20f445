---------------------------- MODULE SceneSession ----------------------------
(***************************************************************************)
(* The live `Session` behind its mutex and everything that takes it: the   *)
(* scene and project commands on the main thread, the split tool on the    *)
(* blocking pool, the undo history, the viewport's GPU mesh cache and the  *)
(* support-paint tool.                                                     *)
(*                                                                         *)
(* A command mutates the session under the lock, releases it, then runs    *)
(* emit_all, whose history::track captures the session under a second lock *)
(* and records it under the history's own. Main-thread commands are        *)
(* serialised (main.pc walks idle -> emitted -> captured -> idle), the     *)
(* split tool's thread interleaves with all of that.                       *)
(*                                                                         *)
(* `Workloads` are the ways of working a run exercises: the families of    *)
(* commands, the documents and inputs they get, and the bounds on commands *)
(* and objects.  A behaviour is one of them.                               *)
(***************************************************************************)
EXTENDS ProjectModel, UndoHistory

CONSTANTS Workloads,   \* records, in a function from their names
          Starts,      \* the documents each of them starts with
          Documents,   \* documents that can be opened
          Geometries,  \* of the files that can be loaded
          Cuts,        \* connector and kept sides of the cuts that are tried
          MaxPlates, Materials, Kinds,
          FirstFresh   \* no document has a group beyond it

-----------------------------------------------------------------------------
(* What is said of a document, whatever became of it.                      *)

Objects == [id : Nat, mesh : Nat, mat : Materials \cup {NoMaterial}, group : Nat, pose : {0, 1}]

PlateShape(plate) ==
    /\ {"id", "printer", "objects", "groups", "over", "mods", "slots"} \subseteq DOMAIN plate
    /\ plate.id \in Nat
    /\ plate.printer \in Instances \cup {Unbound}
    /\ plate.objects \in Seq(Objects)
    /\ DOMAIN plate.slots \subseteq Materials

DocumentShape(p) ==
    /\ {"plates", "active", "meshes", "lastMesh", "lastObject"} \subseteq DOMAIN p
    /\ p.plates \in Seq({p.plates[i] : i \in DOMAIN p.plates})
    /\ p.active \in DOMAIN p.plates
    /\ p.lastMesh \in Nat /\ p.lastObject \in Nat
    /\ \A i \in DOMAIN p.plates : PlateShape(p.plates[i])
    /\ \A m \in DOMAIN p.meshes :
         /\ m \in 1..p.lastMesh
         /\ {"of", "paint", "sup"} \subseteq DOMAIN p.meshes[m]
         /\ p.meshes[m].paint \subseteq Materials

\* What a plate says is there: its objects' meshes and their connector
\* volumes are in the pool, the connectors belong to objects of its own, and
\* no id stands twice.
Resolves(p, plate) ==
    /\ \A k \in DOMAIN plate.objects :
         /\ plate.objects[k].id \in 1..p.lastObject
         /\ plate.objects[k].mesh \in DOMAIN p.meshes
    /\ \A j, k \in DOMAIN plate.objects : plate.objects[j].id = plate.objects[k].id => j = k
    /\ DOMAIN plate.mods \subseteq IdsOn(plate)
    /\ \A x \in DOMAIN plate.mods : plate.mods[x] \subseteq DOMAIN p.meshes

\* And no id, of a plate or of an object, stands on two plates.
IdsApart(p) ==
    \A i, j \in DOMAIN p.plates : i # j =>
        /\ p.plates[i].id # p.plates[j].id
        /\ IdsOn(p.plates[i]) \cap IdsOn(p.plates[j]) = {}

References(p) == IdsApart(p) /\ \A i \in DOMAIN p.plates : Resolves(p, p.plates[i])

GroupsOn(plate) == GroupsOf(plate, IdsOn(plate))
GroupsApart(p) ==
    \A i, j \in DOMAIN p.plates :
        i # j => GroupsOn(p.plates[i]) \cap GroupsOn(p.plates[j]) = {}

Bound(plate) == plate.printer # Unbound

\* Of a bound plate, but for the pairs of a plate and a material in `but`.
UseIsBound(p, plate, but) ==
    LET use == MaterialsOn(p, plate)
        excuse == {m \in Materials : <<plate.id, m>> \in but}
    IN Bound(plate) => /\ use \subseteq DOMAIN plate.slots \cup excuse
                       /\ DOMAIN plate.slots \subseteq use \cup excuse

Fits(plate) ==
    plate.printer # Unbound => \A m \in DOMAIN plate.slots :
                                   plate.slots[m] \in AllSlots[plate.printer]

\* What opens is a document: the files are written by the program.
IsDocument(d) ==
    /\ DocumentShape(d) /\ References(d) /\ GroupsApart(d)
    /\ \A i \in DOMAIN d.plates : GroupsOn(d.plates[i]) \subseteq 1..FirstFresh

ASSUME SceneAssumption ==
    /\ IsFiniteSet(Materials) /\ Materials \subseteq Nat \ {0} /\ 1 \in Materials
    /\ FirstFresh \in Nat
    /\ Unbound \notin Instances
    /\ \A inst \in Instances : \A walk \in Rotation[inst] :
         walk \in Seq(AllSlots[inst]) /\ walk # << >>
    /\ \A g \in Geometries : {"of", "paint", "sup"} \subseteq DOMAIN g /\ g.paint \subseteq Materials
    /\ \A c \in Cuts : c.kept \subseteq {0, 1}
    /\ \A load \in DOMAIN Workloads : \A d \in Starts[load] : IsDocument(d)
    /\ \A d \in Documents : IsDocument(d)

VARIABLES
    session,    \* the mutex-protected Session
    poisoned,   \* a panic happened while it was held
    main,       \* what the main thread is in the middle of
    cut,        \* the split tool's worker
    gpu,        \* the renderer's mesh cache: MeshId -> geometry
    paint,      \* the open support-paint session, or NoPaint
    work,       \* [load, steps]: the workload, and its commands so far
    \* Ghosts, read by the properties only:
    epoch,      \* how many times the document was replaced
    restored,   \* the document was restored since it was replaced
    overtaken,  \* a history entry was made out of step with the session
    excused,    \* (plate, material) pairs whose binding the user undid
    crossed,    \* plates with bindings of another printer: now, and ever
    leaked      \* meshes that were on a plate when it was removed

ghosts == <<epoch, restored, excused, crossed, leaked>>
vars == <<session, poisoned, main, cut, gpu, paint, work, historyVars,
          overtaken, ghosts>>

Load == Workloads[work.load]
StepsLeft == work.steps < Load.steps
CountStep == work' = [work EXCEPT !.steps = @ + 1]

NoPaint == [mesh |-> 0]
Idle == [pc |-> "idle"]

project == session.project
active == ActivePlate(project)
PlateIds == {project.plates[i].id : i \in DOMAIN project.plates}

\* Non-empty sets of objects of the active plate a command may be given.
Picks == {ids \in SUBSET IdsOn(active) : Cardinality(ids) \in 1..2}
Room(n) == project.lastObject + n <= Load.objects

\* What a restore can bring back: the document and every plate's selection.
Capture(s) == [project |-> s.project, selection |-> s.selection]

\* Ghosts: what a document comes with from its file, and what a history
\* record still in the making may bring in from the document before it.
Unmatched(d) ==
    UNION {{d.plates[i].id} \X {m \in Materials :
                (m \in MaterialsOn(d, d.plates[i])) # (m \in DOMAIN d.plates[i].slots)}
             : i \in DOMAIN d.plates}
Misfits(d) == {d.plates[i].id : i \in {j \in DOMAIN d.plates : ~ Fits(d.plates[j])}}
Unused(d) == DOMAIN d.meshes \ Referenced(d)

ComesWith(d, stale) ==
    /\ excused' = Unmatched(d) \cup (IF stale THEN excused ELSE {})
    /\ crossed' = [now  |-> Misfits(d),
                   ever |-> Misfits(d) \cup (IF stale THEN crossed.ever ELSE {})]
    /\ leaked' = Unused(d) \cup (IF stale THEN leaked ELSE {})

Init ==
    /\ work \in [load : DOMAIN Workloads, steps : {0}]
    /\ \E d \in Starts[work.load] :
         /\ session = NewSession(d, FirstFresh)
         /\ excused = Unmatched(d)
         /\ crossed = [now |-> Misfits(d), ever |-> Misfits(d)]
         /\ leaked = Unused(d)
    /\ HistoryInit(Capture(session))
    /\ poisoned = FALSE
    /\ main = Idle /\ cut = Idle
    /\ gpu = << >>
    /\ paint = NoPaint
    /\ epoch = 0 /\ restored = FALSE /\ overtaken = FALSE

-----------------------------------------------------------------------------
(* The command frame. *)

\* The split tool's thread between its edit and its history record.
CutRecording == cut.pc \in {"emitted", "captured"}

\* Ghost bookkeeping: the session changed under a record in the making.
Overtake(thread) ==
    IF thread.pc \in {"captured", "restoring"} THEN [thread EXCEPT !.alone = FALSE] ELSE thread

\* A main-thread command of a family, up to where it has the session.
Ready == main.pc = "idle" /\ ~poisoned /\ StepsLeft

Enter(family) ==
    /\ family \in Load.commands
    /\ Ready
    /\ CountStep

\* It leaves `next` behind and emits events: an "edit", only a "select", a
\* "reset" (a document was loaded), or nothing the history looks at.
Leave(next, kind) ==
    /\ session' = next
    /\ main' = IF kind = "quiet" THEN Idle ELSE [pc |-> "emitted", kind |-> kind]
    /\ overtaken' = \/ overtaken
                    \/ (kind = "quiet" /\ Capture(next) # Capture(session))
    /\ cut' = Overtake(cut)
    /\ UNCHANGED <<poisoned, historyVars>>

Edit(family, next) ==
    /\ Enter(family)
    /\ Leave(next, "edit")
    /\ UNCHANGED <<gpu, paint>>

EditProject(family, p) == Edit(family, [session EXCEPT !.project = p])

\* history::track for the events just emitted: a capture under the session
\* lock, then a record under the history's.
Remember(kind, snap) ==
    CASE kind = "edit" -> Record(snap)
      [] kind = "select" -> RefreshCurrent(snap)
      [] kind = "reset" -> Reset(snap)

TrackCapture ==
    /\ main.pc = "emitted"
    /\ ~poisoned
    /\ main' = [pc |-> "captured", kind |-> main.kind, snap |-> Capture(session),
                alone |-> ~CutRecording]
    /\ UNCHANGED <<session, poisoned, cut, gpu, paint, work, historyVars, overtaken, ghosts>>

TrackRecord ==
    /\ main.pc = "captured"
    /\ Remember(main.kind, main.snap)
    /\ overtaken' = (~main.alone \/ CutRecording)
    /\ main' = Idle
    /\ UNCHANGED <<session, poisoned, cut, gpu, paint, work, ghosts>>

-----------------------------------------------------------------------------
(* Adding objects. *)

\* A panic under the lock poisons it: no later command gets the session.
AddPrimitive(kind) ==
    /\ Room(1)
    /\ IF PrimitivePanics(session, kind)
       THEN /\ Enter("add")
            /\ poisoned' = TRUE
            /\ UNCHANGED <<session, main, cut, gpu, paint, historyVars, overtaken>>
       ELSE \E walk \in Walks(active.printer) :
              Edit("add", AddFromPrimitive(session, kind, walk))
    /\ UNCHANGED ghosts

LoadMeshFile(geom) ==
    /\ geom \in Load.geometries
    /\ Room(1)
    /\ \E walk \in Walks(active.printer) : EditProject("add", LoadMesh(project, geom, walk))
    /\ UNCHANGED ghosts

LoadThreeMfFile(geoms, grouped, keys) ==
    /\ {geoms[1], geoms[2]} \subseteq Load.geometries
    /\ Room(Len(geoms))
    /\ \E walk \in Walks(active.printer) :
         Edit("import", LoadThreeMf(session, geoms, grouped, keys, walk))
    /\ UNCHANGED ghosts

CloneObjects(ids, times) ==
    LET src == InOrder(active, Expand(active, ids))
    IN /\ Room(times * Len(src))
       /\ \E walk \in Walks(active.printer) :
            Edit("clone", CloneTimes(session, src, times, walk))
       /\ UNCHANGED ghosts

\* Needs a bed; the copy that would not fit costs no more than its ids, and
\* with no copy that fits nothing is emitted.
FillPlateWith(ids, kept) ==
    LET src == InOrder(active, Expand(active, ids))
    IN /\ active.printer # Unbound
       /\ Room((kept + 1) * Len(src))
       /\ Enter("clone")
       /\ \E walk \in Walks(active.printer) :
            Leave(FillPlate(session, src, kept, walk), IF kept = 0 THEN "quiet" ELSE "edit")
       /\ UNCHANGED <<gpu, paint, ghosts>>

-----------------------------------------------------------------------------
(* Changing objects. *)

\* set_transform, align axis, align face, lay flat.
Pose(p, ids) == EditActive(p, EditObjects(ActivePlate(p), LAMBDA o :
                    IF o.id \in ids THEN [o EXCEPT !.pose = 1] ELSE o))

PlaceObjects(ids) == EditProject("place", Pose(project, ids)) /\ UNCHANGED ghosts

\* Auto-orient reads the geometry, lets go of the lock while the optimizer
\* runs, and applies the rotation only if every object is still there.
AutoOrientRead(ids) ==
    /\ Enter("orient")
    /\ main' = [pc |-> "orienting", ids |-> Expand(active, ids)]
    /\ UNCHANGED <<session, poisoned, cut, gpu, paint, historyVars, overtaken, ghosts>>

AutoOrientApply ==
    /\ main.pc = "orienting"
    /\ ~poisoned
    /\ IF main.ids \subseteq IdsOn(active)
       THEN Leave([session EXCEPT !.project = Pose(@, main.ids)], "edit")
       ELSE Leave(session, "quiet")
    /\ UNCHANGED <<gpu, paint, work, ghosts>>

\* With an unknown id the command fails half-way and emits nothing.
Group(ids, unknown) ==
    /\ Cardinality(ids) + (IF unknown THEN 1 ELSE 0) >= 2
    /\ Enter("group")
    /\ Leave(GroupObjects(session, ids, unknown), IF unknown THEN "quiet" ELSE "edit")
    /\ UNCHANGED <<gpu, paint, ghosts>>

Ungroup(g) == EditProject("group", UngroupObjects(project, g)) /\ UNCHANGED ghosts

NameGroup(g) == EditProject("group", RenameGroup(project, g)) /\ UNCHANGED ghosts

SetOverride(i, id, key) ==
    EditProject("override", ObjectOverrideSet(project, i, id, key)) /\ UNCHANGED ghosts

ClearOverride(i, id, key) ==
    LET next == ObjectOverrideClear(project, i, id, key)
    IN /\ next # project
       /\ EditProject("override", next)
       /\ UNCHANGED ghosts

SetMaterial(id, mat) ==
    /\ \E walk \in Walks(active.printer) :
         EditProject("material", SetObjectMaterial(project, id, mat, walk))
    /\ UNCHANGED ghosts

\* The slot panel: pin a material to a slot, or take its binding away.
PinSlot(i, mat, slot) ==
    /\ SlotExists(project.plates[i], slot)
    /\ mat \in DOMAIN project.plates[i].slots => project.plates[i].slots[mat] # slot
    /\ EditProject("material", SetSlot(project, i, mat, slot))
    /\ excused' = excused \cup {<<project.plates[i].id, mat>>}
    /\ UNCHANGED <<epoch, restored, crossed, leaked>>

ClearSlot(i, mat) ==
    /\ mat \in DOMAIN project.plates[i].slots
    /\ EditProject("material", EditPlate(project, i,
           [project.plates[i] EXCEPT !.slots = Without(@, {mat})]))
    /\ excused' = excused \cup {<<project.plates[i].id, mat>>}
    /\ UNCHANGED <<epoch, restored, crossed, leaked>>

Delete(ids) == Edit("delete", DeleteObjects(session, ids)) /\ UNCHANGED ghosts

Crossing(id) == [now |-> crossed.now \cup {id}, ever |-> crossed.ever \cup {id}]

\* Painted materials are not carried along, and bindings are carried between
\* printers as they are: the ghosts remember both.
Move(from, to, ids) ==
    LET src == project.plates[from]
        dst == project.plates[to]
        going == {o \in ObjectsOn(src) : o.id \in Expand(src, ids)}
        painted == UNION {PaintOf(project, o.mesh) : o \in going}
    IN /\ from # to
       /\ \E walk \in Walks(dst.printer) :
            Edit("move", MoveObjects(session, from, to, ids, walk))
       /\ excused' = excused \cup ({src.id, dst.id} \X painted)
       /\ crossed' = IF src.printer = dst.printer /\ src.id \notin crossed.now
                     THEN crossed ELSE Crossing(dst.id)
       /\ UNCHANGED <<epoch, restored, leaked>>

\* What spills goes to a new plate as a move does.
AutoArrange(spilled) ==
    LET painted == UNION {PaintOf(project, o.mesh) :
                            o \in {q \in ObjectsOn(active) : q.id \in UNION spilled}}
    IN /\ active.printer # Unbound
       /\ spilled # {} => Len(project.plates) < MaxPlates
       /\ \E walk \in Walks(active.printer) :
            Edit("arrange", ApplyArrangement(session, spilled, walk))
       /\ excused' = excused \cup ({active.id, NextPlateId(project)} \X painted)
       /\ crossed' = IF spilled # {} /\ active.id \in crossed.now
                     THEN Crossing(NextPlateId(project)) ELSE crossed
       /\ UNCHANGED <<epoch, restored, leaked>>

-----------------------------------------------------------------------------
(* Plates. Adding an unbound plate, removing one and switching emit events *)
(* the history ignores.                                                    *)

CreatePlate(default) ==
    LET next == AddPlate(project, IF active.printer = Unbound THEN default ELSE Unbound)
        bound == next.plates[Len(next.plates)].printer
    IN /\ Len(project.plates) < MaxPlates
       /\ Enter("plates")
       /\ Leave(Reconcile([session EXCEPT !.project = next]),
                IF bound = Unbound THEN "quiet" ELSE "edit")
       /\ UNCHANGED <<gpu, paint, ghosts>>

ClosePlate(i) ==
    LET p == project.plates[i]
    IN /\ Len(project.plates) > 1
       /\ Enter("plates")
       /\ Leave(Reconcile([session EXCEPT !.project = RemovePlate(@, i)]), "quiet")
       /\ leaked' = leaked \cup {o.mesh : o \in ObjectsOn(p)}
                           \cup UNION {p.mods[x] : x \in DOMAIN p.mods}
       /\ UNCHANGED <<gpu, paint, epoch, restored, excused, crossed>>

Activate(i) ==
    /\ i # project.active
    /\ Enter("plates")
    /\ Leave([session EXCEPT !.project.active = i], "quiet")
    /\ UNCHANGED <<gpu, paint, ghosts>>

Rebind(i, inst) ==
    /\ \E walk \in Walks(inst) :
         Edit("printers", Reconcile([session EXCEPT !.project = RebindPrinter(@, i, inst, walk)]))
    /\ crossed' = [crossed EXCEPT !.now = @ \ {project.plates[i].id}]
    /\ UNCHANGED <<epoch, restored, excused, leaked>>

\* The last printer was deleted.
Unbind(i) ==
    /\ Edit("printers", Reconcile([session EXCEPT !.project = UnbindPrinter(@, i)]))
    /\ UNCHANGED ghosts

-----------------------------------------------------------------------------
(* Selection. *)

SelectObjects(ids, mode) ==
    LET next == Select(session, ids, mode)
    IN /\ next # session
       /\ Enter("select")
       /\ Leave(next, "select")
       /\ UNCHANGED <<gpu, paint, ghosts>>

DeselectAll == SelectObjects({}, "replace")

-----------------------------------------------------------------------------
(* Undo and redo: the cursor moves under the history lock, the session is  *)
(* restored under its own. The page disables both while a paint session is *)
(* open.                                                                   *)

UndoEnabled == paint = NoPaint

Navigate ==
    /\ UndoEnabled
    /\ Enter("undo")
    /\ main' = [pc |-> "restoring", snap |-> snapshots[cursor'], alone |-> ~CutRecording]
    /\ UNCHANGED <<session, poisoned, cut, gpu, paint, overtaken, ghosts>>

Undo == UndoStep /\ Navigate
Redo == RedoStep /\ Navigate

\* mutant: the selection is not restored
RestoreProjectOnly(s, snap) == Reconcile([s EXCEPT !.project = snap.project])

\* The cache of primitives is not part of the snapshot.
RestoreInto(s, snap) ==
    LET next == Reconcile([s EXCEPT !.project = snap.project])
    IN [next EXCEPT !.selection =
          [id \in DOMAIN next.selection |-> IF id \in DOMAIN snap.selection
                                           THEN snap.selection[id] ELSE next.selection[id]]]

Restore ==
    /\ main.pc = "restoring"
    /\ ~poisoned
    /\ session' = RestoreInto(session, main.snap)
    /\ main' = Idle
    /\ cut' = Overtake(cut)
    /\ overtaken' = (~main.alone \/ CutRecording)
    /\ restored' = TRUE
    /\ crossed' = [crossed EXCEPT !.now = crossed.ever]
    /\ UNCHANGED <<poisoned, gpu, paint, work, historyVars, epoch, excused, leaked>>

-----------------------------------------------------------------------------
(* Replacing the document: new, open, import, recover. The renderer's lock *)
(* is taken first, and its cache dropped with the swap.                    *)

ClearMeshes == gpu' = << >>

Replace(d) ==
    /\ Enter("replace")
    /\ Leave(NewSession(d, session.fresh), "reset")
    /\ ClearMeshes
    /\ epoch' = epoch + 1
    /\ restored' = FALSE
    /\ ComesWith(d, cut.pc = "captured")
    /\ UNCHANGED paint

\* A frame drops what left the pool and uploads what it draws.
Drawn == {o.mesh : o \in ObjectsOn(active)} \cup
         UNION {active.mods[x] : x \in DOMAIN active.mods}

Frame ==
    LET live == DOMAIN gpu \cap DOMAIN project.meshes
        new == (Drawn \cap DOMAIN project.meshes) \ live
    IN /\ "frame" \in Load.commands
       /\ ~poisoned
       /\ gpu' = [m \in live \cup new |-> IF m \in live THEN gpu[m] ELSE project.meshes[m].of]
       /\ gpu' # gpu
       /\ UNCHANGED <<session, poisoned, main, cut, paint, work, historyVars,
                      overtaken, ghosts>>

-----------------------------------------------------------------------------
(* The support-paint tool: a selector over one mesh, written back onto the *)
(* pool's mesh of that id after every stroke. Only closing it emits.       *)

PaintOpen(id) ==
    LET m == ObjectOn(active, id).mesh
    IN /\ paint = NoPaint
       /\ m \in DOMAIN project.meshes
       /\ Enter("paint")
       /\ paint' = [mesh |-> m, object |-> id, of |-> project.meshes[m].of, epoch |-> epoch]
       /\ UNCHANGED <<session, poisoned, main, cut, gpu, historyVars, overtaken, ghosts>>

PaintStroke(painted) ==
    /\ paint # NoPaint
    /\ Enter("paint")
    /\ Leave(IF paint.mesh \in DOMAIN project.meshes
             THEN [session EXCEPT !.project.meshes[paint.mesh].sup = painted]
             ELSE session, "quiet")
    /\ UNCHANGED <<gpu, paint, ghosts>>

PaintClose ==
    /\ paint # NoPaint
    /\ main.pc = "idle"
    /\ ~poisoned
    /\ Leave(session, IF paint.object \in IdsOn(active) THEN "edit" ELSE "quiet")
    /\ paint' = NoPaint
    /\ UNCHANGED <<gpu, work, ghosts>>

-----------------------------------------------------------------------------
(* The split tool's thread: read, cut without the lock, apply, record. *)

CutRead(ids, connector, kept) ==
    /\ "cut" \in Load.commands
    /\ [connector |-> connector, kept |-> kept] \in Load.cuts
    /\ cut.pc = "idle"
    /\ ~poisoned
    /\ StepsLeft /\ CountStep
    /\ cut' = [pc |-> "read", targets |-> CutTargets(project, Expand(active, ids)),
               connector |-> connector, kept |-> kept,
               plate |-> active.id, epoch |-> epoch]
    /\ UNCHANGED <<session, poisoned, main, gpu, paint, historyVars, overtaken, ghosts>>

CutApply ==
    /\ cut.pc = "read"
    /\ ~poisoned
    /\ Room(Len(cut.targets) * (Cardinality(cut.kept) + 1))
    /\ \E sides \in [DOMAIN cut.targets -> {cut.kept, cut.kept \ {0}}], old \in {0, 1},
          walk \in Walks(active.printer) :
         session' = ApplyCut(session, cut.targets, sides, cut.connector, old, walk)
    /\ cut' = [cut EXCEPT !.pc = "emitted"]
    /\ main' = Overtake(main)
    /\ UNCHANGED <<poisoned, gpu, paint, work, historyVars, overtaken, ghosts>>

CutCapture ==
    /\ cut.pc = "emitted"
    /\ ~poisoned
    /\ cut' = [pc |-> "captured", snap |-> Capture(session), alone |-> main.pc = "idle"]
    /\ UNCHANGED <<session, poisoned, main, gpu, paint, work, historyVars, overtaken, ghosts>>

CutRecord ==
    /\ cut.pc = "captured"
    /\ Record(cut.snap)
    /\ overtaken' = (~cut.alone \/ main.pc # "idle")
    /\ main' = Overtake(main)
    /\ cut' = Idle
    /\ UNCHANGED <<session, poisoned, gpu, paint, work, ghosts>>

\* The FFI refuses a mesh, or the session lock is poisoned.
CutFails ==
    /\ cut.pc = "read"
    /\ cut' = Idle
    /\ UNCHANGED <<session, poisoned, main, gpu, paint, work, historyVars, overtaken, ghosts>>

Tick ==
    /\ "undo" \in Load.commands
    /\ Lapse
    /\ UNCHANGED <<session, poisoned, main, cut, gpu, paint, work, overtaken, ghosts>>

-----------------------------------------------------------------------------

Adding ==
    \/ \E kind \in Kinds : AddPrimitive(kind)
    \/ \E geom \in Geometries : LoadMeshFile(geom)
    \/ \E geoms \in Geometries \X Geometries, grouped \in BOOLEAN, keys \in SUBSET ObjectKeys :
          LoadThreeMfFile(geoms, grouped, keys)
    \/ \E ids \in Picks, times \in 1..2 : CloneObjects(ids, times)
    \/ \E ids \in Picks, kept \in 0..1 : FillPlateWith(ids, kept)

Changing ==
    \/ \E ids \in Picks : PlaceObjects(ids) \/ AutoOrientRead(ids) \/ Delete(ids)
    \/ \E ids \in Picks, unknown \in BOOLEAN : Group(ids, unknown)
    \/ \E g \in GroupsOf(active, IdsOn(active)) : Ungroup(g) \/ NameGroup(g)
    \/ \E i \in DOMAIN project.plates, key \in ObjectKeys \cup RegionKeys :
          \E id \in IdsOn(project.plates[i]) : SetOverride(i, id, key) \/ ClearOverride(i, id, key)
    \/ \E id \in IdsOn(active), mat \in Materials : SetMaterial(id, mat)
    \/ \E i \in DOMAIN project.plates, mat \in Materials :
          \/ ClearSlot(i, mat)
          \/ \E slot \in UNION {AllSlots[inst] : inst \in Instances} : PinSlot(i, mat, slot)
    \/ \E from, to \in DOMAIN project.plates :
          \E ids \in SUBSET IdsOn(project.plates[from]) \ {{}} : Move(from, to, ids)
    \/ \E spilled \in SUBSET Units(active) : AutoArrange(spilled)

Plating ==
    \/ \E default \in Instances \cup {Unbound} : CreatePlate(default)
    \/ \E i \in DOMAIN project.plates : ClosePlate(i) \/ Activate(i) \/ Unbind(i)
    \/ \E i \in DOMAIN project.plates, inst \in Instances : Rebind(i, inst)

Selecting ==
    \/ DeselectAll
    \/ \E ids \in Picks, mode \in {"replace", "add", "toggle"} : SelectObjects(ids, mode)

Painting ==
    \/ \E id \in IdsOn(active) : PaintOpen(id)
    \/ \E painted \in BOOLEAN : PaintStroke(painted)

Cutting ==
    \/ \E ids \in Picks, c \in Cuts : CutRead(ids, c.connector, c.kept)
    \/ CutApply \/ CutFails \/ CutCapture \/ CutRecord

Recording == AutoOrientApply \/ TrackCapture \/ TrackRecord \/ Undo \/ Redo \/ Restore \/ Tick

Next ==
    \/ Ready /\ (Adding \/ Changing \/ Plating \/ Selecting \/ Painting)
    \/ PaintClose \/ Cutting \/ Recording
    \/ \E d \in Documents : Replace(d)
    \/ Frame

Spec == Init /\ [][Next]_vars

-----------------------------------------------------------------------------
(* Properties. *)

SceneTypeOK ==
    /\ main.pc \in {"idle", "emitted", "captured", "orienting", "restoring"}
    /\ cut.pc \in {"idle", "read", "emitted", "captured"}
    /\ DocumentShape(project)
    /\ {poisoned, restored, overtaken} \subseteq BOOLEAN

\* Every command leaves what References says of a document: deleting,
\* cutting, moving between plates and pruning the pool each keep it.
RefsResolve == References(project)

\* The pool keeps no geometry nothing names any more ("otherwise a deleted
\* import's geometry lingers and bloats the next save"), removed plates
\* excepted: closing a plate prunes nothing.
PoolIsLive == DOMAIN project.meshes \subseteq Referenced(project) \cup leaked

\* A plate's runtime follows it: its selection names objects it has, also
\* after its id was freed and given to another plate.
SelectionResolves ==
    /\ DOMAIN session.selection = PlateIds
    /\ \A i \in DOMAIN project.plates :
         session.selection[project.plates[i].id] \subseteq IdsOn(project.plates[i])

\* A group slices as one object, so its members are never on two plates.
GroupOnOnePlate == GroupsApart(project)

\* Materials and bindings of a bound plate agree: all that is used, painted
\* materials included, is bound, and nothing else is. Excused are bindings
\* the user pinned or took away, and painted materials of moved objects,
\* which the move leaves behind.
BindingsMatchUse ==
    \A i \in DOMAIN project.plates : UseIsBound(project, project.plates[i], excused)

\* A binding is a slot of the plate's own printer, in one of the layouts the
\* printer may have, unless a move carried it over from another printer since
\* the plate was bound, or an undo brought it back.  It need not be a slot the
\* printer still has: "slot refs don't survive a topology change"
\* (plates.rs:226) is heeded when a plate is bound to another printer, while a
\* change of the AMS units and a sync (printer/mod.rs:381-407, printer/sync.rs)
\* take slots from under its bindings.
SlotsFitPrinter ==
    \A i \in DOMAIN project.plates :
        project.plates[i].id \notin crossed.now => Fits(project.plates[i])

\* A cut that lands on the plate and document it was read from takes exactly
\* its sources that are still on that plate: every other object of the
\* document, a source that was moved to another plate included, is still there.
CutTakesItsSources ==
    [][(cut.pc = "read" /\ cut'.pc = "emitted"
        /\ cut.epoch = epoch /\ cut.plate = active.id)
       => LET sources == {cut.targets[k].id : k \in DOMAIN cut.targets} \cap IdsOn(active)
          IN {o.id : o \in AllObjects(project)} \ sources
               = {o.id : o \in AllObjects(project')} \cap (1..project.lastObject)]_vars

\* With nothing in flight, the snapshot under the cursor is the live session,
\* so an undo followed by a redo loses nothing. Excused is a session that
\* changed without a history event, or under a record in the making.
HistoryMirrors ==
    (main.pc = "idle" /\ ~CutRecording /\ ~overtaken)
        => snapshots[cursor] = Capture(session)

\* Each primitive kind resolves to the mesh it was generated as, and a cached
\* id that is gone is never unwrapped, as long as no undo or redo happened.
CacheResolvesUnlessRestored ==
    ~restored =>
        /\ ~poisoned
        /\ \A k \in DOMAIN session.cache :
             /\ session.cache[k] \in DOMAIN project.meshes
             /\ project.meshes[session.cache[k]].of = k

\* The renderer never draws another geometry under a reused mesh id, though
\* ids restart at 1 in every document, as long as no undo rewound them.
GpuIsFreshUnlessRestored ==
    ~restored => \A m \in DOMAIN gpu \cap DOMAIN project.meshes :
                     gpu[m] = project.meshes[m].of

\* A stroke lands on the mesh the paint session was opened over, as long as
\* the document was not replaced under it: the page keeps undo away from it.
PaintStaysOnItsMesh ==
    (paint # NoPaint /\ paint.epoch = epoch /\ paint.mesh \in DOMAIN project.meshes)
        => project.meshes[paint.mesh].of = paint.of

(* No command leaves a reference to what is gone, in the project, the selection or  *)
(* the caches, nor a mesh that nothing refers to (geometry.rs:1241                  *)
(* prune_orphan_meshes, model.rs).                                                  *)
ReferencesHold ==
  SceneTypeOK /\ RefsResolve /\ PoolIsLive /\ SelectionResolves /\ CacheResolvesUnlessRestored

(* A group lies on one plate, and a plate binds exactly the materials it uses, each *)
(* to a slot of its own printer in one of that printer's layouts (geometry.rs:376   *)
(* expand_to_groups, plates.rs:192 rebind_plate_printer).                           *)
BindingsHold == GroupOnOnePlate /\ BindingsMatchUse /\ SlotsFitPrinter

(* Undo and redo bring back what was there, all of it: the history's cursor is the  *)
(* live project, the renderer draws no mesh of another project, the paint tool      *)
(* keeps its mesh (history.rs:61 restore_into).                                     *)
RestoreIsWhole == HistoryMirrors /\ GpuIsFreshUnlessRestored /\ PaintStaysOnItsMesh
=============================================================================
