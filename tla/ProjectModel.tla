---------------------------- MODULE ProjectModel ----------------------------
(***************************************************************************)
(* The persisted document (`Project`) and its mutation methods, as         *)
(* functions from a document to a document, and the methods of `Session`,  *)
(* which also touch the runtime half (selection, primitive cache).         *)
(*                                                                         *)
(* A document is a record:                                                 *)
(*   plates      sequence of plates (a plate's id is stable, its position  *)
(*               is not); active is a position                             *)
(*   meshes      the scene-wide pool: MeshId -> geometry                   *)
(*   lastMesh, lastObject   the id allocators (saved and restored with it) *)
(* and a session is [project, selection, cache, fresh]: selection by plate *)
(* id, cache from a primitive kind to its MeshId, and fresh, the last      *)
(* group UUID handed out, which no restore rewinds.                        *)
(*                                                                         *)
(* Abstracted: a geometry is what it came from (`of`), the materials       *)
(* painted on it and whether it has support paint (`sup`); a transform is  *)
(* `pose`, 0 for a pose the program chose and 1 for one the user did;      *)
(* names and visibility (which no command changes) are left out; cut       *)
(* markers travel exactly as the connector meshes do and are not kept      *)
(* apart from them.                                                        *)
(***************************************************************************)
EXTENDS Integers, Sequences, FiniteSets

CONSTANTS Instances,   \* registered printer instances
          Unbound,     \* a plate's printer when it has none
          Rotation,    \* the slots auto-bind walks, in order: one walk for each layout
                       \* an instance may have
          AllSlots,    \* every slot of an instance in all of them, the external spool
                       \* included
          ObjectKeys,  \* object-scope settings: they apply to a whole group
          RegionKeys   \* region-scope settings: a member keeps its own

NoGroup == 0
NoMaterial == 0

\* Maps: without some keys, with a value put at one, with those of another on top.
Without(f, S) == [x \in DOMAIN f \ S |-> f[x]]
Put(f, x, v) == [y \in DOMAIN f \cup {x} |-> IF y = x THEN v ELSE f[y]]
Over(g, f) == [x \in DOMAIN g \cup DOMAIN f |-> IF x \in DOMAIN g THEN g[x] ELSE f[x]]

ActivePlate(p) == p.plates[p.active]

ObjectsOn(plate) == {plate.objects[k] : k \in DOMAIN plate.objects}
IdsOn(plate) == {o.id : o \in ObjectsOn(plate)}
ObjectOn(plate, id) == CHOOSE o \in ObjectsOn(plate) : o.id = id
AllObjects(p) == UNION {ObjectsOn(p.plates[i]) : i \in DOMAIN p.plates}

\* ObjectList::in_order: a set of ids in the plate's authored order.
InOrder(plate, ids) ==
    LET all == plate.objects
        some[k \in 0..Len(all)] ==
            IF k = 0 THEN << >>
            ELSE IF all[k].id \in ids THEN Append(some[k - 1], all[k]) ELSE some[k - 1]
    IN some[Len(all)]

EditObjects(plate, Op(_)) ==
    [plate EXCEPT !.objects = [k \in DOMAIN plate.objects |-> Op(plate.objects[k])]]

EditPlate(p, i, plate) == [p EXCEPT !.plates = [@ EXCEPT ![i] = plate]]
EditActive(p, plate) == EditPlate(p, p.active, plate)

-----------------------------------------------------------------------------
(* Materials and slots. *)

\* An object without an assignment prints with material 1.
MaterialOf(o) == IF o.mat = NoMaterial THEN 1 ELSE o.mat

PaintOf(p, mesh) == IF mesh \in DOMAIN p.meshes THEN p.meshes[mesh].paint ELSE {}

MaterialsOn(p, plate) ==
    UNION {{MaterialOf(o)} \cup PaintOf(p, o.mesh) : o \in ObjectsOn(plate)}

\* The first slot of the walk, from the material's own position, that no
\* other material of the plate is on; its own position when all are taken.
PickSlot(flat, taken, mat) ==
    LET at(k) == flat[((mat - 1 + k) % Len(flat)) + 1]
        free  == {k \in 0..(Len(flat) - 1) : at(k) \notin taken}
    IN IF free = {} THEN at(0)
       ELSE at(CHOOSE k \in free : \A j \in free : k <= j)

\* The walks a command may find.  Setting the AMS units and every sync with the printer
\* rebuild an instance's slots (rebuild_ams_slots) and leave the plates as they are: each
\* command meets the instance in any of its layouts.  A plate without a printer binds
\* nothing.
Walks(inst) == IF inst = Unbound THEN {<< >>} ELSE Rotation[inst]

\* A material that is bound stays; else it takes the slot it comes with, if
\* it comes with one, or the next of the walk.
EnsureSlot(slots, mat, walk, given) ==
    IF mat \in DOMAIN slots THEN slots
    ELSE IF mat \in DOMAIN given THEN Put(slots, mat, given[mat])
    ELSE IF walk = << >> THEN slots
    ELSE Put(slots, mat, PickSlot(walk, {slots[m] : m \in DOMAIN slots}, mat))

Least(mats) == CHOOSE m \in mats : \A n \in mats : m <= n

\* Several, in ascending order.
EnsureSlots(slots, mats, walk, given) ==
    LET run[k \in 0..Cardinality(mats)] ==
            IF k = 0 THEN [slots |-> slots, left |-> mats]
            ELSE LET m == Least(run[k - 1].left)
                 IN [slots |-> EnsureSlot(run[k - 1].slots, m, walk, given),
                     left  |-> run[k - 1].left \ {m}]
    IN run[Cardinality(mats)].slots

\* Bindings of the candidates that nothing on the plate uses any more.
PruneBindings(p, i, candidates) ==
    LET gone == candidates \ MaterialsOn(p, p.plates[i])
    IN EditPlate(p, i, [p.plates[i] EXCEPT !.slots = Without(@, gone)])

SetSlot(p, i, mat, slot) ==
    EditPlate(p, i, [p.plates[i] EXCEPT !.slots = Put(@, mat, slot)])
\* In the layout the command meets.
SlotExists(plate, slot) ==
    plate.printer # Unbound => slot \in AllSlots[plate.printer]

SetObjectMaterial(p, id, mat, walk) ==
    LET plate == ActivePlate(p)
        old == MaterialOf(ObjectOn(plate, id))
        set == EditObjects(plate, LAMBDA o : IF o.id = id THEN [o EXCEPT !.mat = mat] ELSE o)
        bound == EditActive(p, [set EXCEPT !.slots = EnsureSlot(@, mat, walk, << >>)])
    IN IF old = mat THEN bound ELSE PruneBindings(bound, p.active, {old})

-----------------------------------------------------------------------------
(* Meshes and objects. *)

\* `sup`: whether it carries support paint; new geometry never does.
Geometry(of, paint) == [of |-> of, paint |-> paint, sup |-> FALSE]

RegisterMeshes(p, geoms) ==
    LET new == [m \in (p.lastMesh + 1)..(p.lastMesh + Len(geoms)) |-> geoms[m - p.lastMesh]]
    IN [p EXCEPT !.lastMesh = @ + Len(geoms), !.meshes = Over(new, @)]

\* An object that is not registered yet: it has no id.
NewObject(mesh, mat, group, pose) ==
    [id |-> 0, mesh |-> mesh, mat |-> mat, group |-> group, pose |-> pose]

\* Each binds what it prints with: its own material, then those painted on
\* its mesh.
BindObjects(p, slots, objs, walk) ==
    LET run[k \in 0..Len(objs)] ==
            IF k = 0 THEN slots
            ELSE EnsureSlots(EnsureSlot(run[k - 1], MaterialOf(objs[k]), walk, << >>),
                             PaintOf(p, objs[k].mesh), walk, << >>)
    IN run[Len(objs)]

\* Appends to the active plate, one after the other.
RegisterObjects(p, objs, walk) ==
    LET new == [k \in DOMAIN objs |-> [objs[k] EXCEPT !.id = p.lastObject + k]]
        plate == [ActivePlate(p) EXCEPT !.objects = @ \o new,
                                        !.slots = BindObjects(p, @, new, walk)]
    IN [EditActive(p, plate) EXCEPT !.lastObject = @ + Len(objs)]

LoadMesh(p, geom, walk) ==
    RegisterObjects(RegisterMeshes(p, <<geom>>),
                    <<NewObject(p.lastMesh + 1, NoMaterial, NoGroup, 0)>>, walk)

\* A cached kind reuses its mesh, whatever the pool now holds under that id.
AddFromPrimitive(s, kind, walk) ==
    LET hit == kind \in DOMAIN s.cache
        p == IF hit THEN s.project
             ELSE RegisterMeshes(s.project, <<Geometry(kind, {})>>)
        mesh == IF hit THEN s.cache[kind] ELSE p.lastMesh
    IN [s EXCEPT !.project =
                    RegisterObjects(p, <<NewObject(mesh, NoMaterial, NoGroup, 0)>>, walk),
                 !.cache = Put(@, kind, mesh)]

\* The placement of a new object reads its mesh out of the pool (an unwrap).
PrimitivePanics(s, kind) ==
    kind \in DOMAIN s.cache /\ s.cache[kind] \notin DOMAIN s.project.meshes

-----------------------------------------------------------------------------
(* Groups. *)

GroupsOf(plate, ids) ==
    {o.group : o \in {q \in ObjectsOn(plate) : q.id \in ids}} \ {NoGroup}

Expand(plate, ids) ==
    {o.id : o \in {q \in ObjectsOn(plate) :
                     q.id \in ids \/ q.group \in GroupsOf(plate, ids)}}

Members(plate, g) == {o \in ObjectsOn(plate) : o.group = g}

\* A group left with one member is not a group.
DissolveOrphans(plate) ==
    LET orphans == {g \in GroupsOf(plate, IdsOn(plate)) : Cardinality(Members(plate, g)) < 2}
    IN [EditObjects(plate, LAMBDA o :
              IF o.group \in orphans THEN [o EXCEPT !.group = NoGroup] ELSE o)
          EXCEPT !.groups = Without(@, orphans)]

Join(plate, ids, g) ==
    EditObjects(plate, LAMBDA o : IF o.id \in ids THEN [o EXCEPT !.group = g] ELSE o)

\* A known object is joined before the next id is looked up: when `unknown`
\* the call fails there, with what it has joined so far left joined.
GroupObjects(s, ids, unknown) ==
    LET g == s.fresh + 1
        joined == Join(ActivePlate(s.project), ids, g)
        whole == DissolveOrphans([joined EXCEPT !.groups = Put(@, g, {})])
    IN [s EXCEPT !.fresh = @ + 1,
                 !.project = EditActive(@, IF unknown THEN joined ELSE whole)]

Added(over, ids, keys) ==
    IF keys = {} THEN over
    ELSE Over([i \in ids |-> keys \cup (IF i \in DOMAIN over THEN over[i] ELSE {})], over)

\* The group's settings are copied onto every ex-member.
UngroupObjects(p, g) ==
    LET plate == ActivePlate(p)
        ids == {o.id : o \in Members(plate, g)}
        keys == IF g \in DOMAIN plate.groups THEN plate.groups[g] ELSE {}
        freed == EditObjects(plate, LAMBDA o :
                     IF o.group = g THEN [o EXCEPT !.group = NoGroup] ELSE o)
    IN EditActive(p, [freed EXCEPT !.over = Added(@, ids, keys),
                                   !.groups = Without(@, {g})])

RenameGroup(p, g) ==
    EditActive(p, [ActivePlate(p) EXCEPT
                     !.groups = IF g \in DOMAIN @ THEN @ ELSE Put(@, g, {})])

-----------------------------------------------------------------------------
(* Settings of one object. A grouped object's object-scope keys belong to  *)
(* its group.                                                              *)

ObjectOverrideSet(p, i, id, key) ==
    LET plate == p.plates[i]
        g == ObjectOn(plate, id).group
        held == IF g \in DOMAIN plate.groups THEN plate.groups[g] ELSE {}
    IN EditPlate(p, i,
          IF g # NoGroup /\ key \in ObjectKeys
          THEN [plate EXCEPT !.groups = Put(@, g, held \cup {key})]
          ELSE [plate EXCEPT !.over = Added(@, {id}, {key})])

ObjectOverrideClear(p, i, id, key) ==
    LET plate == p.plates[i]
        g == ObjectOn(plate, id).group
        own == (IF id \in DOMAIN plate.over THEN plate.over[id] ELSE {}) \ {key}
        rest == Without(plate.over, {id})
    IN EditPlate(p, i,
          [plate EXCEPT
             !.groups = IF g \in DOMAIN @ THEN Put(@, g, @[g] \ {key}) ELSE @,
             !.over = IF own = {} THEN rest ELSE Put(rest, id, own)])

\* A 3MF: all its meshes, then its objects, which may form one group; the
\* (object-scope) keys each of them carries go to the group, if they do.
LoadThreeMf(s, geoms, grouped, keys, walk) ==
    LET p == s.project
        g == IF grouped THEN s.fresh + 1 ELSE NoGroup
        objs == [k \in DOMAIN geoms |-> NewObject(p.lastMesh + k, NoMaterial, g, 1)]
        loaded == RegisterObjects(RegisterMeshes(p, geoms), objs, walk)
        plate == ActivePlate(loaded)
        ids == (p.lastObject + 1)..loaded.lastObject
        set == IF keys = {} THEN plate
               ELSE IF grouped THEN [plate EXCEPT !.groups = Put(@, g, keys)]
               ELSE [plate EXCEPT !.over = Added(@, ids, keys)]
    IN [s EXCEPT !.project = EditActive(loaded, set), !.fresh = @ + 1]

-----------------------------------------------------------------------------
(* Duplicating. *)

Rank(S, g) == Cardinality({h \in S : h <= g})
CopyKeys(f, src, first) ==
    Over([n \in {first + k : k \in {j \in DOMAIN src : src[j].id \in DOMAIN f}}
            |-> f[src[n - first].id]], f)

\* One copy of `src` (objects in authored order) on the active plate: each
\* source group becomes one fresh group of the copy, sidecars and settings
\* travel, and the geometry is shared.
CloneOnce(s, src, walk) ==
    LET p == s.project
        gs == {src[k].group : k \in DOMAIN src} \ {NoGroup}
        remap(g) == IF g = NoGroup THEN NoGroup ELSE s.fresh + Rank(gs, g)
        copies == [k \in DOMAIN src |-> [src[k] EXCEPT !.group = remap(@)]]
        added == RegisterObjects(p, copies, walk)
        plate == ActivePlate(added)
        carried == gs \cap DOMAIN plate.groups
        settings == [n \in {remap(g) : g \in carried} |->
                        plate.groups[CHOOSE g \in carried : remap(g) = n]]
    IN [s EXCEPT
          !.fresh = @ + Cardinality(gs),
          !.project = EditActive(added,
             [plate EXCEPT !.over = CopyKeys(@, src, p.lastObject),
                           !.mods = CopyKeys(@, src, p.lastObject),
                           !.groups = Over(settings, @)])]

CloneTimes(s, src, times, walk) ==
    LET run[k \in 0..times] == IF k = 0 THEN s ELSE CloneOnce(run[k - 1], src, walk)
    IN run[times]

-----------------------------------------------------------------------------
(* Deleting. *)

\* A mesh goes when no object and no connector list of any plate names it.
Referenced(p) ==
    {o.mesh : o \in AllObjects(p)} \cup
    UNION {UNION {p.plates[i].mods[x] : x \in DOMAIN p.plates[i].mods}
             : i \in DOMAIN p.plates}

\* mutant: connector volumes are not counted as references
PruneMeshesIgnoresVolumes(s, candidates) ==
    LET p == s.project
        gone == candidates \ {o.mesh : o \in AllObjects(p)}
    IN [s EXCEPT !.project = [p EXCEPT !.meshes = Without(@, gone)],
                 !.cache = Without(@, {k \in DOMAIN @ : @[k] \in gone})]

PruneMeshes(s, candidates) ==
    LET p == s.project
        gone == candidates \ Referenced(p)
    IN [s EXCEPT !.project = [p EXCEPT !.meshes = Without(@, gone)],
                 !.cache = Without(@, {k \in DOMAIN @ : @[k] \in gone})]

MeshesOf(plate, ids) ==
    {o.mesh : o \in {q \in ObjectsOn(plate) : q.id \in ids}} \cup
    UNION {plate.mods[x] : x \in ids \cap DOMAIN plate.mods}

\* Objects of the active plate with their connectors; an object's settings
\* stay behind in `over`.
DeleteObjects(s, ids) ==
    LET p == s.project
        plate == ActivePlate(p)
        out == {o \in ObjectsOn(plate) : o.id \in ids}
        outIds == {o.id : o \in out}
        meshes == MeshesOf(plate, outIds)
        mats == {MaterialOf(o) : o \in out} \cup UNION {PaintOf(p, m) : m \in meshes}
        left == [plate EXCEPT
                   !.objects = InOrder(plate, IdsOn(plate) \ ids),
                   !.mods = Without(@, outIds)]
        q == PruneBindings(EditActive(p, left), p.active, mats)
        less == s.selection[plate.id] \ outIds
    IN PruneMeshes([s EXCEPT !.project = q, !.selection = [@ EXCEPT ![plate.id] = less]], meshes)

-----------------------------------------------------------------------------
(* Moving between plates. *)

\* Whole groups move; sidecars, settings, the group's entry and the slot
\* bindings of the objects' own materials go with them.
MoveObjects(s, fromIdx, toIdx, ids, walk) ==
    LET p == s.project
        from == p.plates[fromIdx]
        to == p.plates[toIdx]
        moving == InOrder(from, Expand(from, ids))
        mids == {moving[k].id : k \in DOMAIN moving}
        gs == {moving[k].group : k \in DOMAIN moving} \cap DOMAIN from.groups
        mats == {MaterialOf(moving[k]) : k \in DOMAIN moving}
        pick(f) == [x \in mids \cap DOMAIN f |-> f[x]]
        left == [from EXCEPT !.objects = InOrder(from, IdsOn(from) \ mids),
                             !.over = Without(@, mids), !.mods = Without(@, mids),
                             !.groups = Without(@, gs)]
        landed == [to EXCEPT !.objects = @ \o moving,
                             !.over = Over(pick(from.over), @),
                             !.mods = Over(pick(from.mods), @),
                             !.groups = Over([g \in gs |-> from.groups[g]], @),
                             !.slots = EnsureSlots(@, mats, walk, from.slots)]
        moved == EditPlate(EditPlate(p, fromIdx, left), toIdx, landed)
        rest == s.selection[from.id] \ mids
    IN [s EXCEPT !.project = PruneBindings(moved, fromIdx, mats),
                 !.selection = [@ EXCEPT ![from.id] = rest]]

-----------------------------------------------------------------------------
(* Plates and printers. *)

NewPlate(id, printer) ==
    [id |-> id, printer |-> printer, objects |-> << >>, groups |-> << >>,
     over |-> << >>, mods |-> << >>, slots |-> << >>]

\* Ids are reused: one more than the largest in use.
NextPlateId(p) ==
    1 + (CHOOSE id \in {p.plates[i].id : i \in DOMAIN p.plates} :
             \A i \in DOMAIN p.plates : p.plates[i].id <= id)

AddPlate(p, printer) ==
    LET bound == IF printer = Unbound THEN ActivePlate(p).printer ELSE printer
    IN [p EXCEPT !.plates = Append(@, NewPlate(NextPlateId(p), bound))]

RemovePlate(p, idx) ==
    [p EXCEPT !.plates = [k \in 1..(Len(p.plates) - 1) |->
                             IF k < idx THEN p.plates[k] ELSE p.plates[k + 1]],
              !.active = IF @ = idx THEN (IF idx = Len(p.plates) THEN idx - 1 ELSE idx)
                         ELSE IF @ > idx THEN @ - 1 ELSE @]

\* Slots are coordinates of one printer: a rebind drops them all and binds
\* every material the plate uses, painted ones included, again.
\* mutant: painted materials are not bound again
RebindPrinterOwnMaterials(p, idx, inst, walk) ==
    LET own == {MaterialOf(o) : o \in ObjectsOn(p.plates[idx])}
    IN EditPlate(p, idx, [p.plates[idx] EXCEPT
          !.printer = inst, !.slots = EnsureSlots(<< >>, own, walk, << >>)])

RebindPrinter(p, idx, inst, walk) ==
    LET all == MaterialsOn(p, p.plates[idx])
    IN EditPlate(p, idx, [p.plates[idx] EXCEPT
          !.printer = inst, !.slots = EnsureSlots(<< >>, all, walk, << >>)])

UnbindPrinter(p, idx) ==
    EditPlate(p, idx, [p.plates[idx] EXCEPT !.printer = Unbound, !.slots = << >>])

Reconcile(s) ==
    LET live == {s.project.plates[i].id : i \in DOMAIN s.project.plates}
    IN [s EXCEPT !.selection =
          [id \in live |-> IF id \in DOMAIN s.selection THEN s.selection[id] ELSE {}]]

NewProject(printer) ==
    [plates |-> <<NewPlate(1, printer)>>, active |-> 1, meshes |-> << >>,
     lastMesh |-> 0, lastObject |-> 0]

NewSession(p, fresh) ==
    Reconcile([project |-> p, selection |-> << >>, cache |-> << >>, fresh |-> fresh])

-----------------------------------------------------------------------------
(* Selection, on the active plate. *)

Select(s, ids, mode) ==
    LET plate == ActivePlate(s.project)
        present == ids \cap IdsOn(plate)
        old == s.selection[plate.id]
        new == CASE mode = "replace" -> present
                 [] mode = "add" -> old \cup present
                 [] mode = "toggle" -> IF present # {} /\ present \subseteq old
                                       THEN old \ present ELSE old \cup present
    IN [s EXCEPT !.selection = [@ EXCEPT ![plate.id] = new]]

-----------------------------------------------------------------------------
(* The split tool. A target is what the first lock copied out of an object; *)
(* the halves are registered under a later lock, on the plate that is      *)
(* active then.                                                            *)

CutTargets(p, ids) ==
    LET plate == ActivePlate(p)
        target(o) == [id |-> o.id, paint |-> PaintOf(p, o.mesh), mat |-> o.mat,
                      pose |-> o.pose, group |-> o.group,
                      pegs |-> IF o.id \in DOMAIN plate.mods
                               THEN Cardinality(plate.mods[o.id]) ELSE 0]
        src == InOrder(plate, ids)
    IN [k \in DOMAIN src |-> target(src[k])]

\* One half of a target with its n connector volumes.
RegisterHalf(q, t, group, n, walk) ==
    LET r == RegisterObjects(RegisterMeshes(q, <<Geometry("half", t.paint)>>),
                             <<NewObject(q.lastMesh + 1, t.mat, group, t.pose)>>, walk)
        m == RegisterMeshes(r, [k \in 1..n |-> Geometry("peg", {})])
        volumes == (r.lastMesh + 1)..m.lastMesh
    IN IF n = 0 THEN r
       ELSE EditActive(m, [ActivePlate(m) EXCEPT !.mods = Put(@, m.lastObject, volumes)])

RegisterPin(q, t, walk) ==
    RegisterObjects(RegisterMeshes(q, <<Geometry("pin", {})>>),
                    <<NewObject(q.lastMesh + 1, t.mat, NoGroup, t.pose)>>, walk)

\* mutant: whole groups of the sources go
RemoveSourceGroups(s, targets) ==
    DeleteObjects(s, Expand(ActivePlate(s.project), {targets[k].id : k \in DOMAIN targets}))

RemoveSources(s, targets) == DeleteObjects(s, {targets[k].id : k \in DOMAIN targets})

\* sides[k]: the kept halves target k really has (none when the plane misses
\* it and that side is dropped). A connector leaves a volume on both halves,
\* a dowel a loose pin as well; older connectors all land on side `old`.
ApplyCut(s, targets, sides, connector, old, walk) ==
    LET p == s.project
        gs == {targets[k].group : k \in DOMAIN targets} \ {NoGroup}
        remap(g, side) == IF g = NoGroup THEN NoGroup
                          ELSE s.fresh + 2 * Rank(gs, g) - side
        volumes(t, side) == (IF connector = "none" THEN 0 ELSE 1)
                            + (IF side = old THEN t.pegs ELSE 0)
        half(q, k, side) ==
            IF side \notin sides[k] THEN q
            ELSE RegisterHalf(q, targets[k], remap(targets[k].group, side),
                              volumes(targets[k], side), walk)
        pinned(q, k) == IF connector = "dowel" /\ sides[k] = {0, 1}
                        THEN RegisterPin(q, targets[k], walk) ELSE q
        cutOne(q, k) == pinned(half(half(q, k, 0), k, 1), k)
        run[k \in 0..Len(targets)] == IF k = 0 THEN p ELSE cutOne(run[k - 1], k)
        made == {x \in gs \X {0, 1} : \E k \in DOMAIN targets :
                    targets[k].group = x[1] /\ x[2] \in sides[k]}
        settings(kept) == [n \in {remap(x[1], x[2]) : x \in made} |->
            LET x == CHOOSE y \in made : remap(y[1], y[2]) = n
            IN IF x[1] \in DOMAIN kept.groups THEN kept.groups[x[1]] ELSE {}]
        finish(cut) ==
            LET kept == ActivePlate(cut)
                named == EditActive(cut, [kept EXCEPT !.groups = Over(settings(kept), @)])
                less == RemoveSources([s EXCEPT !.project = named,
                                                !.fresh = @ + 2 * Cardinality(gs)], targets)
                plate == DissolveOrphans(ActivePlate(less.project))
                live == GroupsOf(plate, IdsOn(plate))
                tidy == [less EXCEPT !.project = EditActive(less.project,
                           [plate EXCEPT !.groups = Without(@, DOMAIN @ \ live)])]
            IN Select(tidy, (p.lastObject + 1)..cut.lastObject, "replace")
    IN finish(run[Len(targets)])

-----------------------------------------------------------------------------
(* Auto-arrange. The nester's answer is which units it spills onto an      *)
(* extra bed; what it packs takes the pose it gives.                       *)

Units(plate) == {Expand(plate, {id}) : id \in IdsOn(plate)}

Packed(plate) == EditObjects(plate, LAMBDA o : [o EXCEPT !.pose = 0])

ApplyArrangement(s, spilled, walk) ==
    LET p == EditActive(s.project, Packed(ActivePlate(s.project)))
        grown == Reconcile([s EXCEPT !.project = AddPlate(p, Unbound)])
        n == Len(grown.project.plates)
    IN IF spilled = {} THEN [s EXCEPT !.project = p]
       ELSE MoveObjects(grown, p.active, n, UNION spilled, walk)

\* Fill plate: copies are made one at a time until one spills; that one is
\* deleted again and the last packing that fit is applied.
FillPlate(s, src, kept, walk) ==
    LET full == CloneTimes(s, src, kept, walk)
        over == CloneOnce(full, src, walk)
        extra == (full.project.lastObject + 1)..over.project.lastObject
        back == DeleteObjects(over, extra)
    IN IF kept = 0 THEN back ELSE ApplyArrangement(back, {}, walk)
=============================================================================
