--------------------------------- MODULE ForeignProject ---------------------------------
(***************************************************************************)
(* Opening what another slicer saved: the 3MF reader (threemf/mod.rs,       *)
(* core_spec.rs, bbs_meta.rs) and the project importer (orca_import), over   *)
(* files that program writes element by element; and this program's own     *)
(* container (project/format.rs).  A transform is the sequence of the        *)
(* transforms it is composed of, with the place of its plate apart.          *)
(***************************************************************************)
EXTENDS Integers, FiniteSets, Sequences, SequencesExt

CONSTANTS
    Documents,  \* part -> object id -> its body; the root part is ""
    Stanzas(_), \* what may be said of an object in model_settings.config
    Settings,   \* project_settings.config: key -> JSON value, with its identity keys
    Instances,  \* the user's printers, in order
    Options,    \* libslic3r's options: bucket, value set, scope
    MaxItems,   \* build items of a file
    Grids       \* how many plates it may have

VARIABLES
    document,   \* the file's parts
    grid,       \* plates of the other program's project
    items,      \* <build>, as written
    stanzas,    \* <object> of the model settings, as written
    listed,     \* <plate>: its objects; <<>> when the file has none
    imported    \* what was imported: {}, or one outcome

foreignVars == <<document, grid, items, stanzas, listed, imported>>

Absent == {}
Fail == [failed |-> TRUE]

(***************************************************************************)
(* core_spec.rs: a mesh keeps one paint string per triangle, or none at all *)
(* when no triangle is painted.                                            *)
(***************************************************************************)
ParseMesh(triangles) ==
    LET dense(f) == [i \in DOMAIN triangles |-> triangles[i][f]]
        paint(f) == IF \A i \in DOMAIN triangles : triangles[i][f] = "" THEN <<>> ELSE dense(f)
    IN [triangles |-> Len(triangles), color |-> paint("color"), support |-> paint("support")]

\* parse_model_settings: entries in order, the last of a key stands; what is
\* not a name or an extruder is an override.
ParseEntries(entries) ==
    FoldLeft(LAMBDA o, e :
        CASE e.key = "name" -> [o EXCEPT !.name = {e.value}]
          [] e.key = "extruder" -> [o EXCEPT !.extruder = e.value]
          [] OTHER -> [o EXCEPT !.config = [k \in DOMAIN @ \cup {e.key} |->
                                              IF k = e.key THEN e.value ELSE @[k]]],
        [name |-> Absent, extruder |-> Absent, config |-> <<>>], entries)
ParseObject(stanza) ==
    [id |-> stanza.id, own |-> ParseEntries(stanza.entries),
     parts |-> [i \in DOMAIN stanza.parts |-> ParseEntries(stanza.parts[i])]]

(***************************************************************************)
(* threemf/mod.rs                                                          *)
(***************************************************************************)
\* collect_referenced_parts: the parts that components reach from the root.
RECURSIVE Referenced(_, _)
Referenced(doc, seen) ==
    LET next == UNION {{doc[part][id].of[c].path : c \in DOMAIN doc[part][id].of} :
                          <<part, id>> \in {pi \in {<<p, i>> : p \in seen, i \in 1..9} :
                                              pi[2] \in DOMAIN doc[pi[1]] /\ doc[pi[1]][pi[2]].k = "components"}}
        named == {p \in next : p # Absent}
        parts == {CHOOSE p \in o : TRUE : o \in named}
    IN IF parts \subseteq seen THEN seen ELSE Referenced(doc, seen \cup parts)

\* mutant: a component without a path is looked up in the root part
RECURSIVE ExpandFromRoot(_, _, _, _, _)
ExpandFromRoot(doc, part, id, outer, t) ==
    IF part \notin DOMAIN doc THEN <<Fail>> ELSE IF id \notin DOMAIN doc[part] THEN <<Fail>>
    ELSE LET body == doc[part][id] IN
         IF body.k = "mesh" THEN <<[failed |-> FALSE, source |-> <<part, id>>, t |-> t, outer |-> outer]>>
         ELSE FlattenSeq([c \in DOMAIN body.of |->
                ExpandFromRoot(doc, IF body.of[c].path = Absent THEN "" ELSE CHOOSE p \in body.of[c].path : TRUE,
                               body.of[c].id, outer, Append(t, body.of[c].t))])

\* expand: the leaves below an object, in document order, of the loaded parts.
RECURSIVE Expand(_, _, _, _, _)
Expand(doc, part, id, outer, t) ==
    IF part \notin DOMAIN doc THEN <<Fail>> ELSE IF id \notin DOMAIN doc[part] THEN <<Fail>>
    ELSE LET body == doc[part][id] IN
         IF body.k = "mesh"
         THEN IF body.triangles = <<>> THEN <<Fail>>
              ELSE <<[failed |-> FALSE, source |-> <<part, id>>, t |-> t, outer |-> outer]>>
         ELSE FlattenSeq([c \in DOMAIN body.of |->
                Expand(doc, IF body.of[c].path = Absent THEN part ELSE CHOOSE p \in body.of[c].path : TRUE,
                       body.of[c].id, outer, Append(t, body.of[c].t))])

\* flatten_build_item, of the items that print.
Leaves(doc, build) ==
    LET loaded == [p \in Referenced(doc, {""}) |-> doc[p]]
    IN FlattenSeq([i \in DOMAIN build |->
        IF ~build[i].printable THEN <<>>
        ELSE LET leaves == Expand(loaded, build[i].part, build[i].id, build[i].id, <<build[i].t>>)
             IN [l \in DOMAIN leaves |-> IF leaves[l].failed THEN leaves[l]
                                         ELSE leaves[l] @@ [at |-> build[i].at]]])

\* A source is loaded once, at its first leaf.
Meshes(leaves) ==
    LET first == SelectSeq([l \in DOMAIN leaves |-> l],
                           LAMBDA l : \A m \in 1..(l - 1) : leaves[m].source # leaves[l].source)
    IN [i \in DOMAIN first |-> leaves[first[i]].source]

\* The first plate that lists the object, else plate 1.
PlateOf(lists, id) ==
    LET on == {p \in DOMAIN lists : id \in lists[p]}
    IN IF on = {} THEN 1 ELSE CHOOSE p \in on : \A q \in on : p <= q

Over(f, g) == [k \in DOMAIN f \cup DOMAIN g |-> IF k \in DOMAIN g THEN g[k] ELSE f[k]]
Offset(leaves, l) == Cardinality({m \in 1..l : leaves[m].outer = leaves[l].outer})

\* The stanzas about a leaf's object, by id; the last of them stands.
StanzaOf(sets, leaves, l) == {s \in DOMAIN sets : sets[s].id = leaves[l].outer}

\* GroupId::fresh, for an object of several parts; 0 is no group.
GroupOf(sets, s) == IF Len(sets[s].parts) > 1 THEN s ELSE 0

\* apply_bbs_metadata: identity, overrides, plate and group of a leaf.
Enriched(leaves, sets, lists, l) ==
    LET plain == [source |-> leaves[l].source, t |-> leaves[l].t, at |-> leaves[l].at, outer |-> leaves[l].outer,
                  name |-> <<"object", leaves[l].source[2]>>, extruder |-> Absent, plate |-> 1, group |-> 0,
                  overrides |-> <<>>]
        about == StanzaOf(sets, leaves, l)
    IN IF about = {} THEN plain
       ELSE LET s == CHOOSE x \in about : \A y \in about : y <= x
                has == Offset(leaves, l) \in DOMAIN sets[s].parts
                who == IF has THEN sets[s].parts[Offset(leaves, l)] ELSE sets[s].own
            IN [plain EXCEPT !.name = IF who.name = Absent THEN @ ELSE CHOOSE n \in who.name : TRUE,
                             !.extruder = who.extruder,
                             !.overrides = Over(sets[s].own.config, IF has THEN who.config ELSE <<>>),
                             !.plate = IF lists = <<>> THEN 1 ELSE PlateOf(lists, leaves[l].outer),
                             !.group = GroupOf(sets, s)]

\* load_3mf
Load3mf(doc, build, sets, lists) ==
    LET leaves == Leaves(doc, build)
    IN IF leaves = <<>> \/ \E l \in DOMAIN leaves : leaves[l].failed THEN Fail
       ELSE [failed |-> FALSE, meshes |-> Meshes(leaves),
             objects |-> [l \in DOMAIN leaves |-> Enriched(leaves, sets, lists, l)]]

(***************************************************************************)
(* orca_import: the settings.  A value is the sequence of its elements,     *)
(* each a number in some spelling.                                         *)
(***************************************************************************)
Identity == {"printer_model", "print_settings_id", "filament_settings_id", "different_settings_to_system"}

\* partition
InBucket(s, b) ==
    {k \in DOMAIN s.keys \ Identity : IF b = "none" THEN k \notin DOMAIN Options
                                      ELSE k \in DOMAIN Options /\ Options[k].bucket = b}

\* mutant: the first element stands for all of them
CollapseFirst(v) == IF Len(v) > 1 THEN <<v[1]>> ELSE v

\* collapse_uniform
Collapse(v) == IF Len(v) > 1 /\ \A i \in DOMAIN v : v[i] = v[1] THEN <<v[1]>> ELSE v

\* values_equal: as numbers, however they are spelt.
ValuesEqual(v, w) ==
    LET a == Collapse(v)
        b == Collapse(w)
    IN Len(a) = Len(b) /\ \A i \in DOMAIN a : a[i].n = b[i].n

\* enum_value_known, negative_for_nonneg_option
Accepted(key, v) ==
    /\ Options[key].enum # {} => \A i \in DOMAIN v : v[i] \in Options[key].enum
    /\ Options[key].nonneg => \A i \in DOMAIN v : v[i].n >= 0

\* compute_overrides: the keys that are kept.
ComputeOverrides(s, keys, baseline, only) ==
    LET wanted == {k \in keys : (only # Absent => k \in (CHOOSE c \in only : TRUE)) /\ s.keys[k].form # "null"}
        redundant(k) == only = Absent /\ k \in DOMAIN baseline /\ ValuesEqual(baseline[k], s.keys[k].v)
    IN {k \in wanted : ~redundant(k) /\ Accepted(k, s.keys[k].v)}

\* gate_object_overrides
Gated(overrides) ==
    [k \in {x \in DOMAIN overrides : x \in DOMAIN Options /\ Options[x].object} |-> overrides[k]]

\* "Add model and settings": object_applicable_overrides against the plate it
\* is added to, under the object's own entries (apply_imported_object_settings).
ObjectSettings(s, baseline, own) ==
    LET keys == {k \in InBucket(s, "process") : Options[k].object /\ ~Options[k].index}
        diff == [k \in ComputeOverrides(s, keys, baseline, Absent) |-> s.keys[k].v]
        merged == Gated(Over(diff, own))
    IN [k \in {x \in DOMAIN merged : ~Options[x].index} |-> merged[k]]

\* bind_instance: the first of the model, else the first.
BindInstance(model) ==
    LET of == {i \in DOMAIN Instances : Instances[i].model = model}
    IN IF Instances = <<>> THEN Absent
       ELSE IF of # {} THEN {CHOOSE i \in of : \A j \in of : i <= j} ELSE {1}

\* mapped_process
MappedProcess(i, s) == IF s.process \in Instances[i].processes THEN {s.process} ELSE Absent

\* resolve_baseline: of the printer and the adopted process.
ResolveBaseline(bound, process) ==
    IF bound = Absent THEN <<>> ELSE Instances[CHOOSE i \in bound : TRUE].baseline[process]

(***************************************************************************)
(* orca_import: the plates.                                                *)
(***************************************************************************)
\* plate_columns: of the square root, rounded up.
PlateColumns(n) == CHOOSE c \in 1..n : c * c >= n /\ \A d \in 1..(c - 1) : d * d < n

\* plate_origin, with the gap of a fifth: a plate of five every six.
PlateOrigin(index, cols) == <<6 * (index % cols), -6 * (index \div cols)>>

\* register_object, ensure_material_bound_on_active: a painted plate binds
\* every filament of the file.
Materials(objects, s, painted) ==
    UNION {IF o.extruder = Absent THEN {1} ELSE o.extruder : o \in objects}
    \cup IF s.filaments > 1 /\ \E o \in objects : painted[o.source] THEN 1..s.filaments ELSE {}

IsPainted(doc, source) == ParseMesh(doc[source[1]][source[2]].triangles).color # <<>>

\* import: plate 1 always exists; the others when they have objects.
Imported(doc, loaded, s) ==
    LET ids == {o.plate : o \in Range(loaded.objects)}
        cols == PlateColumns(Cardinality(ids))
        bound == BindInstance(s.model)
        process == IF bound = Absent THEN Absent ELSE MappedProcess(CHOOSE i \in bound : TRUE, s)
        baseline == ResolveBaseline(bound, process)
        kept == ComputeOverrides(s, InBucket(s, "process"), baseline, s.changed)
        local(o) == LET origin == IF s.bed THEN PlateOrigin(o.plate - 1, cols) ELSE <<0, 0>>
                    IN [o EXCEPT !.at = <<@[1] - origin[1], @[2] - origin[2]>>, !.overrides = Gated(@)]
        painted == [m \in Range(loaded.meshes) |-> IsPainted(doc, m)]
    IN [plates |-> [p \in ids \cup {1} |->
                      LET objects == {l \in DOMAIN loaded.objects : loaded.objects[l].plate = p}
                      IN [objects |-> [l \in objects |-> local(loaded.objects[l])],
                          materials |-> IF bound = Absent THEN {}
                                        ELSE Materials({loaded.objects[l] : l \in objects}, s, painted),
                          overrides |-> [k \in kept |-> s.keys[k].v], process |-> process]],
        meshes |-> loaded.meshes, printer |-> bound, fallback |-> bound # Absent /\ \A i \in bound : Instances[i].model # s.model,
        report |-> [applied |-> kept, machine |-> InBucket(s, "printer"), filament |-> InBucket(s, "filament"),
                    unmapped |-> InBucket(s, "none")],
        baseline |-> baseline, settings |-> s]

(***************************************************************************)
(* project/format.rs: the container, by entry.                             *)
(***************************************************************************)
FormatVersion == "3"
Readable == {"2", "3"}
Blob(doc, m) == ParseMesh(doc[m[1]][m[2]].triangles)

\* write_project; a version "2" file has no support paint in its blobs.
WriteProject(doc, skeleton, version) ==
    [kind |-> "n3o", version |-> version, project |-> skeleton,
     geometry |-> [m \in Range(skeleton.meshes) |->
        IF version = "2" THEN [triangles |-> Blob(doc, m).triangles, color |-> Blob(doc, m).color]
        ELSE Blob(doc, m)]]

\* read_project
ReadProject(zip) ==
    IF zip.kind # "n3o" THEN [error |-> IF zip.kind = "3mf" THEN "foreign" ELSE "not a project"]
    ELSE IF zip.version \notin Readable THEN [error |-> "schema"]
    ELSE IF Range(zip.project.meshes) \ DOMAIN zip.geometry # {} THEN [error |-> "missing geometry"]
    ELSE [error |-> "", project |-> zip.project,
          geometry |-> [m \in Range(zip.project.meshes) |->
             IF zip.version = "3" THEN zip.geometry[m] ELSE zip.geometry[m] @@ [support |-> <<>>]]]

(***************************************************************************)
(* The other program writes its file: the objects it places, what it says   *)
(* of them in an order of its own, its plates; then the file is opened.     *)
(***************************************************************************)
ForeignInit ==
    /\ document \in Documents /\ grid \in Grids
    /\ items = <<>> /\ stanzas = <<>> /\ listed = <<>> /\ imported = {}

Unread == imported = {}

\* The other program's plate grid (PartPlateList): square, row by row, with a
\* gap of a fifth of a plate.
Columns(plates) == CHOOSE c \in 1..plates : (c - 1) * (c - 1) < plates /\ plates <= c * c
WorldOrigin(p, plates) == <<((p - 1) % Columns(plates)) * 6, -(((p - 1) \div Columns(plates)) * 6)>>

\* An object is placed on plate p of the other program's grid, plate after
\* plate; only the first of a one-plate file may be one that does not print
\* (bounds).
WriteItem(id, p, printable) ==
    /\ Unread /\ Len(items) < MaxItems /\ stanzas = <<>> /\ listed = <<>>
    /\ items # <<>> => p >= Last(items).on
    /\ printable \/ (grid = 1 /\ items = <<>>)
    /\ items' = Append(items, [part |-> "", id |-> id, t |-> <<"item", Len(items)>>, printable |-> printable,
                               at |-> WorldOrigin(p, grid), on |-> p])
    /\ UNCHANGED <<document, grid, stanzas, listed, imported>>

Described == \A i \in DOMAIN items : \E s \in DOMAIN stanzas : stanzas[s].id = items[i].id

WriteStanza(stanza) ==
    /\ Unread /\ listed = <<>>
    /\ \E i \in DOMAIN items : items[i].id = stanza.id
    /\ \A i \in DOMAIN stanzas : stanzas[i].id # stanza.id
    /\ stanzas' = Append(stanzas, ParseObject(stanza))
    /\ UNCHANGED <<document, grid, items, listed, imported>>

\* The plates with what they hold; an object left out is on none, as another
\* program may leave it.
WritePlates(out) ==
    /\ Unread /\ items # <<>> /\ Described /\ listed = <<>>
    /\ listed' = [p \in 1..grid |-> {items[i].id : i \in {j \in DOMAIN items : items[j].on = p}} \ out]
    /\ UNCHANGED <<document, grid, items, stanzas, imported>>

\* import, of a file that says something of every object or of none.
ImportProject(s) ==
    /\ Unread /\ items # <<>> /\ (stanzas = <<>> \/ Described)
    /\ LET loaded == Load3mf(document, items, stanzas, listed)
       IN imported' = {IF loaded.failed THEN Fail ELSE Imported(document, loaded, s) @@ [failed |-> FALSE]}
    /\ UNCHANGED <<document, grid, items, stanzas, listed>>

ForeignNext ==
    \/ \E id \in DOMAIN document[""], p \in 1..grid, b \in BOOLEAN : WriteItem(id, p, b)
    \/ \E id \in DOMAIN document[""] : \E stanza \in Stanzas(id) : WriteStanza(stanza)
    \/ \E out \in {{}, {1}} : WritePlates(out)
    \/ \E s \in Settings : ImportProject(s)

(***************************************************************************)
(* Properties.                                                             *)
(***************************************************************************)
Imports == {q \in imported : ~q.failed}
ObjectsOf(q) == UNION {{<<l, q.plates[p].objects[l]>> : l \in DOMAIN q.plates[p].objects} : p \in DOMAIN q.plates}
OncePlaced == \A i, j \in DOMAIN items : items[i].id = items[j].id => i = j
About(outer) == {i \in DOMAIN stanzas : stanzas[i].id = outer}

\* A leaf by hand: the components to follow from a build item.
Follow(i, path) ==
    FoldLeft(LAMBDA at, c :
        IF at = Absent THEN Absent
        ELSE LET a == CHOOSE x \in at : TRUE
                 body == document[a.part][a.id]
             IN IF body.k = "mesh" \/ c \notin DOMAIN body.of THEN Absent
                ELSE {[part |-> IF body.of[c].path = Absent THEN a.part ELSE CHOOSE p \in body.of[c].path : TRUE,
                       id |-> body.of[c].id, t |-> Append(a.t, body.of[c].t)]},
        {[part |-> "", id |-> items[i].id, t |-> <<items[i].t>>]}, path)
Paths == {<<>>} \cup {<<a>> : a \in 1..2} \cup {<<a, b>> : a \in 1..2, b \in 1..2}
Placements ==
    {<<i, a>> \in UNION {{<<i, a>> : a \in UNION {Follow(i, path) : path \in Paths}} :
                            i \in {j \in DOMAIN items : items[j].printable}} :
        document[a.part][a.id].k = "mesh"}

ForeignTypeOK ==
    /\ Cardinality(imported) <= 1
    /\ \A q \in Imports :
          /\ 1 \in DOMAIN q.plates /\ DOMAIN q.plates \subseteq 1..grid
          /\ Cardinality(ObjectsOf(q)) = Cardinality({o[1] : o \in ObjectsOf(q)})
          /\ \A p \in DOMAIN q.plates \ {1} : DOMAIN q.plates[p].objects # {}

\* The scene has an object for each mesh reached from a printable build item,
\* with the transforms on the way composed, and no other: components are
\* followed across the file's parts, a path unnamed meaning the same part.
LeavesArePlacements ==
    \A q \in Imports :
        /\ {<<o[2].source, o[2].t>> : o \in ObjectsOf(q)} = {<<<<x[2].part, x[2].id>>, x[2].t>> : x \in Placements}
        /\ Cardinality(ObjectsOf(q)) = Cardinality(Placements)

\* Objects share a mesh just when they are the same object of the same part.
MeshesAreShared ==
    \A q \in Imports : /\ Range(q.meshes) = {o[2].source : o \in ObjectsOf(q)}
                        /\ Len(q.meshes) = Cardinality(Range(q.meshes))

\* What the file says of an object reaches that object, whatever the order of
\* the settings and of the build.
MetadataFollowsIds ==
    \A q \in Imports : \A o \in ObjectsOf(q) :
        /\ About(o[2].outer) = {} => o[2].extruder = Absent
        /\ \A s \in About(o[2].outer) :
             stanzas[s].parts = <<>> => /\ stanzas[s].own.name # Absent => o[2].name \in stanzas[s].own.name
                                       /\ o[2].extruder = stanzas[s].own.extruder

\* The parts of one object, and only they, form a group, which stays on one
\* plate; for objects the build places once.
GroupsAreObjects ==
    \A q \in Imports : OncePlaced => \A o, u \in ObjectsOf(q) :
        (o[2].group # 0 /\ o[2].group = u[2].group) <=>
            /\ o[2].outer = u[2].outer /\ o[2].plate = u[2].plate
            /\ \E s \in About(o[2].outer) : Len(stanzas[s].parts) > 1

\* An object appears on the plate the file lists it on, in that plate's own
\* coordinates: for a file none of whose plates is empty, and objects placed
\* once (an empty plate narrows the importer's grid: plate_columns counts the
\* plates that have objects).
PlatesAsInFile ==
    \A q \in Imports :
        /\ OncePlaced /\ q.settings.bed /\ listed # <<>>
        /\ \A p \in 1..grid : \E i \in DOMAIN items : items[i].on = p /\ items[i].printable /\ items[i].id \in listed[p]
        => \A o \in ObjectsOf(q) : \A p \in DOMAIN listed :
              o[2].outer \in listed[p] => o[2].plate = p /\ o[2].at = <<0, 0>>

EffectiveValue(q, baseline, k) ==
    IF k \in DOMAIN q.plates[1].overrides THEN {q.plates[1].overrides[k]}
    ELSE IF k \in DOMAIN baseline THEN {baseline[k]} ELSE {}
Carried(s) == {k \in InBucket(s, "process") : s.keys[k].form # "null" /\ Accepted(k, s.keys[k].v)}
SameValue(v, w) == Len(v) = Len(w) /\ \A i \in DOMAIN v : v[i].n = w[i].n
Spread(v, n) == IF Len(v) = 1 THEN [i \in 1..n |-> v[1]] ELSE v

\* A project that does not say what it changed slices as it did: each of its
\* process settings the engine knows has its value, overridden or not.
DeltaIsLossless ==
    \A q \in Imports : q.settings.changed = Absent => \A k \in Carried(q.settings) :
        LET v == q.settings.keys[k].v
        IN \E w \in EffectiveValue(q, q.baseline, k) :
              SameValue(Spread(v, Len(w)), Spread(w, Len(v)))

\* What a project says it changed stays changed when its plate is bound to
\* another printer, with another baseline; and nothing else is pinned.
ChangesSurviveRebinding ==
    \A q \in Imports : \A changed \in q.settings.changed :
        /\ DOMAIN q.plates[1].overrides = Carried(q.settings) \cap changed
        /\ \A i \in DOMAIN Instances : \A k \in Carried(q.settings) \cap changed :
              EffectiveValue(q, Instances[i].baseline[Absent], k) = {q.settings.keys[k].v}

\* No override is one the engine rejects, or one a printer or a spool owns.
EngineTakesImports ==
    \A q \in Imports : \A p \in DOMAIN q.plates : \A k \in DOMAIN q.plates[p].overrides :
        /\ Options[k].bucket = "process"
        /\ \A i \in DOMAIN q.plates[p].overrides[k] :
              /\ Options[k].enum = {} \/ q.plates[p].overrides[k][i] \in Options[k].enum
              /\ Options[k].nonneg => q.plates[p].overrides[k][i].n >= 0

\* Whatever a plate's objects print with is bound on it: their extruders, and
\* every filament of a several-filament file where a face is painted.
EveryFilamentBound ==
    \A q \in Imports : q.printer # Absent => \A p \in DOMAIN q.plates :
        LET objects == Range(q.plates[p].objects)
        IN /\ \A o \in objects : o.extruder \subseteq q.plates[p].materials
           /\ q.settings.filaments > 1 /\ (\E o \in objects : IsPainted(document, o.source)) =>
                 1..q.settings.filaments \subseteq q.plates[p].materials

\* A model added with its settings keeps what it says of itself, and pins only
\* what the engine honours per object and no filament.
AddedObjectsKeepTheirOwn ==
    \A q \in Imports : \A s \in DOMAIN stanzas : \A i \in DOMAIN Instances :
        LET own == stanzas[s].own.config
            set == ObjectSettings(q.settings, Instances[i].baseline[Absent], own)
        IN /\ \A k \in DOMAIN set : Options[k].object /\ ~Options[k].index
           /\ \A k \in DOMAIN own \cap DOMAIN set : set[k] = own[k]
           /\ \A k \in DOMAIN own : k \in DOMAIN Options /\ Options[k].object /\ ~Options[k].index => k \in DOMAIN set

\* A saved project is read back as it was; a version "2" one lacks only the
\* support paint; and what cannot be read whole is not read at all.
ContainerRoundTrips ==
    \A q \in Imports :
        LET now == ReadProject(WriteProject(document, q, FormatVersion))
            old == ReadProject(WriteProject(document, q, "2"))
        IN /\ now.error = "" /\ now.project = q
           /\ \A m \in Range(q.meshes) :
                 /\ now.geometry[m] = Blob(document, m)
                 /\ old.geometry[m] = [Blob(document, m) EXCEPT !.support = <<>>]

(* An imported project is the one in the file: its objects, meshes, groups and       *)
(* plates, though the file refers by path, item and id, and its container reads back *)
(* what was written (orca_import/mod.rs:723 import, threemf/mod.rs).                 *)
ImportIsFaithful ==
  /\ ForeignTypeOK /\ LeavesArePlacements /\ MeshesAreShared /\ MetadataFollowsIds
  /\ GroupsAreObjects /\ PlatesAsInFile /\ ContainerRoundTrips

(* Every setting of the file that differs from the profiles it is bound to is kept,  *)
(* also after it is bound to others or added to a project, and the engine takes it   *)
(* (orca_import/mod.rs:313 compute_overrides, :402 object_applicable_overrides).     *)
OverridesAreFaithful ==
  /\ DeltaIsLossless /\ ChangesSurviveRebinding /\ EngineTakesImports /\ EveryFilamentBound
  /\ AddedObjectsKeepTheirOwn
=============================================================================
