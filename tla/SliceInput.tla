---------------------------------- MODULE SliceInput ----------------------------------
(***************************************************************************)
(* From a plate to what is sliced and sent: the gate and the job's input   *)
(* (slice/pre_slice_gate, slice/input), the configuration the worker gives *)
(* the engine (slice/orchestrator, cascade_safety), what the panel shows   *)
(* of it (project/resolve), and where each filament is printed from        *)
(* (driver/send).                                                          *)
(*                                                                         *)
(* A plate is [printer: bound or not, objects: a sequence of [material,    *)
(* painted, overrides], materials: how many the user has, slots:    *)
(* material -> <<extruder, slot>>, quality, overrides].                    *)
(***************************************************************************)
EXTENDS ProfileComposer

CONSTANTS
    MaxTemp             \* what the first toolhead can stand

(***************************************************************************)
(* Before the slice.                                                       *)
(***************************************************************************)
Referenced(plate) == {plate.objects[o].material : o \in DOMAIN plate.objects}
OnPlate(plate) == Referenced(plate) \cup UNION {plate.objects[o].painted : o \in DOMAIN plate.objects}

\* validate_plate: what stands in the way of slicing, by material.
Blocker(inst, slot) ==
    IF slot = <<>> THEN "UnmappedMaterial"
    ELSE IF slot[1] \notin DOMAIN inst.extruders THEN "SlotExtruderOutOfRange"
    ELSE IF slot[2] \notin DOMAIN inst.extruders[slot[1]].slots THEN "SlotIndexOutOfRange"
    ELSE IF inst.extruders[slot[1]].slots[slot[2]].ident = "" THEN "SlotHasNoFilament"
    ELSE ""
Blockers(plate, inst, known) ==
    IF ~plate.printer THEN {"UnboundPrinter"}
    ELSE IF ~known THEN {"UnknownPrinterInstance"}
    ELSE {Blocker(inst, Default(plate.slots, m, <<>>)) : m \in Referenced(plate)} \ {""}

\* build_slice_input: the first thing it cannot work with.
InputError(lib, plate, inst, known) ==
    IF ~plate.printer \/ ~known THEN "UnboundPrinter"
    ELSE IF inst.ref \notin DOMAIN lib.catalog THEN "PrinterNotInRegistry"
    ELSE IF ~Contains(Profile(lib, inst.ref).beds, inst.bed) THEN "UnsupportedBuildPlate"
    ELSE IF plate.objects = <<>> THEN "EmptyScene"
    ELSE ""

\* A tool changer that cannot route in its firmware has a filament per slot;
\* every other printer one per material.
SlotFanned(lib, inst) == Len(inst.extruders) > 1 /\ Profile(lib, inst.ref).driver # "U1"
Layout(lib, plate, inst) ==
    IF SlotFanned(lib, inst) THEN <<>>
    ELSE [m \in 1..plate.materials |-> Default(plate.slots, m, <<>>)]

\* The filament rules are matched against; the user's own are of no known type.
ContextFilament(lib, ident) ==
    [name |-> ident, type |-> IF Summarised(lib, ident) THEN FilamentSummary(lib, ident).type ELSE "PLA"]
ContextFilaments(lib, inst, layout) ==
    LET entries == Entries(inst, layout)
        filament(entry) == ContextFilament(lib, Identity(inst, entry))
    IN [i \in DOMAIN entries |-> filament(entries[i])]

\* material_to_filament_idx: the slots before it, and its own.
FlatSlot(inst, slot) ==
    Len(FlattenSeq([e \in 1..(slot[1] - 1) |-> Default(inst.extruders, e, [slots |-> <<>>]).slots])) + slot[2]
FilamentIndex(lib, plate, inst, m) ==
    IF SlotFanned(lib, inst) /\ m \in DOMAIN plate.slots THEN FlatSlot(inst, plate.slots[m]) ELSE m

\* gate_object_overrides
ObjectOverrides(set) == [k \in {x \in DOMAIN set \cap DOMAIN Schema : Schema[x].object} |-> set[k]]
PlateObjects(lib, plate, inst) ==
    [o \in DOMAIN plate.objects |->
        [plate.objects[o] EXCEPT !.material = FilamentIndex(lib, plate, inst, @),
                                 !.overrides = ObjectOverrides(@)]]

\* The paint keeps its materials, so a slot-fanned printer renumbers it too.
PaintRemap(lib, plate, inst) ==
    [m \in 1..plate.materials |->
        IF SlotFanned(lib, inst) /\ \E o \in DOMAIN plate.objects : plate.objects[o].painted # {}
        THEN FilamentIndex(lib, plate, inst, m) ELSE m]

(***************************************************************************)
(* The configuration.                                                      *)
(***************************************************************************)
\* SlicingContext: slot 0 is the active one; there is no nozzle.
Context(lib, inst, filaments) ==
    PrinterModel :> Profile(lib, inst.ref).model
    @@ PlateType :> inst.bed
    @@ (IF filaments = <<>> THEN Empty
        ELSE FilamentType :> filaments[1].type @@ FilamentName :> filaments[1].name)

\* compose_instance_cascade_and_ctx, resolve_cascade: a layout of slots for the
\* panel, of the plate's materials for the slice.
ResolveFor(lib, users, plate, inst, layout, user, project) ==
    LET composed == Compose(lib, users, WithQuality(inst, plate.quality), layout)
        context == Context(lib, inst, ContextFilaments(lib, inst, layout))
    IN [error |-> composed.error,
        keys |-> IF composed.error # "" THEN Empty
                 ELSE ResolveWith(composed.rules, user, project, Empty, context)]

\* run_worker: what the engine is configured with, before its own checks.
SliceValues(lib, users, plate, inst, user) ==
    Values(ResolveFor(lib, users, plate, inst, Layout(lib, plate, inst),
                      Slicer(user), Slicer(plate.overrides)).keys)

\* resolve_plate_cascade: the panel's rows; the tiers are drawn by the page.
PanelRows(lib, users, plate, inst) ==
    ResolveFor(lib, users, plate, inst, <<>>, Empty, Empty).keys

\* plate_effective_baseline: an object's values before its own overrides.
Baseline(lib, users, plate, inst, user) ==
    Values(ResolveFor(lib, users, plate, inst, <<>>, user, plate.overrides).keys)

\* layer_for_source: the row of the panel a rule's value is shown in.
LayerOf(src) ==
    CASE src \in {"process", "<process-overrides>"} -> "user"
      [] src = "bed" -> "build_plate"
      [] src \in {"filament", "<filament-vector-assembly>", "<filament-colour-synthesis>"} -> "filament"
      [] src \in {"nozzle", "<extruder-vector-assembly>"} -> "nozzle"
      [] src \in {"machine", "<flush-defaults>", "<filament-topology>", "<machine-overrides>"} -> "printer"
      [] OTHER -> ""

\* mutant: the last filament stands for all
TooHotLast(values, key) ==
    key \in DOMAIN values /\ values[key] # <<>> /\ values[key][Len(values[key])] > MaxTemp

\* validate_resolved_cascade: what is not safe to send to a printer.
TooHot(values, key) == key \in DOMAIN values /\ values[key] # <<>> /\ values[key][1] > MaxTemp
CascadeIssues(lib, inst, values) ==
    LET empty(k) == Default(values, k, <<>>) = <<>>
        accelerates == ~empty("machine_max_acceleration_extruding")
                       /\ values["machine_max_acceleration_extruding"][1] > 0
    IN {k \in {"machine_start_gcode", "machine_end_gcode"} : empty(k)}
       \cup {k \in {"change_filament_gcode"} : MultipleSlots(Profile(lib, inst.ref)) /\ empty(k)}
       \cup {k \in {"machine_max_acceleration_extruding"} : ~accelerates}
       \cup {k \in {"nozzle_temperature", "nozzle_temperature_initial_layer"} : TooHot(values, k)}

\* tower_geometry_for_plate: a tower only for two slots or more.
TowerSlots(plate) == {Default(plate.slots, m, <<m>>) : m \in OnPlate(plate)}
Tower(lib, users, plate, inst) ==
    LET values == Values(ResolveFor(lib, users, plate, inst, <<>>, Empty, plate.overrides).keys)
    IN IF Cardinality(TowerSlots(plate)) < 2 \/ Default(values, "enable_prime_tower", <<0>>) # <<1>>
       THEN <<>> ELSE Default(values, "wipe_tower_x", Schema["wipe_tower_x"].default)

(***************************************************************************)
(* Routing: where the filament an object names is printed from.            *)
(***************************************************************************)
\* u1_map_table: the toolhead of every material, the first one's if unbound.
MapTable(plate) == [m \in 1..plate.materials |-> Default(plate.slots, m, <<1, 1>>)[1]]

\* physical_extruders_used, logical_nozzle_diameters
PhysicalUsed(plate, used) == {MapTable(plate)[m] : m \in used \cap DOMAIN MapTable(plate)}
NozzleList(plate, inst) ==
    [m \in DOMAIN MapTable(plate) |-> Default(inst.extruders, MapTable(plate)[m], [nozzle |-> "0"]).nozzle]

\* plate_nozzle_diameters, u1_usage_from_gcode: what a print uses of filament
UsedLogical(lib, plate, inst) == {FilamentIndex(lib, plate, inst, m) : m \in OnPlate(plate)}

\* The toolhead a filament of the sliced plate comes out of.
Toolhead(lib, plate, inst, f) ==
    IF SlotFanned(lib, inst) THEN AllSlots(inst)[f][1]
    ELSE IF Profile(lib, inst.ref).driver = "U1" THEN MapTable(plate)[f]
    ELSE 1
=======================================================================================
