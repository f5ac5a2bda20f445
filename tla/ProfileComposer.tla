-------------------------------- MODULE ProfileComposer --------------------------------
(***************************************************************************)
(* From the profiles to the engine's configuration: the rules composed for *)
(* a printer and the filaments a plate uses (profile_library/composer.rs), *)
(* and the resolved values handed to the engine (cascade_adapter).         *)
(*                                                                         *)
(* A filament of a layout is <<extruder, slot>>, or <<>> when the plate    *)
(* has bound nothing to it.  users holds the user's own profiles:          *)
(*   users.fil  [id -> [base, ov]],                                        *)
(*   users.proc [<<printer, id>> -> [base, ov]].                           *)
(***************************************************************************)
EXTENDS ProfileLibrary

CONSTANTS
    Schema,             \* option -> [default, filament: one value per filament,
                        \*            process: in the process bucket, object: per object]
    PluginKeys,         \* the options that are a plugin's, not the engine's
    BedTempKeys         \* the options bed_temp stands for

ASSUME SchemaAssumption == BedTempKeys \subseteq DOMAIN Schema /\ PluginKeys \cap DOMAIN Schema = {}

Slicer(f) == [k \in DOMAIN f \ PluginKeys |-> f[k]]

(***************************************************************************)
(* The layout.                                                             *)
(***************************************************************************)
\* A slot the printer does not have (any more) is an unbound filament.
Unbound == [slot |-> Slot(""), extruder |-> 1]
Bound(inst, ref) ==
    /\ ref # <<>>
    /\ ref[1] \in DOMAIN inst.extruders
    /\ ref[2] \in DOMAIN inst.extruders[ref[1]].slots
Entry(inst, ref) ==
    IF Bound(inst, ref) THEN [slot |-> inst.extruders[ref[1]].slots[ref[2]], extruder |-> ref[1]]
    ELSE Unbound
ResolveLayout(inst, layout) == [i \in DOMAIN layout |-> Entry(inst, layout[i])]

\* slot_layout: every slot of the printer, extruder by extruder.
AllSlots(inst) ==
    FlattenSeq([e \in DOMAIN inst.extruders |->
                   [s \in DOMAIN inst.extruders[e].slots |-> <<e, s>>]])
Entries(inst, layout) ==
    ResolveLayout(inst, IF layout = <<>> THEN AllSlots(inst) ELSE layout)

WithQuality(inst, quality) == IF quality = "" THEN inst ELSE [inst EXCEPT !.quality = quality]

Identity(inst, entry) == IF entry.slot.ident = "" THEN inst.default ELSE entry.slot.ident
ResolveFilamentRef(users, ident) == Default(users.fil, ident, [base |-> ident, ov |-> Empty])
ResolveProcessRef(users, inst) ==
    Default(users.proc, <<inst.slug, inst.quality>>, [base |-> inst.quality, ov |-> Empty])

(***************************************************************************)
(* Vectors: one option over several fragments.                             *)
(***************************************************************************)
\* engine_default_map
EngineDefault(key) ==
    IF key \in DOMAIN Schema /\ Schema[key].default # <<>> THEN <<Schema[key].default[1]>> ELSE <<"">>

\* mutant: a fragment that does not set the option takes the first one's value
ZipLeaks(key, fragments) ==
    LET first == CHOOSE i \in DOMAIN fragments : key \in DOMAIN fragments[i]
    IN FlattenSeq([i \in DOMAIN fragments |-> Default(fragments[i], key, fragments[first][key])])

\* zip_vector: a fragment that does not set the option has the engine's default.
Vector(key, fragments) ==
    FlattenSeq([i \in DOMAIN fragments |-> Default(fragments[i], key, EngineDefault(key))])
Zipped(fragments) ==
    [k \in UNION {DOMAIN fragments[i] : i \in DOMAIN fragments} |-> Vector(k, fragments)]

NozzleVectors(lib, inst) ==
    Zipped([e \in DOMAIN inst.extruders |->
               LET rules == Fragment(lib, "nozzle", inst.slug, inst.extruders[e].nozzle)
               IN IF rules = <<>> THEN Empty ELSE rules[1].set])

\* assemble_flush_defaults: a block per head, 280 between two filaments.
FlushDefaults(inst, n) ==
    LET block == [c \in 1..(n * n) |-> IF (c - 1) \div n = (c - 1) % n THEN 0 ELSE 280]
    IN "flush_volumes_matrix" :> FlattenSeq([h \in DOMAIN inst.extruders |-> block])
       @@ "flush_multiplier" :> [h \in DOMAIN inst.extruders |-> 1]

Topology(entries) ==
    "filament_self_index" :> [i \in DOMAIN entries |-> i]
    @@ "filament_map" :> [i \in DOMAIN entries |-> entries[i].extruder]
    @@ "filament_map_mode" :> <<"Manual">>

Colours(entries) ==
    "filament_colour" :> [i \in DOMAIN entries |-> IF entries[i].slot.color = "" THEN "#F2754E"
                                                   ELSE entries[i].slot.color]

(***************************************************************************)
(* One filament: its fragment in its own context, the user's edits, then   *)
(* the printer's pressure advance and ramming for its type and nozzle.     *)
(***************************************************************************)
SlotContext(lib, inst, slug) ==
    LET model == FirstSet(Machine(lib, inst.slug), "printer_model")
    IN PlateType :> inst.bed
       @@ (IF model = <<>> THEN Empty ELSE PrinterModel :> model[1])
       @@ (IF ~Summarised(lib, slug) THEN Empty
           ELSE FilamentType :> FilamentSummary(lib, slug).type @@ FilamentName :> slug)

\* resolve_filament_scalars: a fragment's values in a context, without edits
FilamentBase(lib, inst, slug) ==
    Values(Resolve(Fragment(lib, "filament", "", slug), SlotContext(lib, inst, slug)))

\* The value measured on this printer with this spool through this nozzle.
Calibrated(inst, entry) ==
    Default(inst.calibrated,
            <<Identity(inst, entry), entry.slot.color, inst.extruders[entry.extruder].nozzle>>, <<>>)

FilamentScalars(lib, users, inst, entry) ==
    LET user == ResolveFilamentRef(users, Identity(inst, entry))
        edited == Under(FilamentBase(lib, inst, user.base), user.ov)
        type == FilamentSummary(lib, user.base).type
        nozzle == inst.extruders[entry.extruder].nozzle
        pa == PressureAdvance(lib, inst.ref, type, nozzle, Calibrated(inst, entry))
        ramming == Table(lib, "ramming", inst.ref, type, nozzle)
    IN IF ~Summarised(lib, user.base) THEN edited
       ELSE Under(Under(edited, IF pa = <<>> THEN Empty
                                ELSE "pressure_advance" :> pa @@ "enable_pressure_advance" :> <<1>>),
                  IF ramming = <<>> THEN Empty
                  ELSE "filament_multitool_ramming" :> <<1>>
                       @@ "filament_multitool_ramming_volume" :> ramming)
FilamentVectors(lib, users, inst, entries) ==
    Zipped([i \in DOMAIN entries |-> FilamentScalars(lib, users, inst, entries[i])])

(***************************************************************************)
(* compose_cascade                                                         *)
(***************************************************************************)
\* The first fragment it misses, in the order it looks them up.
ComposeError(lib, users, inst, entries) ==
    LET slugs == {ResolveFilamentRef(users, Identity(inst, entries[i])).base : i \in DOMAIN entries}
        process == ResolveProcessRef(users, inst).base
        nozzles == {inst.extruders[e].nozzle : e \in DOMAIN inst.extruders}
    IN IF inst.extruders = <<>> THEN "NoExtruders"
       ELSE IF ~Has(lib, "machine", inst.slug, "machine") THEN "UnknownPrinterFragment"
       ELSE IF ~Has(lib, "bed", inst.slug, inst.bed) THEN "UnknownBedFragment"
       ELSE IF \E n \in nozzles : ~Has(lib, "nozzle", inst.slug, n) THEN "UnknownNozzleFragment"
       ELSE IF \E s \in slugs : ~Has(lib, "filament", "", s) THEN "UnknownFilamentFragment"
       ELSE IF ~Has(lib, "process", inst.slug, process) THEN "UnknownProcessFragment"
       ELSE ""

\* A synthesised rule; none when it would set nothing.
Synthesised(set, src) == IF DOMAIN set = {} THEN <<>> ELSE <<Rule(Empty, set, src)>>
Saved(set, src) == IF DOMAIN set = {} THEN <<>> ELSE <<Override(set, src)>>

ComposedRules(lib, users, inst, entries) ==
    LET process == ResolveProcessRef(users, inst)
    IN Synthesised(FlushDefaults(inst, Len(entries)), "<flush-defaults>")
       \o Machine(lib, inst.slug)
       \o Fragment(lib, "bed", inst.slug, inst.bed)
       \o Synthesised(NozzleVectors(lib, inst), "<extruder-vector-assembly>")
       \o Synthesised(Topology(entries), "<filament-topology>")
       \o Synthesised(FilamentVectors(lib, users, inst, entries), "<filament-vector-assembly>")
       \o Synthesised(Colours(entries), "<filament-colour-synthesis>")
       \o Fragment(lib, "process", inst.slug, process.base)
       \o Saved(process.ov, "<process-overrides>")
       \o Saved(Slicer(inst.config), "<machine-overrides>")

Compose(lib, users, inst, layout) ==
    LET entries == Entries(inst, layout)
        error == ComposeError(lib, users, inst, entries)
    IN [error |-> error,
        rules |-> IF error = "" THEN ComposedRules(lib, users, inst, entries) ELSE <<>>]

(***************************************************************************)
(* adapt: the resolved values as the engine's configuration.               *)
(***************************************************************************)
FilamentCount(values) == Len(Default(values, "filament_diameter", <<>>))

\* check_filament_vector_lengths: too few values is an error, too many is not.
ShortVectors(values) ==
    {k \in DOMAIN values \cap DOMAIN Schema : Schema[k].filament /\ Len(values[k]) < FilamentCount(values)}

\* libslic3r_curr_bed_type
CurrBedType(plate) ==
    Default("PEI" :> "Textured PEI Plate" @@ "Textured PEI" :> "Textured PEI Plate"
            @@ "Smooth PEI" :> "Smooth PEI Plate" @@ "Cool" :> "Cool Plate"
            @@ "Eng" :> "Engineering Plate" @@ "Engineering" :> "Engineering Plate"
            @@ "SuperTack" :> "Supertack Plate" @@ "Supertack" :> "Supertack Plate"
            @@ "Textured Cool" :> "Textured Cool Plate", plate, plate)

\* What the engine does not know is skipped; bed_temp becomes its options.
Adapt(values, plateType) ==
    LET known == [k \in DOMAIN values \cap DOMAIN Schema |-> values[k]]
        bed == IF "bed_temp" \in DOMAIN values THEN [k \in BedTempKeys |-> values["bed_temp"]] ELSE Empty
    IN [error |-> IF ShortVectors(values) = {} THEN "" ELSE "FilamentVectorTooShort",
        config |-> IF ShortVectors(values) # {} THEN Empty
                   ELSE Under(Under(known, bed), [k \in {"curr_bed_type"} |-> <<CurrBedType(plateType)>>])]
==========================================================================================
