-------------------------------- MODULE ProfileLibrary --------------------------------
(***************************************************************************)
(* The bundled profiles (core/profile_library): what a startup scan of the *)
(* profile directories keeps, what the composer looks up in it, and what   *)
(* the pickers offer from it (core/printer/registry, the *_list commands). *)
(*                                                                         *)
(* The scan is a sequence of files in the order they are read:             *)
(*   [kind, slug, name, doc, src], kind one of "machine", "nozzle", "bed", *)
(*   "process", "filament" (slug "") with a cascade document;              *)
(*   [kind |-> "pa" | "ramming", slug, table] with a table from            *)
(*   <<base type, nozzle>> to values; and                                  *)
(*   [kind |-> "model", slug, toolheads, amsMax, driver], the catalogue    *)
(*   entry, toolheads being the default nozzle of each.                    *)
(***************************************************************************)
EXTENDS Cascade

CONSTANTS
    Keys,               \* the names a document's blocks start with, in tree order
    Constituents        \* a nozzle specification -> the diameters between its '+'

\* The dimensions of the bundled profiles
PrinterModel == <<"printer", "model">>
NozzleDiameter == <<"nozzle", "diameter">>
PlateType == <<"plate", "type">>
FilamentType == <<"filament", "type">>
FilamentName == <<"filament", "name">>

\* The first value a fragment sets for a key; <<>> for none.
FirstSet(rules, key) ==
    LET setting == SelectSeq(rules, LAMBDA r : key \in DOMAIN r.set)
    IN IF setting = <<>> THEN <<>> ELSE setting[1].set[key]
Default(f, k, otherwise) == IF k \in DOMAIN f THEN f[k] ELSE otherwise

NewLibrary == [fragments |-> Empty, tables |-> Empty, order |-> Empty, catalog |-> Empty,
               error |-> ""]

\* insert_fragment: the later file wins; the order of names is kept for the
\* pickers, filaments once (load_vendor), the rest as often as they are read.
InsertFragment(lib, f) ==
    LET names == Default(lib.order, <<f.kind, f.slug>>, <<>>)
        again == f.kind = "filament" /\ Contains(names, f.name)
    IN IF ParseFails(f.doc) THEN [lib EXCEPT !.error = "cascade"]
       ELSE [lib EXCEPT !.fragments = Under(@, <<f.kind, f.slug, f.name>> :>
                                                   ParseCascade(f.doc, f.src, Keys)),
                        !.order = Under(@, <<f.kind, f.slug>> :>
                                               IF again THEN names ELSE Append(names, f.name))]

\* Lookups: <<>> when there is no such fragment.
Fragment(lib, kind, slug, name) == Default(lib.fragments, <<kind, slug, name>>, <<>>)
Has(lib, kind, slug, name) == <<kind, slug, name>> \in DOMAIN lib.fragments
Machine(lib, slug) == Fragment(lib, "machine", slug, "machine")
Names(lib, kind, slug) == Default(lib.order, <<kind, slug>>, <<>>)

\* load_printers: a model.toml needs the machine fragment's model and bed.
AddModel(lib, f) ==
    LET machine == Machine(lib, f.slug)
    IN IF FirstSet(machine, "printer_model") = <<>>
       THEN [lib EXCEPT !.error = "MissingPrinterModel"]
       ELSE IF FirstSet(machine, "default_bed_type") = <<>>
       THEN [lib EXCEPT !.error = "MissingDefaultBedType"]
       ELSE [lib EXCEPT !.catalog = Under(@, f.slug :> f)]

LoadFile(lib, f) ==
    IF lib.error # "" THEN lib
    ELSE IF f.kind = "model" THEN AddModel(lib, f)
    ELSE IF f.kind \in {"pa", "ramming"}
    THEN [lib EXCEPT !.tables = Under(@, <<f.kind, f.slug>> :> f.table)]
    ELSE InsertFragment(lib, f)

Load(files) == FoldLeft(LoadFile, NewLibrary, files)

\* resolve_pressure_advance: the calibrated value, the printer's table, or
\* nothing, which leaves the filament fragment's own; resolve_multitool_ramming.
Table(lib, kind, slug, type, nozzle) ==
    Default(Default(lib.tables, <<kind, slug>>, Empty), <<type, nozzle>>, <<>>)
PressureAdvance(lib, slug, type, nozzle, calibrated) ==
    IF calibrated # <<>> THEN calibrated ELSE Table(lib, "pa", slug, type, nozzle)

\* The first value of the first rule without conditions (nozzle_default_process,
\* nozzle_type_for), where a summary takes those of the first rule.
OfDefaultRule(rules, key) ==
    LET plain == SelectSeq(rules, LAMBDA r : Specificity(r) = 0)
    IN IF plain = <<>> \/ key \notin DOMAIN plain[1].set THEN <<>> ELSE plain[1].set[key]
NozzleDefaultProcess(lib, slug, sku) ==
    OfDefaultRule(Fragment(lib, "nozzle", slug, sku), "default_process_profile")

\* filament_summary_from: what the filament picker shows of a fragment.
FilamentSummary(lib, slug) ==
    LET set == Fragment(lib, "filament", "", slug)[1].set
        field(key, otherwise) == Default(set, key, <<otherwise>>)[1]
    IN [id |-> slug, type |-> field("filament_type", "PLA"), custom |-> FALSE, edited |-> FALSE,
        name |-> field("filament_settings_id", slug), vendor |-> field("filament_vendor", "Generic")]
Summarised(lib, slug) ==
    Has(lib, "filament", "", slug) /\ Fragment(lib, "filament", "", slug) # <<>>
ListFilaments(lib) ==
    LET slugs == SelectSeq(Names(lib, "filament", ""), LAMBDA s : Summarised(lib, s))
    IN [n \in DOMAIN slugs |-> FilamentSummary(lib, slugs[n])]

\* filament_slug_by_display_name
SlugByName(lib, name) ==
    LET named == SelectSeq(ListFilaments(lib), LAMBDA s : s.name = name)
    IN IF named = <<>> THEN "" ELSE named[1].id

\* derive_process_availability: only rules that name one nozzle.
Availability(rules) ==
    LET keyed == {i \in DOMAIN rules : /\ {PrinterModel, NozzleDiameter} \subseteq DOMAIN rules[i].when
                                       /\ \E n \in rules[i].when[NozzleDiameter] :
                                              rules[i].when[NozzleDiameter] = {n}}
    IN UNION {rules[i].when[PrinterModel] \X rules[i].when[NozzleDiameter] : i \in keyed}

\* list_process_fragments: offered when any of its nozzles is installed.
Offered(rules, model, installed) ==
    \E a \in Availability(rules) : a[1] = model /\ Constituents[a[2]] \cap installed # {}
ListProcesses(lib, slug, model, installed) ==
    SelectSeq(Names(lib, "process", slug),
              LAMBDA p : Offered(Fragment(lib, "process", slug, p), model, installed))

\* hydrate_profile: the catalogue entry, completed from the fragments.
Profile(lib, slug) ==
    LET entry == lib.catalog[slug]
    IN [model |-> FirstSet(Machine(lib, slug), "printer_model")[1],
        beds |-> Names(lib, "bed", slug), nozzles |-> Names(lib, "nozzle", slug),
        defaultBed |-> FirstSet(Machine(lib, slug), "default_bed_type")[1],
        toolheads |-> entry.toolheads, amsMax |-> entry.amsMax, driver |-> entry.driver]
MultipleSlots(profile) == Len(profile.toolheads) > 1 \/ profile.amsMax > 0

(***************************************************************************)
(* create_instance: a printer of the user's, from the catalogue.           *)
(***************************************************************************)
\* The nozzle's own default filament when the library has it.
DefaultFilament(lib, slug, sku) ==
    LET wanted == FirstSet(Fragment(lib, "nozzle", slug, sku), "default_filament_profile")
        found == IF wanted = <<>> THEN "" ELSE SlugByName(lib, wanted[1])
    IN IF found = "" THEN "generic-pla" ELSE found

Slot(filament) == [ident |-> filament, color |-> ""]
Extruder(lib, slug, sku, slots) ==
    [nozzle |-> sku, slots |-> [n \in 1..slots |-> Slot(DefaultFilament(lib, slug, sku))]]

\* The nozzle's default process, or the first the printer has.
DefaultProcess(lib, slug, sku) ==
    LET own == NozzleDefaultProcess(lib, slug, sku)
    IN IF own # <<>> THEN own[1]
       ELSE IF Names(lib, "process", slug) # <<>> THEN Names(lib, "process", slug)[1] ELSE ""

\* One extruder per toolhead of a tool changer, else the AMS slots and one more.
CreateInstance(lib, slug, amsSlots) ==
    LET profile == Profile(lib, slug)
        tools == profile.toolheads
        bed == IF Contains(profile.beds, profile.defaultBed) THEN profile.defaultBed
               ELSE profile.beds[1]
    IN [ref |-> slug, slug |-> slug, bed |-> bed, config |-> Empty, calibrated |-> Empty,
        default |-> DefaultFilament(lib, slug, tools[1]),
        quality |-> DefaultProcess(lib, slug, tools[1]),
        extruders |-> IF Len(tools) > 1
                      THEN [n \in DOMAIN tools |-> Extruder(lib, slug, tools[n], 1)]
                      ELSE <<Extruder(lib, slug, tools[1], amsSlots + 1)>>]

\* set_extruder_nozzle_diameter: a process the new nozzles do not offer gives
\* way to the default of the nozzle just installed.
SetNozzle(lib, inst, e, sku) ==
    LET after == [inst EXCEPT !.extruders[e].nozzle = sku]
        installed == {after.extruders[x].nozzle : x \in DOMAIN after.extruders}
        offered == ListProcesses(lib, inst.slug, Profile(lib, inst.ref).model, installed)
        own == NozzleDefaultProcess(lib, inst.slug, sku)
    IN IF ~Contains(Profile(lib, inst.ref).nozzles, sku) THEN inst
       ELSE IF Contains(offered, inst.quality) \/ own = <<>> THEN after
       ELSE [after EXCEPT !.quality = own[1]]

\* set_instance_bed
SetBed(lib, inst, bed) ==
    IF Contains(Profile(lib, inst.ref).beds, bed) THEN [inst EXCEPT !.bed = bed] ELSE inst
=======================================================================================
