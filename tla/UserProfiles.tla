--------------------------------- MODULE UserProfiles ---------------------------------
(***************************************************************************)
(* The user's own profiles and everything that decides what a plate is     *)
(* sliced with: the filament and process libraries (core/filament/library, *)
(* core/process/library), the commands that save a plate's settings onto a *)
(* profile and take them back (core/project/commands), the printer's slots,*)
(* nozzles, bed and calibrations, and the plate's bindings.                *)
(*                                                                         *)
(* The libraries write every change through to a file per profile, so what *)
(* is on disk is what is in memory until a restart reads it back.          *)
(***************************************************************************)
EXTENDS SliceInput

CONSTANTS
    Files,              \* the bundled profiles, in the order they are read
    Starts,             \* the printers and plates a run starts with
    CustomFilament,     \* the id a cloned filament gets
    CustomProcess,      \* the id a duplicated process gets
    FilamentEdits,      \* [option -> value] the user may set on a filament
    PlateEdits,         \* ... on the plate
    MachineEdits,       \* ... on the printer
    Colors,             \* the colours of spools
    Ks,                 \* what a calibration may measure
    Budget              \* how many things the user does

(***************************************************************************)
(* The options the last check asks for are the engine's, and bed_temp      *)
(* stands for none of them.  A run starts with a printer as the catalogue  *)
(* makes one: several slots take several toolheads or an AMS.              *)
(***************************************************************************)
Gated == {"machine_start_gcode", "machine_end_gcode", "change_filament_gcode",
          "machine_max_acceleration_extruding"}
Tempered == {"nozzle_temperature", "nozzle_temperature_initial_layer"}

\* The library is loaded once.
Lib == Load(Files)

ASSUME GatedAssumption ==
    Gated \subseteq DOMAIN Schema /\ (Gated \cup Tempered) \cap BedTempKeys = {}
ASSUME StartsAssumption ==
    \A s \in Starts :
        /\ {"ref", "slug", "bed", "config", "calibrated", "quality", "extruders"} \subseteq DOMAIN s.inst
        /\ \A e \in DOMAIN s.inst.extruders :
               {"nozzle", "slots"} \subseteq DOMAIN s.inst.extruders[e]
        /\ Len(AllSlots(s.inst)) > 1 => MultipleSlots(Profile(Lib, s.inst.ref))

\* The tower's place belongs to the plate.
StampExcluded == {"wipe_tower_x", "wipe_tower_y"}

VARIABLES
    users,              \* the two libraries
    inst,               \* the printer
    plate,              \* the plate bound to it
    userTier,           \* the user's overrides of every plate
    spent               \* steps so far

vars == <<users, inst, plate, userTier, spent>>

Step == spent < Budget /\ spent' = spent + 1
Drop(f, k) == [x \in DOMAIN f \ {k} |-> f[x]]
Selected == WithQuality(inst, plate.quality).quality
Key == <<inst.slug, Selected>>
IsCustom(id, entry) == id # entry.base

Init ==
    /\ \E s \in Starts : inst = s.inst /\ plate = s.plate /\ users = s.users /\ userTier = s.user
    /\ spent = 0

(***************************************************************************)
(* Filaments.                                                              *)
(***************************************************************************)
\* set_override: an edited bundled filament that has nothing left is as bundled
\* again; a custom one stays.
WithFilamentOverride(id, ov) ==
    LET base == ResolveFilamentRef(users, id).base
    IN IF DOMAIN ov = {} /\ base = id THEN Drop(users.fil, id)
       ELSE Under(users.fil, id :> [base |-> base, ov |-> ov])
SetFilament(id, k) ==
    /\ Step /\ (Summarised(Lib, id) \/ id \in DOMAIN users.fil)
    /\ \E ov \in {Drop(ResolveFilamentRef(users, id).ov, k),
                  Under(ResolveFilamentRef(users, id).ov, k :> FilamentEdits[k])} :
           users' = [users EXCEPT !.fil = WithFilamentOverride(id, ov)]
    /\ UNCHANGED <<inst, plate, userTier>>

\* clone_custom: the frozen name is left behind, a new type is an override.
Clone(source, relabel) ==
    LET from == ResolveFilamentRef(users, source)
    IN [base |-> from.base, ov |-> Under(Drop(from.ov, "filament_settings_id"), relabel)]
CloneFilament(source, relabel) ==
    /\ Step /\ CustomFilament \notin DOMAIN users.fil
    /\ Summarised(Lib, ResolveFilamentRef(users, source).base)
    /\ users' = [users EXCEPT !.fil = Under(@, CustomFilament :> Clone(source, relabel))]
    /\ UNCHANGED <<inst, plate, userTier>>

\* user_filament_revert, user_filament_delete
RemoveFilament(id) ==
    /\ Step /\ id \in DOMAIN users.fil
    /\ users' = [users EXCEPT !.fil = Drop(@, id)]
    /\ UNCHANGED <<inst, plate, userTier>>

\* stampable: the plate's process settings, apart from the tower's place.
Stampable ==
    [k \in {x \in DOMAIN plate.overrides \cap DOMAIN Schema : Schema[x].process} \ StampExcluded |->
        plate.overrides[k]]
Without(f, ks) == [k \in DOMAIN f \ ks |-> f[k]]

\* mutant: the stamp replaces what was saved before
StampedAnew(entry, edits) == [entry EXCEPT !.ov = edits]

\* stamp: the edits over what was saved before.
Stamped(entry, edits) == [entry EXCEPT !.ov = Under(@, edits)]
Tidied(clear) ==
    IF clear THEN [plate EXCEPT !.overrides = Without(@, DOMAIN Stampable)] ELSE plate
StampedUsers ==
    [users EXCEPT !.proc = Under(@, Key :>
        Stamped(Default(@, Key, [base |-> Selected, ov |-> Empty]), Stampable))]
Stamp(clear) ==
    /\ Step /\ plate.printer /\ DOMAIN Stampable # {}
    /\ users' = StampedUsers
    /\ plate' = Tidied(clear)
    /\ UNCHANGED <<inst, userTier>>

\* user_process_duplicate: the plate is switched onto the copy, whose id is new.
DuplicatedUsers ==
    [users EXCEPT !.proc = Under(@, <<inst.slug, CustomProcess>> :>
        Stamped(ResolveProcessRef(users, WithQuality(inst, plate.quality)), Stampable))]
OntoCopy(clear) == [Tidied(clear) EXCEPT !.quality = CustomProcess]
Duplicate(clear) ==
    /\ Step /\ plate.printer
    /\ <<inst.slug, CustomProcess>> \notin DOMAIN users.proc /\ plate.quality # CustomProcess
    /\ users' = DuplicatedUsers
    /\ plate' = OntoCopy(clear)
    /\ UNCHANGED <<inst, userTier>>

\* user_process_revert: with apply, what was saved becomes the plate's.
Revert(apply) ==
    /\ Step /\ plate.printer /\ Key \in DOMAIN users.proc
    /\ users' = [users EXCEPT !.proc = Drop(@, Key)]
    /\ plate' = IF apply THEN [plate EXCEPT !.overrides = Under(@, users.proc[Key].ov)] ELSE plate
    /\ UNCHANGED <<inst, userTier>>

\* user_process_delete: a custom one only, and the plate returns to the default.
Delete(apply) ==
    /\ Step /\ plate.printer /\ Key \in DOMAIN users.proc
    /\ IsCustom(Selected, users.proc[Key])
    /\ users' = [users EXCEPT !.proc = Drop(@, Key)]
    /\ plate' = [plate EXCEPT !.quality = "",
                              !.overrides = IF apply THEN Under(@, users.proc[Key].ov) ELSE @]
    /\ UNCHANGED <<inst, userTier>>

\* project_set_plate_quality_profile
KnownProcess(q) == Contains(Names(Lib, "process", inst.slug), q) \/ <<inst.slug, q>> \in DOMAIN users.proc
SetQuality(q) ==
    /\ Step /\ (q = "" \/ ~plate.printer \/ KnownProcess(q))
    /\ plate' = [plate EXCEPT !.quality = q]
    /\ UNCHANGED <<users, inst, userTier>>

(***************************************************************************)
(* The plate and its printer.                                              *)
(***************************************************************************)
SetOverride(k) ==
    /\ Step
    /\ \E ov \in {Drop(plate.overrides, k), Under(plate.overrides, k :> PlateEdits[k])} :
           plate' = [plate EXCEPT !.overrides = ov]
    /\ UNCHANGED <<users, inst, userTier>>

\* set_material_slot checks the slot; a colour and a filament are the slot's.
MapMaterial(m, ref) ==
    /\ Step /\ Bound(inst, ref)
    /\ plate' = [plate EXCEPT !.slots = Under(@, m :> ref)]
    /\ UNCHANGED <<users, inst, userTier>>
BindSlot(ref, ident, color) ==
    /\ Step /\ Bound(inst, ref)
    /\ inst' = [inst EXCEPT !.extruders[ref[1]].slots[ref[2]] = [ident |-> ident, color |-> color]]
    /\ UNCHANGED <<users, plate, userTier>>

\* set_calibrated_pressure_advance, for the spool in a slot
CalibrationKey(ref) ==
    LET entry == Entry(inst, ref)
    IN <<Identity(inst, entry), entry.slot.color, inst.extruders[ref[1]].nozzle>>
WithCalibration(ref, k) == [inst EXCEPT !.calibrated = Under(@, CalibrationKey(ref) :> k)]
Calibrate(ref, k) ==
    /\ Step /\ Bound(inst, ref)
    /\ inst' = WithCalibration(ref, k)
    /\ UNCHANGED <<users, plate, userTier>>

\* set_config_override
Configure(k) ==
    /\ Step
    /\ \E c \in {Drop(inst.config, k), Under(inst.config, k :> MachineEdits[k])} :
           inst' = [inst EXCEPT !.config = c]
    /\ UNCHANGED <<users, plate, userTier>>

ChangeNozzle(e, sku) ==
    /\ Step /\ inst' = SetNozzle(Lib, inst, e, sku) /\ UNCHANGED <<users, plate, userTier>>
ChangeBed(bed) ==
    /\ Step /\ inst' = SetBed(Lib, inst, bed) /\ UNCHANGED <<users, plate, userTier>>

\* load_from_disk: the files of profiles without overrides are ignored.
Reloaded(f) == [k \in {x \in DOMAIN f : DOMAIN f[x].ov # {}} |-> f[k]]
Restart ==
    /\ Step
    /\ users' = [fil |-> Reloaded(users.fil), proc |-> Reloaded(users.proc)]
    /\ UNCHANGED <<inst, plate, userTier>>

Filaments == ToSet(Names(Lib, "filament", "")) \cup DOMAIN users.fil
Refs == ToSet(AllSlots(inst))

OnFilaments ==
    \/ \E id \in Filaments, k \in DOMAIN FilamentEdits : SetFilament(id, k)
    \/ \E id \in Filaments, relabel \in {Empty, "filament_type" :> <<"PETG">>} : CloneFilament(id, relabel)
    \/ \E id \in DOMAIN users.fil : RemoveFilament(id)
OnProcesses ==
    \/ \E clear \in BOOLEAN : Stamp(clear) \/ Duplicate(clear) \/ Revert(clear) \/ Delete(clear)
    \/ \E q \in {""} \cup ToSet(Names(Lib, "process", inst.slug)) \cup {CustomProcess} : SetQuality(q)
OnPlateAndPrinter ==
    \/ \E k \in DOMAIN PlateEdits : SetOverride(k)
    \/ \E m \in 1..plate.materials, ref \in Refs : MapMaterial(m, ref)
    \/ \E ref \in Refs, ident \in Filaments, c \in Colors : BindSlot(ref, ident, c)
    \/ \E ref \in Refs, k \in Ks : Calibrate(ref, k)
    \/ \E k \in DOMAIN MachineEdits : Configure(k)
    \/ \E e \in DOMAIN inst.extruders, sku \in ToSet(Profile(Lib, inst.ref).nozzles) : ChangeNozzle(e, sku)
    \/ \E bed \in ToSet(Profile(Lib, inst.ref).beds) : ChangeBed(bed)
Done == spent = Budget /\ UNCHANGED vars

Next == OnFilaments \/ OnProcesses \/ OnPlateAndPrinter \/ Restart \/ Done
Spec == Init /\ [][Next]_vars

(***************************************************************************)
(* Properties.                                                             *)
(***************************************************************************)
SliceNow ==
    ResolveFor(Lib, users, plate, inst, Layout(Lib, plate, inst), Slicer(userTier), Slicer(plate.overrides))
AuthoredNow == ResolveFor(Lib, users, plate, inst, Layout(Lib, plate, inst), Empty, Empty)
RulesNow == Compose(Lib, users, WithQuality(inst, plate.quality), Layout(Lib, plate, inst)).rules
EntriesNow == Entries(inst, Layout(Lib, plate, inst))
ContextNow == Context(Lib, inst, ContextFilaments(Lib, inst, Layout(Lib, plate, inst)))
ScalarsOf(ref) == FilamentScalars(Lib, users, inst, Entry(inst, ref))

\* Every user profile stands on a bundled one, is there for a reason (it has
\* edits, or is a copy), and holds only what may be saved onto it; the printer
\* has only hardware it knows.  A plate whose copy of a process is gone can
\* still be saved: what that makes stands on the copy that is not there.
ProfilesTypeOK ==
    /\ \A id \in DOMAIN users.fil : /\ Summarised(Lib, users.fil[id].base)
                                    /\ DOMAIN users.fil[id].ov = {} => IsCustom(id, users.fil[id])
    /\ \A p \in DOMAIN users.proc : /\ \/ Contains(Names(Lib, "process", p[1]), users.proc[p].base)
                                       \/ users.proc[p].base = CustomProcess
                                    /\ DOMAIN users.proc[p].ov = {} => IsCustom(p[2], users.proc[p])
                                    /\ DOMAIN users.proc[p].ov \cap StampExcluded = {}
    /\ Contains(Profile(Lib, inst.ref).beds, inst.bed)
    /\ spent \in 0..Budget

\* A plate whose filaments exist and whose process stands on a bundled one can
\* be composed, however the profiles it names were cloned, edited, stamped and
\* duplicated.
NamedMeansComposed ==
    LET entries == EntriesNow
        idents == {Identity(inst, entries[i]) : i \in DOMAIN entries}
        process == ResolveProcessRef(users, WithQuality(inst, plate.quality)).base
    IN idents \subseteq Filaments /\ Contains(Names(Lib, "process", inst.slug), process)
       => SliceNow.error = ""

\* Each option comes from the rule the precedence says: an override before the
\* rest, the most specific rule before the others, the later of two alike.
Beats(rules, i, j) ==
    \/ rules[i].important /\ ~rules[j].important
    \/ rules[i].important = rules[j].important
       /\ (\/ Specificity(rules[i]) > Specificity(rules[j])
           \/ Specificity(rules[i]) = Specificity(rules[j]) /\ i > j)
ResolvedIsHighest ==
    LET rules == RulesNow
        context == ContextNow
        resolved == AuthoredNow.keys
        matching == {i \in DOMAIN rules : Matches(rules[i], context)}
        setting(k) == {i \in matching : k \in DOMAIN rules[i].set}
    IN \A k \in DOMAIN resolved : \E i \in setting(k) :
           /\ \A j \in setting(k) \ {i} : Beats(rules, i, j)
           /\ resolved[k].value = rules[i].set[k]

\* What an overridden option would go back to is what the profiles say,
\* whichever tiers override it.
FallbackIsAuthored ==
    LET sliced == SliceNow.keys
        authored == Values(AuthoredNow.keys)
    IN \A k \in {x \in DOMAIN sliced : sliced[x].tier # ""} :
           sliced[k].fallback = Default(authored, k, <<>>)

\* A filament's values are the same with the others beside it as alone: what
\* one profile sets never reaches another's slot.
OwnFilamentOnly ==
    LET entries == EntriesNow
        together == FilamentVectors(Lib, users, inst, entries)
        alone == [i \in DOMAIN entries |-> FilamentVectors(Lib, users, inst, <<entries[i]>>)]
    IN SliceNow.error = "" =>
           \A i \in DOMAIN entries, k \in DOMAIN together :
               <<together[k][i]>> = Default(alone[i], k, EngineDefault(k))

\* The engine takes the composed configuration unless somebody has overridden
\* an option that has a value per filament.
EngineAccepts ==
    LET overridden == DOMAIN userTier \cup DOMAIN plate.overrides \cup DOMAIN inst.config
    IN (\A k \in overridden \cap DOMAIN Schema : ~Schema[k].filament) /\ SliceNow.error = ""
       => Adapt(SliceValues(Lib, users, plate, inst, userTier), inst.bed).error = ""

\* What the safety gate lets through is safe for the first filament when it
\* reaches the engine, whichever profile, edit or override it comes from: no
\* hotter than the toolhead stands, with the sequences a print begins, ends and
\* changes filament with, and able to accelerate (cascade_safety.rs:22).
NothingUnsafePasses ==
    LET values == SliceValues(Lib, users, plate, inst, userTier)
        given == Adapt(values, inst.bed)
        has(k) == k \in DOMAIN given.config /\ given.config[k] # <<>>
        hotter(k) == has(k) /\ given.config[k][1] > MaxTemp
    IN SliceNow.error = "" /\ given.error = "" /\ CascadeIssues(Lib, inst, values) = {} =>
       /\ ~hotter("nozzle_temperature") /\ ~hotter("nozzle_temperature_initial_layer")
       /\ has("machine_start_gcode") /\ has("machine_end_gcode")
       /\ Len(AllSlots(inst)) > 1 => has("change_filament_gcode")
       /\ has("machine_max_acceleration_extruding")
       /\ given.config["machine_max_acceleration_extruding"][1] > 0

\* A material on the plate is printed by the toolhead of the slot it is bound
\* to, with the settings of the spool in that slot, painted or not; every object
\* of a plate that passes the gate is; and a printer that routes in its firmware
\* is told of those toolheads and of their nozzles.
SettingsFollowTheSpool ==
    LET authored == AuthoredNow
        values == Values(authored.keys)
        follows(m, f) ==
            /\ Toolhead(Lib, plate, inst, f) = plate.slots[m][1]
            /\ values["filament_map"][f] = plate.slots[m][1]
            /\ \A k \in {"nozzle_temperature", "filament_type", "pressure_advance"} :
                   <<values[k][f]>> = ScalarsOf(plate.slots[m])[k]
        bound == {x \in OnPlate(plate) \cap DOMAIN plate.slots : Bound(inst, plate.slots[x])}
        gated == IF Blockers(plate, inst, TRUE) = {} /\ InputError(Lib, plate, inst, TRUE) = ""
                 THEN Referenced(plate) ELSE {}
        sliced == PlateObjects(Lib, plate, inst)
    IN authored.error = "" =>
       \A m \in bound \cup gated :
           /\ \A o \in DOMAIN sliced : plate.objects[o].material = m => follows(m, sliced[o].material)
           /\ ~SlotFanned(Lib, inst) =>
                  /\ plate.slots[m][1] \in PhysicalUsed(plate, UsedLogical(Lib, plate, inst))
                  /\ NozzleList(plate, inst)[m] = inst.extruders[plate.slots[m][1]].nozzle
           /\ (\E o \in DOMAIN plate.objects : m \in plate.objects[o].painted)
                  => follows(m, PaintRemap(Lib, plate, inst)[m])

\* The process of the printer is one its nozzles offer, after every change of
\* a nozzle.
QualityFitsNozzles ==
    LET rules == Fragment(Lib, "process", inst.slug, inst.quality)
        installed == {inst.extruders[e].nozzle : e \in DOMAIN inst.extruders}
    IN \E a \in Availability(rules) : a[1] = Profile(Lib, inst.ref).model /\ a[2] \in installed

\* The panel's process, bed and printer rows are what the plate slices with,
\* an object's process settings start from those, and its tower stands where it is
\* printed, when the two look at filaments of one kind.
SameContext == Context(Lib, inst, ContextFilaments(Lib, inst, <<>>)) = ContextNow
PanelAgrees ==
    LET rows == PanelRows(Lib, users, plate, inst)
        slice == SliceNow
        values == Values(slice.keys)
        authored == AuthoredNow.keys
        baseline == Baseline(Lib, users, plate, inst, userTier)
        tower == Tower(Lib, users, plate, inst)
    IN slice.error = "" /\ SameContext =>
       /\ \A k \in DOMAIN rows :
              LayerOf(rows[k].rule) \in {"user", "build_plate"} => rows[k].value = authored[k].value
       /\ \A k \in DOMAIN values \cap DOMAIN Schema :
              Schema[k].process => baseline[k] = values[k]
       /\ tower # <<>> /\ "wipe_tower_x" \notin DOMAIN userTier =>
              tower = Default(values, "wipe_tower_x", Schema["wipe_tower_x"].default)

\* Saving a plate's settings onto its profile, or onto a copy of it, would
\* change nothing the plate slices with, whether the edits are left on the plate
\* or cleared (as long as the user's own tier is not in between).
SavingKeepsValues ==
    LET slice(u, p) == ResolveFor(Lib, u, p, inst, Layout(Lib, p, inst), Slicer(userTier), Slicer(p.overrides))
        now == SliceNow
        values == Values(now.keys)
        same(then) == /\ then.error = ""
                      /\ \A k \in DOMAIN values \ DOMAIN userTier : then.keys[k].value = values[k]
    IN DOMAIN Stampable # {} /\ now.error = "" =>
           \A clear \in BOOLEAN :
               /\ same(slice(StampedUsers, Tidied(clear)))
               /\ same(slice(DuplicatedUsers, OntoCopy(clear)))

\* A calibration reaches the spools it was measured for and no others: the same
\* filament in the same colour through the same nozzle.
CalibrationIsOfTheSpool ==
    \A ref, other \in Refs : CalibrationKey(ref) # CalibrationKey(other) =>
        \A k \in Ks : FilamentScalars(Lib, users, WithCalibration(ref, k), Entry(inst, other)) = ScalarsOf(other)

\* A copy the user has made is kept over a restart: create_custom says that "a
\* named clone is a distinct profile even before it diverges" and set_override
\* that "a custom filament is never auto-removed".
CustomSurvivesRestart ==
    [][Restart => /\ \A id \in DOMAIN users.fil : IsCustom(id, users.fil[id]) => id \in DOMAIN users'.fil
                  /\ \A p \in DOMAIN users.proc : IsCustom(p[2], users.proc[p]) => p \in DOMAIN users'.proc]_vars

(* The value of a setting is that of the highest rule that somebody wrote for this  *)
(* printer, nozzle and filament, and the panel shows that rule (resolver.rs:134     *)
(* resolve, project/resolve.rs:77).                                                 *)
SettingIsAuthored == ResolvedIsHighest /\ FallbackIsAuthored /\ QualityFitsNozzles /\ PanelAgrees

(* Every filament reaches the engine with its own values, in vectors of the length  *)
(* the engine accepts (composer.rs:521 assemble_filament_vectors, input.rs:373).    *)
EngineGetsItsOwn ==
  OwnFilamentOnly /\ EngineAccepts /\ SettingsFollowTheSpool /\ CalibrationIsOfTheSpool

(* A profile of the user means what it was made from, and saving a plate's settings *)
(* as one changes nothing that is sliced (process/library.rs:115 stamp).            *)
LibraryKeeps == ProfilesTypeOK /\ NamedMeansComposed /\ SavingKeepsValues
=======================================================================================
