------------------------------- MODULE SpoolSync -------------------------------
(***************************************************************************)
(* The spools of a Bambu printer, as the printer knows them and as the app *)
(* does:                                                                   *)
(*                                                                         *)
(*  - the printer's trays, and the reports that carry only what changed;   *)
(*  - the accumulator those reports are merged into and the typed status   *)
(*    lowered from it (driver/bambu/status.rs);                            *)
(*  - the instance's slots, filled from the status by a sync                  *)
(*    (printer/sync.rs) and pushed back to the trays when the user picks a *)
(*    filament (driver_ams_set_filament);                                  *)
(*  - the routing of a plate's materials to trays at send (driver/ams.rs), *)
(*    and the calibrated K sent along (collect_cali_trays).                *)
(*                                                                         *)
(* A slot is numbered unit * PerUnit + tray, the external spool comes last. *)
(* Reports are handled in order (the channel is a FIFO), so a report is     *)
(* merged as it is pushed.  Display names are the slugs.                   *)
(***************************************************************************)
EXTENDS Integers, Sequences, FiniteSets, FiniteSetsExt

CONSTANTS PerUnit,    \* trays of one AMS unit (4 in the code)
          MaxUnits,   \* units that can be attached
          Fragments,  \* the bundled filaments: [sku, type] by slug
          Customs,    \* the user's own filaments: the base fragment by slug
          Generic,    \* the fragment "generic-<type>", or None, by type
          Tagged,     \* spools with an RFID tag: fragments with a unique SKU
          Default,    \* the instance's default filament
          Colors,
          MaxTools,   \* extruders of a printer
          None, Omit  \* no value; a field that a report leaves out

ASSUME SpoolAssumption ==
    /\ PerUnit \in Nat \ {0} /\ MaxUnits \in Nat \ {0} /\ MaxTools \in Nat
    /\ Tagged \subseteq DOMAIN Fragments /\ Default \in DOMAIN Fragments
    /\ \A c \in DOMAIN Customs : Customs[c] \in DOMAIN Fragments
    /\ DOMAIN Customs \cap DOMAIN Fragments = {}
    /\ IsFiniteSet(DOMAIN Fragments)
    /\ \A f \in DOMAIN Fragments : Fragments[f].type # ""
    /\ \A y \in DOMAIN Generic :
         Generic[y] = None \/ (Generic[y] \in DOMAIN Fragments /\ Fragments[Generic[y]].type = y)

VARIABLES units,   \* units attached to the printer
          tray,    \* what the printer knows of each tray, by slot number
          ext,     \* and of the external spool
          engaged, \* the external spool is the active filament path
          unsent,  \* <<tray, field>>s changed since the last report
          acc,     \* the accumulated report: [units, tray, ext, engaged]
          amsStatus,  \* the status last flushed: [units, spool, external]
          slots,   \* the instance's slot bindings, a sequence
          pick,    \* the user's pick under way: [slot, ident, color, step]
          held     \* the pick each tray holds, as pushed by the app

spoolVars == <<units, tray, ext, engaged, unsent, acc, amsStatus, slots, pick, held>>
printerVars == <<units, tray, ext, engaged>>

Trays == 0 .. PerUnit * MaxUnits - 1
External == -1
TraysOf(u) == 0 .. PerUnit * u - 1
TrayFields == {"sku", "type", "sub", "color", "tag"}
Types == DOMAIN Generic
\* "" is a field the printer reports as empty, Omit one it never reported.
EmptyTray == [f \in TrayFields |-> ""]
\* What a field of a tray may say.
Words == {"", "tag", "red", None} \cup Colors \cup DOMAIN Fragments
         \cup {Fragments[f].sku : f \in DOMAIN Fragments}
         \cup {Fragments[f].type : f \in DOMAIN Fragments}
ASSUME WordsAssumption == Omit \notin Words /\ None \notin [TrayFields -> Words]
NoTray == [f \in TrayFields |-> Omit]
SettingOf(f, color) == [sku |-> Fragments[f].sku, type |-> Fragments[f].type,
                        sub |-> f, color |-> color, tag |-> ""]
NoPick == [slot |-> None, ident |-> None, color |-> None, step |-> "idle"]

Slot(feed, ident) == [feed |-> feed, ident |-> ident, color |-> None, tag |-> ""]

\* rebuild_ams_slots: AMS slots of both counts keep their binding, the last
\* slot stays the last, new ones are bound to the default filament.
Rebuild(old, u) ==
    LET n == PerUnit * u + 1
    IN IF Len(old) = n THEN old
       ELSE [k \in 1..n |-> IF k = n THEN old[Len(old)]
                            ELSE IF k < Len(old) THEN old[k] ELSE Slot("ams", Default)]

SpoolInit ==
    /\ units = 1 /\ tray = [t \in Trays |-> EmptyTray] /\ ext = EmptyTray /\ engaged = FALSE
    /\ unsent = {}
    /\ acc = [units |-> 0, tray |-> [t \in Trays |-> NoTray], ext |-> NoTray, engaged |-> FALSE]
    /\ amsStatus = [units |-> 0, spool |-> [t \in Trays |-> None], external |-> None]
    /\ slots = Rebuild(<<Slot("direct", Default)>>, 1)
    /\ pick = NoPick /\ held = [t \in Trays |-> None]

\* RawAmsTray::merge_in: presence is the only rule.
TrayMerge(old, patch) == [f \in TrayFields |-> IF patch[f] = Omit THEN old[f] ELSE patch[f]]

Given(v) == v \notin {Omit, ""}
\* tray_identity: a tray with only a tag, or with nothing, is empty.
Identity(t) ==
    IF ~\E f \in TrayFields \ {"tag"} : Given(t[f]) THEN None
    ELSE [f \in TrayFields |-> IF Given(t[f]) THEN t[f] ELSE ""]

\* RawAmsState::merge_in: units and trays by position, appended, never dropped.
AmsMerge(a, u, patch, now) ==
    [a EXCEPT !.units = IF u > @ THEN u ELSE @, !.engaged = now,
              !.tray = [t \in Trays |-> IF t \in TraysOf(u) THEN TrayMerge(@[t], patch[t])
                                                             ELSE @[t]]]

\* merge_into: the external spool is shown while it is engaged.
Lower(a) ==
    [units |-> a.units, external |-> IF a.engaged THEN Identity(a.ext) ELSE None,
     spool |-> [t \in Trays |-> IF t \in TraysOf(a.units) THEN Identity(a.tray[t]) ELSE None]]

\* A full report, asked for on connecting and whenever the printer likes; and
\* an incremental one, which leaves out the fields that have not changed.
Push(patch, vt) ==
    /\ acc' = [AmsMerge(acc, units, patch, engaged) EXCEPT !.ext = TrayMerge(@, vt)]
    /\ unsent' = {} /\ UNCHANGED <<printerVars, amsStatus, slots, pick, held>>
PushFull == acc # [acc EXCEPT !.units = units, !.tray = tray, !.ext = ext] /\ Push(tray, ext)
PushDelta ==
    /\ unsent # {} /\ acc.units > 0
    /\ Push([t \in Trays |-> [f \in TrayFields |-> IF <<t, f>> \in unsent THEN tray[t][f] ELSE Omit]],
            [f \in TrayFields |-> IF <<External, f>> \in unsent THEN ext[f] ELSE Omit])

\* The worker's tick publishes what has been merged.
Flush ==
    /\ amsStatus # Lower(acc) /\ amsStatus' = Lower(acc)
    /\ UNCHANGED <<printerVars, unsent, acc, slots, pick, held>>

(***************************************************************************)
(* The printer and its user.                                               *)
(***************************************************************************)
SetTray(t, r) ==
    /\ tray' = [tray EXCEPT ![t] = r]
    /\ unsent' = unsent \cup {<<t, f>> : f \in {g \in TrayFields : tray[t][g] # r[g]}}

\* A tagged spool is read, a spool is taken out, or one is set up on the
\* printer's own screen, which may leave the label of the one before.
LoadTagged(t, f) ==
    /\ t \in TraysOf(units) /\ tray[t].tag = ""
    /\ SetTray(t, [SettingOf(f, "red") EXCEPT !.tag = "tag"])
    /\ held' = [held EXCEPT ![t] = None]
    /\ UNCHANGED <<units, ext, engaged, acc, amsStatus, slots, pick>>
Unload(t) ==
    /\ t \in TraysOf(units) /\ tray[t] # EmptyTray /\ SetTray(t, EmptyTray)
    /\ held' = [held EXCEPT ![t] = None]
    /\ UNCHANGED <<units, ext, engaged, acc, amsStatus, slots, pick>>
SetOnPrinter(t, f) ==
    /\ t \in TraysOf(units) /\ tray[t].tag = "" /\ f \notin Tagged
    /\ \E sub \in {"", tray[t].sub} : SetTray(t, [SettingOf(f, "red") EXCEPT !.sub = sub])
    /\ held' = [held EXCEPT ![t] = None]
    /\ UNCHANGED <<units, ext, engaged, acc, amsStatus, slots, pick>>

\* The external spool: set up on the screen, engaged and released.
UseExternal(f) ==
    /\ f \notin Tagged
    /\ LET r == [SettingOf(f, "red") EXCEPT !.sub = ""]
       IN /\ ext' = r /\ unsent' = unsent \cup {<<External, g>> : g \in {g \in TrayFields : ext[g] # r[g]}}
    /\ engaged' = TRUE /\ UNCHANGED <<units, tray, acc, amsStatus, slots, pick, held>>
ReleaseExternal ==
    /\ engaged /\ engaged' = FALSE
    /\ unsent' = unsent \cup {<<External, "sku">>}
    /\ UNCHANGED <<units, tray, ext, acc, amsStatus, slots, pick, held>>

AttachUnit ==
    /\ units < MaxUnits /\ units' = units + 1
    /\ unsent' = unsent \cup {<<t, f>> : t \in TraysOf(units + 1) \ TraysOf(units), f \in TrayFields}
    /\ UNCHANGED <<tray, ext, engaged, acc, amsStatus, slots, pick, held>>

(***************************************************************************)
(* The sync: from the status to the slots.                                 *)
(***************************************************************************)
\* mutant: a custom filament has nothing to be matched by
MatchKeysOfBundled(f) ==
    IF f \in DOMAIN Fragments THEN <<Fragments[f].sku, Fragments[f].type>> ELSE None

\* bound_match_keys: a custom filament is matched through its base.
MatchKeys(f) ==
    IF f \in DOMAIN Fragments    THEN <<Fragments[f].sku, Fragments[f].type>>
    ELSE IF f \in DOMAIN Customs THEN <<Fragments[Customs[f]].sku, Fragments[Customs[f]].type>>
    ELSE None

Base(f) == IF f \in DOMAIN Customs THEN Customs[f] ELSE f
OfSku(sku) == {f \in DOMAIN Fragments : Fragments[f].sku = sku}

Labelled(spool) == {f \in DOMAIN Fragments : f = spool.sub /\ Fragments[f].type = spool.type}
\* resolve_bambu_identity: keep a binding that the report is consistent with,
\* then a SKU only one fragment has, then the label, then the generic of the type.
Resolve(bound, spool) ==
    IF bound # None /\ MatchKeys(bound) = <<spool.sku, spool.type>> THEN bound
    ELSE IF Cardinality(OfSku(spool.sku)) = 1 THEN CHOOSE f \in OfSku(spool.sku) : TRUE
    ELSE IF Labelled(spool) # {}              THEN CHOOSE f \in Labelled(spool) : TRUE
    ELSE IF spool.type \in Types              THEN Generic[spool.type]
    ELSE None

\* resolve_updates and apply_from_driver: an empty tray clears its slot, a slot
\* the report says nothing of is left alone.
Filled(slot, spool) ==
    IF spool = None THEN [slot EXCEPT !.ident = None, !.color = None, !.tag = ""]
    ELSE [slot EXCEPT !.ident = Resolve(slot.ident, spool), !.color = spool.color,
                      !.tag = spool.tag]
Synced(old, st) ==
    LET sized == IF st.units > 0 THEN Rebuild(old, st.units) ELSE old
        direct == CHOOSE k \in 1..Len(sized) : sized[k].feed = "direct"
    IN [k \in 1..Len(sized) |->
          IF sized[k].feed = "ams"
            THEN IF k - 1 \in TraysOf(st.units) THEN Filled(sized[k], st.spool[k - 1]) ELSE sized[k]
            ELSE IF k = direct /\ st.external # None
                   THEN [Filled(sized[k], st.external) EXCEPT !.tag = ""] ELSE sized[k]]

Sync ==
    /\ slots' = Synced(slots, amsStatus) /\ slots' # slots
    /\ UNCHANGED <<printerVars, unsent, acc, amsStatus, pick, held>>
\* The count in the printer's settings, changed by hand.
ResizeByHand(u) ==
    /\ u <= MaxUnits /\ slots' = Rebuild(slots, u) /\ slots' # slots
    /\ UNCHANGED <<printerVars, unsent, acc, amsStatus, pick, held>>

(***************************************************************************)
(* A pick: the identity, then the color, then the push to the printer.     *)
(***************************************************************************)
StartPick(k, ident, color) ==
    /\ pick = NoPick /\ k \in 1..Len(slots) /\ slots[k].tag = ""
    /\ slots' = [slots EXCEPT ![k].ident = ident]
    /\ pick' = [slot |-> k, ident |-> ident, color |-> color, step |-> "color"]
    /\ UNCHANGED <<printerVars, unsent, acc, amsStatus, held>>
PickColor ==
    /\ pick.step = "color"
    /\ slots' = IF pick.slot <= Len(slots) THEN [slots EXCEPT ![pick.slot].color = pick.color]
                                           ELSE slots
    /\ pick' = [pick EXCEPT !.step = "push"]
    /\ UNCHANGED <<printerVars, unsent, acc, amsStatus, held>>

\* driver_ams_set_filament: it reads the slot again; a slot that is not an AMS
\* feed, is tagged, or holds a custom filament is not pushed, nor is one while
\* the printer is busy.
Pushable(k) ==
    /\ k <= Len(slots) /\ slots[k].feed = "ams" /\ slots[k].tag = ""
    /\ slots[k].ident \in DOMAIN Fragments /\ k - 1 \in TraysOf(units)
PushPick ==
    /\ pick.step = "push" /\ pick' = NoPick
    /\ LET k == pick.slot
           t == k - 1
       IN \/ /\ Pushable(k)
             /\ SetTray(t, [SettingOf(slots[k].ident, slots[k].color) EXCEPT !.tag = tray[t].tag])
             /\ held' = [held EXCEPT ![t] = IF pick.ident = slots[k].ident THEN pick.ident ELSE None]
          \/ /\ UNCHANGED <<tray, unsent>>
             /\ held' = IF t \notin Trays THEN held
                        ELSE [held EXCEPT ![t] =
                               IF /\ k <= Len(slots) /\ slots[k].ident = pick.ident
                                  /\ Fragments[Base(pick.ident)].sku = tray[t].sku
                                  /\ Fragments[Base(pick.ident)].type = tray[t].type
                                 THEN pick.ident ELSE None]
    /\ UNCHANGED <<units, ext, engaged, acc, amsStatus, slots>>

(***************************************************************************)
(* The routing at send.  A plate maps materials to slots.                  *)
(***************************************************************************)
TrayAt(k) == <<(k - 1) \div PerUnit, (k - 1) % PerUnit>>
IsAms(sl, k) == k \in 1..Len(sl) /\ sl[k].feed = "ams"
AmsBefore(sl, k) == Cardinality({j \in 1..k - 1 : sl[j].feed = "ams"})
\* ams_bindings_for_plate: the M620 operand, 1-based among the AMS slots.
Bindings(sl, bound) ==
    {[material |-> m, ams_slot |-> AmsBefore(sl, bound[m]) + 1] :
        m \in {m \in DOMAIN bound : IsAms(sl, bound[m])}}

\* ams_mapping_for_plate: 0-based among the AMS slots, -1 for the rest ...
Mapping(sl, bound) ==
    [m \in DOMAIN bound |-> IF IsAms(sl, bound[m]) THEN AmsBefore(sl, bound[m]) ELSE -1]
\* ... and as <<unit, slot>>, which tells the external spool from no slot.
Mapping2(sl, bound) ==
    [m \in DOMAIN bound |-> IF IsAms(sl, bound[m])           THEN <<0, AmsBefore(sl, bound[m])>>
                            ELSE IF bound[m] \in 1..Len(sl) THEN <<255, 0>>
                            ELSE <<255, 255>>]

\* collect_cali_trays: the K of each tray used whose filament has one.
CaliTrays(sl, bound, k) ==
    {[address |-> TrayAt(s), k |-> k[sl[s].ident]] :
        s \in {bound[m] : m \in {m \in DOMAIN bound :
                 IsAms(sl, bound[m]) /\ sl[bound[m]].ident \in DOMAIN k}}}

(***************************************************************************)
(* The flow calibration of chosen slots, in one job on the printer.        *)
(***************************************************************************)
\* bambu_loaded_filament_ids: the SKU of each tray that reports one.
Loaded(st) == [t \in {t \in Trays : st.spool[t] # None /\ st.spool[t].sku # ""}
                 |-> st.spool[t].sku]

\* What the printer is told to calibrate: the loaded spool, else the bundled
\* filament's own SKU; a custom filament has none.
SkuFor(sl, st, k) ==
    IF k - 1 \in DOMAIN Loaded(st) THEN Loaded(st)[k - 1]
    ELSE IF sl[k].ident \in DOMAIN Fragments THEN Fragments[sl[k].ident].sku ELSE None
\* driver_calibrate_pa_bambu: one slot without a filament or a SKU refuses all.
CaliTargets(sl, st, chosen) ==
    IF \E k \in chosen : sl[k].ident = None \/ SkuFor(sl, st, k) = None THEN {}
    ELSE {[slot |-> k, address |-> TrayAt(k), sku |-> SkuFor(sl, st, k)] : k \in chosen}
\* A result goes to the slot at its address; only a sure one is stored.
CaliStored(sl, targets, results) ==
    UNION {{[ident |-> sl[g.slot].ident, k |-> r.k] :
              r \in {r \in results : r.address = g.address /\ r.sure}} : g \in targets}

SpoolUserActs ==
    \/ \E t \in Trays : Unload(t)
    \/ \E t \in Trays, f \in Tagged : LoadTagged(t, f)
    \/ \E t \in Trays, f \in DOMAIN Fragments : SetOnPrinter(t, f)
    \/ \E f \in DOMAIN Fragments : UseExternal(f)
    \/ ReleaseExternal \/ AttachUnit \/ \E u \in 1..MaxUnits : ResizeByHand(u)
    \/ \E k \in 1..PerUnit * MaxUnits + 1, c \in Colors :
         \E f \in DOMAIN Fragments \cup DOMAIN Customs : StartPick(k, f, c)
SpoolSteps == PushFull \/ PushDelta \/ Flush \/ Sync \/ PickColor \/ PushPick

SpoolSpec == SpoolInit /\ [][SpoolUserActs \/ SpoolSteps]_spoolVars

(***************************************************************************)
(* The names the app gives to a printer's slots (printer/instance.rs), by   *)
(* which the user picks where a material comes from.  The slots are those   *)
(* above, on the first of `tools` extruders; the others have a direct feed  *)
(* each.  A name is the sequence of its parts.                             *)
(***************************************************************************)
Direct == <<[feed |-> "direct"]>>
ExtrudersOf(tools) == [e \in 1..tools |-> IF e = 1 THEN slots ELSE Direct]

AmsCount(sl) == Cardinality({k \in DOMAIN sl : sl[k].feed = "ams"})

\* PrinterInstance::ams_units: whole units on the first extruder
AmsUnitsOf(extruders) == IF extruders = <<>> THEN 0 ELSE AmsCount(extruders[1]) \div PerUnit

\* extruder_label
ExtruderLabel(e, tools) == IF tools <= 1 THEN <<>> ELSE <<"T", e>>

IsAmsFeed(k, sl) == sl[k].feed = "ams"
\* ams_slot_position: the AMS slots in order, PerUnit of them to a unit
AmsPosition(k, sl) ==
    [unit |-> AmsBefore(sl, k) \div PerUnit, index |-> (AmsBefore(sl, k) % PerUnit) + 1]
Place(k, sl) ==
    LET at == AmsPosition(k, sl)
    IN IF AmsCount(sl) > PerUnit THEN <<at.unit, at.index>> ELSE <<at.index>>

\* slot_label and slot_short_label; the only slot of one of several extruders
\* has no name of its own.
SlotLabel(k, sl, tools) ==
    IF Len(sl) = 1 /\ tools > 1 THEN <<>>
    ELSE IF IsAmsFeed(k, sl)    THEN <<"AMS", Place(k, sl)>>
    ELSE IF Len(sl) = 1         THEN <<"Direct">>
    ELSE <<"Ext">>
ShortLabel(k, sl, tools) ==
    IF Len(sl) = 1 /\ tools > 1 THEN <<>>
    ELSE IF IsAmsFeed(k, sl)    THEN <<"", Place(k, sl)>>
    ELSE <<"Ext">>

\* flatten_slots
FlattenSlots(extruders) ==
    LET tools == Len(extruders)
        view(e, k) == [ref |-> <<e, k>>, ams |-> IsAmsFeed(k, extruders[e]),
                       label |-> <<ExtruderLabel(e, tools), SlotLabel(k, extruders[e], tools)>>,
                       short |-> <<ExtruderLabel(e, tools), ShortLabel(k, extruders[e], tools)>>]
    IN UNION {{view(e, k) : k \in 1..Len(extruders[e])} : e \in 1..tools}

(***************************************************************************)
(* Properties.                                                             *)
(***************************************************************************)
\* The printer has reported all it knows, and the report has been published.
UpToDate == unsent = {} /\ amsStatus.units >= units /\ amsStatus = Lower(acc)

\* The variables have their types.
SpoolTypeOK ==
    /\ units \in 1..MaxUnits /\ acc.units \in 0..MaxUnits /\ engaged \in BOOLEAN
    /\ \A t \in Trays : DOMAIN acc.tray[t] = TrayFields /\ DOMAIN tray[t] = TrayFields
    /\ Len(slots) \in {PerUnit * u + 1 : u \in 1..MaxUnits}
    /\ \A k \in 1..Len(slots) : slots[k].feed = (IF k = Len(slots) THEN "direct" ELSE "ams")
    /\ pick.step \in {"idle", "color", "push"}

\* Reports that carry only what changed add up to what the printer knows, for
\* fields that were cleared as for fields that were set, whichever mixture of
\* full and incremental reports brought them.
StatusTracksPrinter ==
    UpToDate => \A t \in TraysOf(units) : amsStatus.spool[t] = Identity(tray[t])

\* A sync from an up-to-date status leaves no slot bound to another material
\* than the spool in its tray, nor one bound that is empty, whatever was bound
\* before and whatever label an earlier spool has left.
SyncAgrees ==
    UpToDate => LET after == Synced(slots, amsStatus) IN
        \A t \in TraysOf(units) :
            LET bound == after[t + 1].ident IN
            IF Identity(tray[t]) = None THEN bound = None
            ELSE bound = None \/ MatchKeys(bound)[2] = tray[t].type

\* A pick that the printer's tray is consistent with, a custom filament's base
\* included, is not reverted by a sync while its slot keeps its binding.
PickSurvivesSync ==
    UpToDate => LET after == Synced(slots, amsStatus) IN
        \A t \in TraysOf(units) :
            (held[t] # None /\ t + 1 < Len(slots) /\ slots[t + 1].ident = held[t])
                => after[t + 1].ident = held[t]

Plates == [1..2 -> 0..Len(slots)]
\* On a printer of one unit the three ways a plate's materials are routed name the
\* tray whose report fills the slot and whose K is pushed.  With several units no tray
\* is claimed: the code numbers the slots on through the units, always under ams_id 0,
\* where its own text (ams.rs:108-116) has the slot within the unit and an ams_id of
\* 0..N-1, and says further on (:139) that it assumes one unit.  What is left is that
\* the three agree and that two slots never share an address.
RoutesAgree ==
    \A bound \in Plates :
        LET one == Mapping(slots, bound)
            two == Mapping2(slots, bound)
            ams == Bindings(slots, bound)
        IN \A m \in 1..2 :
             IF IsAms(slots, bound[m])
               THEN /\ [material |-> m, ams_slot |-> one[m] + 1] \in ams
                    /\ AmsCount(slots) <= PerUnit =>
                         one[m] = bound[m] - 1 /\ two[m] = TrayAt(bound[m])
                    /\ \A o \in 1..2 : bound[o] # bound[m] => one[o] # one[m] /\ two[o] # two[m]
               ELSE /\ one[m] = -1 /\ two[m][1] = 255
                    /\ \A b \in ams : b.material # m

\* No tray is sent two pressure advances, also when materials share its slot.
OneKPerTray ==
    \A bound \in Plates :
        LET entries == CaliTrays(slots, bound, [f \in DOMAIN Fragments |-> f])
        IN \A a, b \in entries : a.address = b.address => a = b

\* A calibration names to the printer the spool that is in the tray it is about
\* to measure, whatever filament the slot is bound to, and a printer that
\* answers by address has its result stored for the filament of that slot.
CaliIsOfTheSpool ==
    UpToDate => \A chosen \in SUBSET {k \in 1..Len(slots) - 1 : k - 1 \in TraysOf(units)} :
        LET targets == CaliTargets(slots, amsStatus, chosen)
            results == {[address |-> g.address, k |-> g.slot, sure |-> TRUE] : g \in targets}
        IN /\ \A g \in targets : LET loaded == tray[g.address[1] * PerUnit + g.address[2]].sku
                                  IN loaded # "" => g.sku = loaded
           /\ \A w \in CaliStored(slots, targets, results) : w.ident = slots[w.k].ident

(* From the spool in the tray to the filament of the plate and back: the status     *)
(* shows what is loaded, a sync binds it and keeps the user's picks, the send of a  *)
(* printer of one unit maps it, a calibration is stored for it (status.rs:365,      *)
(* sync.rs:58, ams.rs:142, commands.rs:1297 collect_cali_trays).                    *)
SpoolsAreTrue ==
  /\ SpoolTypeOK /\ StatusTracksPrinter /\ SyncAgrees /\ PickSurvivesSync
  /\ RoutesAgree /\ OneKPerTray /\ CaliIsOfTheSpool

(* No two slots of a printer have the same name, long or short; what the name of an   *)
(* AMS slot says, the unit and the place in it, is the tray whose report fills the    *)
(* slot and, on a printer of one unit, the number a print is sent with; and the units *)
(* shown are those the slots were made for, so that setting that number again changes *)
(* nothing (printer/instance.rs:369, driver/ams.rs:142).                              *)
NamesAreTrue ==
    \A tools \in 1..MaxTools :
        LET extruders == ExtrudersOf(tools)
            views == FlattenSlots(extruders)
        IN /\ Cardinality({v.label : v \in views}) = Cardinality(views)
           /\ Cardinality({v.short : v \in views}) = Cardinality(views)
           /\ \A v \in {v \in views : v.ams} :
                LET at == AmsPosition(v.ref[2], extruders[v.ref[1]])
                    sent == Mapping(slots, [m \in {1} |-> v.ref[2]])[1]
                IN /\ TrayAt(v.ref[2]) = <<at.unit, at.index - 1>>
                   /\ AmsCount(slots) <= PerUnit => at.unit = 0 /\ sent = at.index - 1
           /\ Rebuild(slots, AmsUnitsOf(extruders)) = slots

(* What the app knows and says of a printer's spools is what the printer has         *)
(* (driver/bambu/status.rs, printer/sync.rs, printer/instance.rs).                   *)
SlotsAreTrue == SpoolsAreTrue /\ NamesAreTrue
=============================================================================
