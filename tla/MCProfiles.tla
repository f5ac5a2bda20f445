---------------------------------- MODULE MCProfiles ----------------------------------
(***************************************************************************)
(* Three printers, each with one vendor directory: an AMS printer with two *)
(* slots, a tool changer that routes in its firmware, and one that does    *)
(* not; two nozzles, two beds, two processes each; two filaments.          *)
(***************************************************************************)
EXTENDS UserProfiles, Integers, Sequences, TLC

MCKeys == <<"filament", "nozzle", "plate", "printer", "rule">>
MCConstituents == [n \in {"0.4", "0.6"} |-> {n}]
MCPluginKeys == {"plugin.k"}
MCBedTempKeys == {"hot_plate_temp"}

Option(default, fil, proc, obj) == [default |-> default, filament |-> fil, process |-> proc, object |-> obj]
MCSchema ==
    [k \in {"nozzle_temperature", "pressure_advance", "enable_pressure_advance", "fan_speed",
            "filament_diameter", "filament_multitool_ramming"} |-> Option(<<1>>, TRUE, FALSE, FALSE)]
    @@ [k \in {"filament_type", "filament_settings_id", "filament_colour"} |-> Option(<<"x">>, TRUE, FALSE, FALSE)]
    @@ [k \in {"layer_height", "outer_wall_speed", "line_width"} |-> Option(<<1>>, FALSE, TRUE, TRUE)]
    @@ [k \in {"enable_prime_tower", "wipe_tower_x"} |-> Option(<<15>>, FALSE, TRUE, FALSE)]
    @@ [k \in {"hot_plate_temp", "retraction_length", "filament_map", "filament_self_index",
               "flush_volumes_matrix", "flush_multiplier", "machine_max_acceleration_extruding"} |->
            Option(<<1>>, FALSE, FALSE, FALSE)]
    @@ [k \in {"printer_model", "default_bed_type", "machine_start_gcode", "machine_end_gcode",
               "change_filament_gcode", "curr_bed_type", "nozzle_diameter"} |-> Option(<<"x">>, FALSE, FALSE, FALSE)]

Leaves(set) == [kind |-> "leaves", set |-> set]
Section(path, set) == [kind |-> "section", path |-> path, set |-> set]
When(when, set) == [kind |-> "rule", when |-> when, set |-> set, extra |-> {}]
File(kind, slug, name, doc) == [kind |-> kind, slug |-> slug, name |-> name, doc |-> doc, src |-> kind]

Machine1(slug, model) == File("machine", slug, "machine",
    <<Leaves("printer_model" :> <<model>> @@ "default_bed_type" :> <<"PEI">>
             @@ "machine_start_gcode" :> <<"G28">> @@ "machine_end_gcode" :> <<"M84">>
             @@ "change_filament_gcode" :> <<"T">> @@ "machine_max_acceleration_extruding" :> <<20000>>)>>)
Nozzle(slug, sku, process) == File("nozzle", slug, sku,
    <<Leaves("nozzle_diameter" :> <<sku>> @@ "default_process_profile" :> <<process>>
             @@ "default_filament_profile" :> <<"Generic PLA">>
             @@ (IF sku = "0.4" THEN "retraction_length" :> <<8>> ELSE <<>>))>>)
Bed(slug, bed) == File("bed", slug, bed, <<Leaves("curr_bed_type" :> <<bed>>)>>)
Process(slug, name, model, sku, height) == File("process", slug, name,
    <<Leaves("layer_height" :> <<height>> @@ "outer_wall_speed" :> <<100>> @@ "enable_prime_tower" :> <<1>>),
      Section(<<"filament", "type", "PETG">>, "outer_wall_speed" :> <<60>>),
      When(PrinterModel :> {model} @@ NozzleDiameter :> {sku}, "line_width" :> <<45>>)>>)
Printer(slug, model, tools, ams, driver) ==
    <<Machine1(slug, model), Nozzle(slug, "0.4", "fine"), Nozzle(slug, "0.6", "coarse"),
      Bed(slug, "PEI"), Bed(slug, "Cool"),
      Process(slug, "coarse", model, "0.6", 30), Process(slug, "fine", model, "0.4", 20),
      [kind |-> "model", slug |-> slug, toolheads |-> tools, amsMax |-> ams, driver |-> driver]>>
MCFiles ==
    <<File("filament", "", "generic-pla",
           <<Leaves("filament_type" :> <<"PLA">> @@ "filament_settings_id" :> <<"Generic PLA">>
                    @@ "filament_diameter" :> <<175>> @@ "nozzle_temperature" :> <<220>>
                    @@ "pressure_advance" :> <<20>>),
             Section(<<"plate", "type", "Cool">>, "hot_plate_temp" :> <<35>>),
             When(PrinterModel :> {"U"}, "nozzle_temperature" :> <<230>>)>>),
      File("filament", "", "petg",
           <<Leaves("filament_type" :> <<"PETG">> @@ "filament_settings_id" :> <<"PETG HF">>
                    @@ "filament_diameter" :> <<175>> @@ "nozzle_temperature" :> <<250>>
                    @@ "fan_speed" :> <<30>> @@ "pressure_advance" :> <<25>>)>>)>>
    \o Printer("ams", "A", <<"0.4">>, 1, "Bambu")
    \o Printer("u1", "U", <<"0.4", "0.4">>, 0, "U1")
    \o <<[kind |-> "pa", slug |-> "u1", table |-> (<<"PLA", "0.4">> :> <<35>>)],
         [kind |-> "ramming", slug |-> "u1", table |-> (<<"PLA", "0.4">> :> <<10>>)]>>
    \o Printer("tc", "T", <<"0.4", "0.4">>, 0, "Moonraker")

NoUsers == [fil |-> Empty, proc |-> Empty]
\* A clone made earlier, and a profile that was stamped earlier.
SomeUsers(slug) ==
    [fil |-> ("own-0" :> [base |-> "petg", ov |-> ("filament_type" :> <<"PLA">>)]),
     proc |-> (<<slug, "fine">> :> [base |-> "fine", ov |-> ("layer_height" :> <<16>> @@ "outer_wall_speed" :> <<70>>)])]
Objects == <<[material |-> 1, painted |-> {2}, overrides |-> "layer_height" :> <<12>>],
             [material |-> 2, painted |-> {}, overrides |-> Empty]>>
Plate(slots) == [printer |-> TRUE, objects |-> Objects, materials |-> 2, slots |-> slots, quality |-> "",
                 overrides |-> Empty]
Straight(printer) == [m \in 1..2 |-> IF Len(printer.extruders) = 1 THEN <<1, m>> ELSE <<m, 1>>]
Crossed(printer) == [m \in 1..2 |-> Straight(printer)[3 - m]]
\* The plate's copy of a process went with a restart, its edits did not.
Lost(kept) == [kept EXCEPT !.quality = CustomProcess, !.overrides = "outer_wall_speed" :> <<90>>]
\* With and without profiles of the user's own; a binding to a slot that is gone.
Start(slug, slots, own, user) ==
    [inst |-> CreateInstance(Lib, slug, IF slug = "ams" THEN 1 ELSE 0), plate |-> Plate(slots),
     users |-> own, user |-> user]
MCStarts ==
    {Start("ams", Straight(CreateInstance(Lib, "ams", 1)), own, Empty) : own \in {NoUsers, SomeUsers("ams")}}
    \cup {Start("ams", 1 :> <<1, 2>> @@ 2 :> <<1, 5>>, own, "outer_wall_speed" :> <<80>>) :
             own \in {NoUsers, SomeUsers("ams")}}
    \cup {Start(slug, Crossed(CreateInstance(Lib, slug, 0)), SomeUsers(slug), Empty) : slug \in {"u1", "tc"}}
    \cup {[Start("ams", Straight(CreateInstance(Lib, "ams", 1)), NoUsers, Empty) EXCEPT !.plate = Lost(@)]}

MCFilamentEdits == "nozzle_temperature" :> <<240>>
MCPlateEdits == "outer_wall_speed" :> <<90>> @@ "wipe_tower_x" :> <<40>> @@ "nozzle_temperature" :> <<210>>
MCMachineEdits == "retraction_length" :> <<5>> @@ "plugin.k" :> <<1>>
MCKs == {<<18>>}
=======================================================================================
