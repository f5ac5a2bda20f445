--------------------------------- MODULE SlicedBundle ---------------------------------
(***************************************************************************)
(* What is read back from a sliced file's comments, by three readers: the   *)
(* slice summary (slice/summary.rs over gcode/header.rs), the bundle's      *)
(* slice_info (threemf/slice_info.rs) and the start of a U1 print           *)
(* (driver/send.rs); and the .gcode.3mf bundle the file is wrapped in and   *)
(* read from (threemf/sliced.rs, preview/commands.rs).  The engine writes   *)
(* its comments in any order, among commands.                              *)
(***************************************************************************)
EXTENDS Integers, Sequences, FiniteSetsExt, SequencesExt

CONSTANTS
    Jobs,       \* what the engine computed for a plate
    Dialects,   \* how it says so: "bambu", "orca", "cura"
    Slots       \* of each material: the toolhead it is bound to, {} when unbound

VARIABLES
    job, dialect, heads,
    unwritten,  \* the lines still to come
    sliced,       \* the lines of the file
    bundle,     \* entry name -> content, of the .gcode.3mf
    thumbnail   \* the page's picture, {} for none

bundleVars == <<job, dialect, heads, unwritten, sliced, bundle, thumbnail>>

Nothing == {}
The(option, default) == IF option = Nothing THEN default ELSE CHOOSE v \in option : TRUE
SumOf(f) == FoldLeft(LAMBDA a, b : a + b, 0, f)

\* get_time_dhms: a duration in the engine's words, days to seconds.
Words(seconds) ==
    LET all == <<[n |-> seconds \div 86400, u |-> "d"], [n |-> (seconds \div 3600) % 24, u |-> "h"],
                 [n |-> (seconds \div 60) % 60, u |-> "m"], [n |-> seconds % 60, u |-> "s"]>>
        first == CHOOSE i \in 1..4 : (all[i].n > 0 \/ i = 4) /\ \A j \in 1..(i - 1) : all[j].n = 0
    IN SubSeq(all, first, 4)

\* The lines the engine ends a file with, in each dialect.
LinesOf(j, d) ==
    {[k |-> "command"]} \cup
    CASE d = "bambu" -> {[k |-> "model_time", model |-> Words(j.model), total |-> {Words(j.total)}],
                         [k |-> "layers", n |-> j.layers],
                         [k |-> "used", unit |-> "g", v |-> j.grams],
                         [k |-> "used", unit |-> "mm", v |-> j.mm]}
      [] d = "orca" -> {[k |-> "estimated", v |-> Words(j.total)],
                        [k |-> "layers", n |-> j.layers],
                        [k |-> "used", unit |-> "cm3", v |-> j.mm],
                        [k |-> "used", unit |-> "mm", v |-> j.mm]}
      [] OTHER -> {[k |-> "time", v |-> <<[n |-> j.total, u |-> ""]>>],
                   [k |-> "layers", n |-> j.layers],
                   [k |-> "used", unit |-> "", v |-> j.mm]}

(***************************************************************************)
(* header.rs and summary.rs                                                *)
(***************************************************************************)
NoMetadata == [time |-> Nothing, used |-> <<>>, layers |-> Nothing]

\* mutant: the time of the model alone
DispatchModelTime(meta, line) ==
    CASE line.k \in {"estimated", "time"} -> [meta EXCEPT !.time = {line.v}]
      [] line.k = "model_time" -> [meta EXCEPT !.time = {line.model}]
      [] line.k = "used" -> [meta EXCEPT !.used = Append(@, line)]
      [] line.k = "layers" -> [meta EXCEPT !.layers = {line.n}]
      [] OTHER -> meta

\* dispatch: one comment; the last of a kind stands, usages add up.
Dispatch(meta, line) ==
    CASE line.k \in {"estimated", "time"} -> [meta EXCEPT !.time = {line.v}]
      [] line.k = "model_time" -> [meta EXCEPT !.time = {The(line.total, line.model)}]
      [] line.k = "used" -> [meta EXCEPT !.used = Append(@, line)]
      [] line.k = "layers" -> [meta EXCEPT !.layers = {line.n}]
      [] OTHER -> meta

\* parse_all_metadata: commands between the comments are passed over.
ParseAllMetadata(lines) == FoldLeft(Dispatch, NoMetadata, lines)

\* parse_duration_seconds
Multiplier(u) == CASE u = "d" -> 86400 [] u = "h" -> 3600 [] u = "m" -> 60 [] OTHER -> 1
DurationSeconds(words) == SumOf([i \in DOMAIN words |-> words[i].n * Multiplier(words[i].u)])

\* summary_from_header: usage by extruder, of each unit; the last line of a
\* unit stands.
UsedOf(meta, unit) ==
    LET lines == SelectSeq(meta.used, LAMBDA l : l.unit = unit)
    IN IF lines = <<>> THEN <<>> ELSE Last(lines).v
EmptySummary == [seconds |-> 0, layers |-> 0, grams |-> <<>>, mm |-> <<>>]
BuildSummary(lines) ==
    LET meta == ParseAllMetadata(lines)
    IN [seconds |-> DurationSeconds(The(meta.time, <<>>)), layers |-> The(meta.layers, 0),
        grams |-> UsedOf(meta, "g"), mm |-> UsedOf(meta, "mm")]

(***************************************************************************)
(* slice_info.rs: a reader of its own, of the bundle's G-code.             *)
(***************************************************************************)
\* parse_hms: days are not among its units.
ParseHms(words) ==
    SumOf([i \in DOMAIN words |-> IF words[i].u \in {"h", "m", "s"} THEN words[i].n * Multiplier(words[i].u) ELSE 0])

\* slice_info_config_xml: prediction and weight of a plate; only Bambu's line
\* carries the time.
SliceInfo(lines) ==
    LET times == SelectSeq(lines, LAMBDA l : l.k = "model_time" /\ l.total # Nothing)
        grams == SelectSeq(lines, LAMBDA l : l.k = "used" /\ l.unit = "g")
    IN [prediction |-> IF times = <<>> THEN 0 ELSE ParseHms(The(Last(times).total, <<>>)),
        weight |-> IF grams = <<>> THEN 0 ELSE SumOf(Last(grams).v),
        filaments |-> IF grams = <<>> THEN 0 ELSE Len(Last(grams).v)]

(***************************************************************************)
(* send.rs: what the start of a U1 print is told.                          *)
(***************************************************************************)
\* u1_map_table: of each material, from 1, its toolhead; 0 when it has none.
MapTable(s) == [m \in DOMAIN s |-> The(s[m], 0)]

\* u1_usage_from_gcode
UsedLogical(lines) ==
    LET mm == BuildSummary(lines).mm IN {m \in DOMAIN mm : mm[m] > 0}

\* physical_extruders_used: a slot without an entry is dropped.
PhysicalExtruders(lines, s) == {MapTable(s)[m] : m \in UsedLogical(lines) \cap DOMAIN s}

(***************************************************************************)
(* sliced.rs                                                               *)
(***************************************************************************)
Name(kind, n) == <<kind, n>>
Md5(gcode) == <<"md5", gcode>>

\* rels_xml: the first plate that has a picture.
Cover(plates) ==
    LET seen == SelectSeq(plates, LAMBDA p : p.thumbnail # Nothing)
    IN IF seen = <<>> THEN Nothing ELSE {seen[1].id}

\* Where the bundle's relations and settings point to (rels_xml,
\* model_settings_xml, model_settings_rels_xml).
Targets(plates) ==
    UNION {{Name("gcode", plates[i].id)} \cup
           (IF plates[i].thumbnail # Nothing THEN {Name("png", plates[i].id)} ELSE {}) : i \in DOMAIN plates}
    \cup UNION {{Name("png", n), Name("small", n)} : n \in Cover(plates)}

\* write_sliced_3mf: the plates' entries, with the index files as one entry.
WriteSliced(plates) ==
    LET of(p) == {<<Name("gcode", p.id), p.gcode>>, <<Name("md5", p.id), Md5(p.gcode)>>,
                  <<Name("json", p.id), [id |-> p.id, summary |-> p.summary, ams |-> p.ams]>>}
                 \cup UNION {{<<Name("png", p.id), t>>, <<Name("small", p.id), t>>} : t \in p.thumbnail}
        entries == UNION {of(plates[i]) : i \in DOMAIN plates}
        index == [targets |-> Targets(plates), infos |-> [i \in DOMAIN plates |-> SliceInfo(plates[i].gcode)]]
    IN [name \in {e[1] : e \in entries} \cup {Name("index", 0)} |->
            IF name = Name("index", 0) THEN index
            ELSE (CHOOSE e \in entries : e[1] = name)[2]]

\* read_sliced_3mf: the plates by number; only their G-code is required.
ReadSliced(zip) ==
    LET ids == {n \in 1..9 : Name("gcode", n) \in DOMAIN zip}
        entry(name) == IF name \in DOMAIN zip THEN {zip[name]} ELSE Nothing
    IN [i \in 1..Cardinality(ids) |->
            LET n == CHOOSE m \in ids : Cardinality({l \in ids : l < m}) = i - 1
            IN [id |-> n, gcode |-> zip[Name("gcode", n)], metadata |-> entry(Name("json", n)),
                thumbnail |-> entry(Name("png", n))]]

\* fixture_input, as wrap_gcode_as_3mf fills it: the summary stays empty.
Wrapped(n, gcode, ams, picture) ==
    <<[id |-> n, gcode |-> gcode, summary |-> EmptySummary, ams |-> ams, thumbnail |-> picture]>>

(***************************************************************************)
(* A file is written, then wrapped for sending or export.                  *)
(***************************************************************************)
BundleInit ==
    /\ job \in Jobs /\ dialect \in Dialects /\ heads \in Slots
    /\ unwritten = LinesOf(job, dialect) /\ sliced = <<>>
    /\ bundle = <<>> /\ thumbnail \in {Nothing, {"png"}}

EngineWrites(line) ==
    /\ line \in unwritten /\ unwritten' = unwritten \ {line}
    /\ sliced' = Append(sliced, line)
    /\ UNCHANGED <<job, dialect, heads, bundle, thumbnail>>

\* wrap_gcode_as_3mf, of plate n.
Wrap(n) ==
    /\ unwritten = {} /\ bundle = <<>>
    /\ bundle' = WriteSliced(Wrapped(n, sliced, MapTable(heads), thumbnail))
    /\ UNCHANGED <<job, dialect, heads, unwritten, sliced, thumbnail>>

\* Another bundle, with plates of the same file, in any order: Bambu Studio's.
WrapSeveral(ids, pictured) ==
    /\ unwritten = {} /\ bundle = <<>>
    /\ bundle' = WriteSliced([i \in DOMAIN ids |->
                    [id |-> ids[i], gcode |-> sliced, summary |-> BuildSummary(sliced), ams |-> MapTable(heads),
                     thumbnail |-> IF ids[i] \in pictured THEN {"png"} ELSE Nothing]])
    /\ UNCHANGED <<job, dialect, heads, unwritten, sliced, thumbnail>>

BundleNext ==
    \/ \E line \in unwritten : EngineWrites(line)
    \/ \E n \in 1..2 : Wrap(n)
    \/ \E ids \in {<<1, 2>>, <<2, 1>>}, pictured \in SUBSET {1, 2} : WrapSeveral(ids, pictured)

(***************************************************************************)
(* Properties.                                                             *)
(***************************************************************************)
Complete == unwritten = {}
Wraps == DOMAIN bundle # {}

BundleTypeOK ==
    Wraps =>
    /\ Complete /\ Name("index", 0) \in DOMAIN bundle
    /\ ToSet(sliced) = LinesOf(job, dialect) /\ IsInjective(sliced)
    /\ \A n \in 1..9 : Name("gcode", n) \in DOMAIN bundle
                         <=> {Name("md5", n), Name("json", n)} \subseteq DOMAIN bundle

\* The panel's time is the whole job's, in every dialect and wherever the line
\* stands, for days as for seconds; and the filament is each extruder's.
EstimateIsTotal ==
    Complete => LET s == BuildSummary(sliced) IN
        /\ s.seconds = job.total /\ s.layers = job.layers
        /\ dialect # "cura" => s.mm = job.mm

\* The two readers of a file in Bambu's dialect agree, for a job of less than a
\* day: the printer's screen shows what the program's panel shows.  (From a day
\* on the screen's time is short: parse_hms skips the days.)
ReadersAgree ==
    Complete /\ dialect = "bambu" =>
        LET s == BuildSummary(sliced)
            info == SliceInfo(sliced)
        IN /\ info.weight = SumOf(s.grams) /\ info.filaments = Len(s.grams)
           /\ job.total < 86400 => info.prediction = s.seconds

\* The toolheads a U1 calibrates are those its bound materials print with: no
\* other, however the materials are spread over the toolheads.
CalibratesThePrinting ==
    Complete /\ dialect # "cura" =>
        PhysicalExtruders(sliced, heads) =
            {The(heads[m], 0) : m \in {n \in DOMAIN heads : n \in DOMAIN job.mm /\ job.mm[n] > 0}}

\* Whatever a bundle's index points to is in the bundle, and no cover is left
\* out when some plate has a picture.
TargetsExist ==
    Wraps => /\ bundle[Name("index", 0)].targets \subseteq DOMAIN bundle
             /\ (\E n \in 1..9 : Name("png", n) \in DOMAIN bundle)
                  => \E n \in 1..9 : Name("small", n) \in bundle[Name("index", 0)].targets

\* What is read from a bundle is what was written, plate by plate, in the order
\* of their numbers whatever the order they were written in.
BundleRoundTrips ==
    Wraps => LET plates == ReadSliced(bundle) IN
        /\ {plates[i].id : i \in DOMAIN plates} = {n \in 1..9 : Name("gcode", n) \in DOMAIN bundle}
        /\ \A i \in DOMAIN plates :
              /\ plates[i].gcode = sliced
              /\ plates[i].metadata # Nothing /\ The(plates[i].metadata, 0).id = plates[i].id
              /\ bundle[Name("md5", plates[i].id)] = Md5(plates[i].gcode)
              /\ i > 1 => plates[i - 1].id < plates[i].id

(* The readers of a sliced plate agree on what it takes, the printer heats what     *)
(* prints, and a bundle is read as it was written (slice_info.rs:62, send.rs:237,   *)
(* sliced.rs:94).                                                                   *)
BundleIsWhole ==
  /\ BundleTypeOK /\ EstimateIsTotal /\ ReadersAgree /\ CalibratesThePrinting
  /\ TargetsExist /\ BundleRoundTrips
=======================================================================================
