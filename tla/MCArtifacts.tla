------------------------------------ MODULE MCArtifacts ------------------------------------
(***************************************************************************)
(* What the program reads and rewrites, and the paint tool that shares no   *)
(* state with it, in one run: comp is the part that is at work, the others  *)
(* stay as they start.                                                     *)
(***************************************************************************)
EXTENDS GcodePreview, PluginHost, ForeignProject, SlicedBundle, PaintTool, PaintCodec

VARIABLE comp

\* Lines of a file: moves with some of their parameters, comments, the rest.
Move(cmd, x, e, f) == [k |-> "move", cmd |-> cmd, x |-> x, z |-> None, e |-> e, f |-> f]
Sets(k, v) == [k |-> k, v |-> v]
MCLines ==
    {Move("line", {2}, {2}, None), Move("line", {0}, None, {1}), Move("arc", {2}, {4}, None),
     Move("line", {0}, {-2}, None), Move("line", None, {-2}, None), Sets("bad", 0), Sets("layer", 0),
     Sets("z", 2), Sets("type", "wall"), Sets("tool", 1), Sets("M83", 0), Sets("M82", 0), Sets("G92", 0)}
MCPreambles ==
    {<<>>,
     <<Sets("M83", 0), Move("line", {2}, {2}, {1}), Sets("layer", 0), Sets("z", 2)>>,
     <<Sets("M83", 0), Sets("type", "wall"), Sets("width", 2), Sets("layer", 0), Sets("z", 2),
       Move("arc", {2}, {4}, {1}), Move("line", {0}, None, None), Sets("layer", 0)>>}

\* The files of the plugins' plates, and what two plugins and their levels say.
MCTexts ==
    {[lines |-> <<Sets("layer", 0), Sets("M83", 0)>>, terminated |-> FALSE],
     [lines |-> <<Sets("M83", 0), Sets("bad", 0), Sets("layer", 0)>>, terminated |-> TRUE],
     [lines |-> <<Sets("M83", 0), Sets("layer", 0)>>, terminated |-> FALSE]}
Level(on, set) == [on |-> on, set |-> set]
Plugin(plate, project, instance, default) ==
    [scopes |-> {"plate", "project", "instance"}, plate |-> plate, project |-> project,
     instance |-> instance, default |-> default, compatible |-> TRUE]
Silent == Plugin(Level(None, FALSE), Level(None, FALSE), Level(None, FALSE), TRUE)
Forced == Plugin(Level({TRUE}, TRUE), Level({FALSE}, TRUE), Level({FALSE}, TRUE), FALSE)
Barred == Plugin(Level({FALSE}, TRUE), Level({TRUE}, TRUE), Level(None, TRUE), TRUE)
Wanted == Plugin(Level(None, TRUE), Level({TRUE}, TRUE), Level(None, TRUE), FALSE)
Narrow == [scopes |-> {"project"}, plate |-> Level({FALSE}, TRUE), project |-> Level(None, TRUE),
           instance |-> Level({FALSE}, TRUE), default |-> TRUE, compatible |-> TRUE]
MCManifests == {<<Silent, Forced>>, <<Barred, Narrow>>, <<Wanted, Silent>>}

\* The foreign project.
Tri(c, s) == [color |-> c, support |-> s]
MeshOf(ts) == [k |-> "mesh", triangles |-> ts, of |-> <<>>]
CompsOf(cs) == [k |-> "components", triangles |-> <<>>, of |-> cs]
Comp(path, id, t) == [path |-> path, id |-> id, t |-> t]
Plain == MeshOf(<<Tri("", "")>>)
Painted == MeshOf(<<Tri("", "s"), Tri("8", "")>>)
MCDocuments ==
  {[p \in {"", "a", "b"} |->
      CASE p = "" -> [id \in {1, 2, 3} |-> CASE id = 1 -> Plain
                        [] id = 2 -> CompsOf(<<Comp({"a"}, 1, "u"), Comp({"a"}, 2, "v")>>)
                        [] OTHER -> CompsOf(<<Comp(Absent, 1, "w"), Comp({"b"}, 1, "z")>>)]
        [] p = "a" -> [id \in {1, 2} |-> IF id = 1 THEN Painted ELSE CompsOf(<<Comp(Absent, 1, "x"), Comp({"b"}, 1, "y")>>)]
        [] OTHER -> [id \in {1} |-> Plain]]}
E(k, v) == [key |-> k, value |-> v]
V(ns) == [i \in DOMAIN ns |-> [n |-> ns[i], s |-> ""]]
MCStanzas(id) ==
  (IF id < 3 THEN {[id |-> id, entries |-> <<E("name", <<"own", id>>), E("extruder", {2}), E("walls", V(<<5>>))>>, parts |-> <<>>]} ELSE {}) \cup
  (IF id > 1 THEN {[id |-> id, entries |-> <<E("name", <<"own", id>>), E("index", V(<<2>>))>>,
    parts |-> <<<<E("name", <<"part", 1>>), E("extruder", {1})>>, <<E("extruder", {3}), E("walls", V(<<7>>)), E("matrix", V(<<1>>))>>>>]}
   ELSE {})
Opt(b, enum, nonneg, object, index) == [bucket |-> b, enum |-> enum, nonneg |-> nonneg, object |-> object, index |-> index]
Zig == [n |-> 100, s |-> "zig-zag"]
Rect == [n |-> 101, s |-> "rectilinear"]
MCOptions == [k \in {"walls", "pattern", "count", "index", "skirt", "temperature", "bed_shape"} |->
  CASE k = "walls" -> Opt("process", {}, FALSE, TRUE, FALSE)
    [] k = "pattern" -> Opt("process", {Rect}, FALSE, TRUE, FALSE)
    [] k = "count" -> Opt("process", {}, TRUE, TRUE, FALSE)
    [] k = "index" -> Opt("process", {}, FALSE, TRUE, TRUE)
    [] k = "skirt" -> Opt("process", {}, FALSE, FALSE, FALSE)
    [] k = "temperature" -> Opt("filament", {}, FALSE, FALSE, FALSE)
    [] OTHER -> Opt("printer", {}, FALSE, FALSE, FALSE)]
Base(walls, skirt) == ("walls" :> V(<<walls>>)) @@ ("pattern" :> <<Rect>>) @@ ("skirt" :> V(<<skirt>>)) @@ ("count" :> V(<<1, 1>>))
MCInstances == <<[model |-> "m1", processes |-> {}, baseline |-> (Absent :> Base(3, 0))],
                 [model |-> "m2", processes |-> {"fine"}, baseline |-> (Absent :> Base(3, 0)) @@ ({"fine"} :> Base(2, 2))]>>
J(v) == [form |-> "list", v |-> v]
MCSettings ==
  {[model |-> "m2", process |-> "fine", filaments |-> 3, bed |-> TRUE, changed |-> Absent,
    keys |-> ("walls" :> J(V(<<2, 2>>))) @@ ("pattern" :> J(<<Zig>>)) @@ ("skirt" :> J(V(<<0>>))) @@ ("temperature" :> J(V(<<9>>)))
             @@ ("count" :> J(V(<<1, 4>>))) @@ ("bed_shape" :> J(V(<<9>>))) @@ ("unknown" :> J(V(<<9>>))) @@ ("printer_model" :> J(V(<<0>>)))],
   [model |-> "m9", process |-> "fine", filaments |-> 1, bed |-> FALSE, changed |-> {{"walls", "count", "pattern", "temperature"}},
    keys |-> ("walls" :> J(V(<<3>>))) @@ ("pattern" :> J(<<Rect>>)) @@ ("count" :> J(V(<<1, -1>>))) @@ ("skirt" :> J(V(<<7>>)))
             @@ ("temperature" :> J(V(<<9>>))) @@ ("index" :> [form |-> "null", v |-> <<>>])],
   [model |-> "m1", process |-> "coarse", filaments |-> 2, bed |-> TRUE, changed |-> Absent,
    keys |-> ("walls" :> J(V(<<3, 4>>))) @@ ("index" :> J(V(<<2>>))) @@ ("pattern" :> J(<<Rect, Zig>>))]}

\* The paint of a triangle: whole, in halves, in thirds of which one is split
\* again, with states that need an escape (3 and more).
PaintLeaf(n) == [split |-> 0, state |-> n, kids |-> <<>>]
PaintSplit(kids) == [split |-> Len(kids) - 1, state |-> 0, kids |-> kids]
MCLeaves == {PaintLeaf(n) : n \in {0, 1, 18}}
MCTrees == MCLeaves \cup {PaintSplit(<<a, b>>) : <<a, b>> \in MCLeaves \X MCLeaves}
    \cup {PaintSplit(<<a, PaintSplit(<<b, a, b, c>>), b>>) :
             <<a, b, c>> \in {t \in MCLeaves \X MCLeaves \X MCLeaves : t[1] # t[2] /\ t[2] # t[3]}}

\* The jobs of the bundles: of some seconds, of hours, of more than a day.
MCJobs ==
    {[total |-> 45, model |-> 40, grams |-> <<3, 0>>, mm |-> <<30, 0>>, layers |-> 2],
     [total |-> 11105, model |-> 10000, grams |-> <<0, 4, 2>>, mm |-> <<0, 40, 20>>, layers |-> 3],
     [total |-> 97865, model |-> 90000, grams |-> <<5>>, mm |-> <<50>>, layers |-> 9]}
MCSlots == {<<{1}, {0}>>, <<{2}, {2}, {0}>>, <<{}, {1}, {3}>>}

Init ==
    /\ comp \in {"preview", "plugins", "foreign", "bundle", "paint", "codec"}
    /\ PreviewInit /\ (comp # "preview" => text = <<>>)
    /\ HostInit
    /\ (comp # "plugins" => manifest = <<Silent, Forced>> /\ global = <<None, None>>
                              /\ input = CHOOSE t \in MCTexts : TRUE)
    /\ ForeignInit /\ (comp # "foreign" => grid = 1)
    /\ BundleInit /\ (comp # "bundle" => /\ job = CHOOSE j \in MCJobs : TRUE
                                         /\ dialect = "orca" /\ thumbnail = Nothing
                                         /\ heads = CHOOSE s \in MCSlots : TRUE)
    /\ PaintInit /\ CodecInit
Next ==
    /\ UNCHANGED comp
    /\ IF comp = "preview" THEN PreviewNext ELSE UNCHANGED previewVars
    /\ IF comp = "plugins" THEN HostNext ELSE UNCHANGED hostVars
    /\ IF comp = "foreign" THEN ForeignNext ELSE UNCHANGED foreignVars
    /\ IF comp = "bundle" THEN BundleNext ELSE UNCHANGED bundleVars
    /\ IF comp = "paint" THEN PaintNext ELSE UNCHANGED paintVars
    /\ IF comp = "codec" THEN CodecNext ELSE UNCHANGED codecVars
vars == <<comp, previewVars, hostVars, foreignVars, bundleVars, paintVars, codecVars>>
Spec == Init /\ [][Next]_vars

(* What a foreign project says is what is imported, to the paint of each triangle, *)
(* whose tree of splits is one string (orca_import/mod.rs:313, threemf/paint.rs:42). *)
FileIsRead == ImportIsFaithful /\ PaintIsFound /\ PaintIsShown
============================================================================================
