--------------------------------- MODULE PluginHost ---------------------------------
(***************************************************************************)
(* The plugins (core/plugin) over the G-code of a job's plates: the host    *)
(* folds the post-slice hook over the plugins that may run, each with its   *)
(* own copy of the typed lines (hooks.rs), which it edits through the       *)
(* binding (bindings/gcode.rs); what comes out replaces the plate's file    *)
(* (slice/orchestrator.rs).  What a plugin may do is decided by its health  *)
(* and by the settings of four levels (resolve.rs).  The host is locked     *)
(* while the hook is folded.                                               *)
(***************************************************************************)
EXTENDS GcodeLines

CONSTANTS
    Plugins,        \* 1..n, in the order of their names
    Texts,          \* the files the engine may write: [lines, terminated]
    Edits,          \* how many edits and returns are made
    Switches,       \* how many commands the user gives
    Manifests       \* of each plugin: its manifest and its levels

ASSUME PluginsAssumption == Plugins \subseteq Nat \ {0}
ASSUME TextsAssumption ==
    \A t \in Texts : t.lines \in Seq(ToSet(t.lines)) /\ t.terminated \in BOOLEAN

VARIABLES
    manifest,       \* of each plugin: its manifest and its sub-global levels
    global,         \* of each plugin: the host's global switch, {} when unset
    config,         \* the same in config.toml
    healthy,        \* the plugins that loaded and have not failed since
    folding,          \* "idle", "read", "fold"
    input,          \* the text of the plate
    adopted,        \* the lines as the fold has them
    buf,            \* the running plugin's copy
    running,        \* the plugin that runs, 0 for none
    last,           \* the last plugin the fold has come to
    file,           \* the plate's file: what each line is and whether it ends
    editsLeft, switchesLeft

hostVars == <<manifest, global, config, healthy, folding, input, adopted, buf, running, last, file,
              editsLeft, switchesLeft>>

(***************************************************************************)
(* resolve.rs, and the manifest's scopes.                                  *)
(***************************************************************************)
Levels == <<"plate", "project", "instance">>

\* level_for, and resolve_plugin's rule: a level the manifest does not declare
\* says nothing.
LevelOf(p, l) ==
    IF l \in manifest[p].scopes THEN manifest[p][l] ELSE [on |-> None, set |-> FALSE]

Finest(is) == Levels[CHOOSE i \in is : \A j \in is : i <= j]

\* resolve: the finest level that says something decides, then the global
\* switch, then the manifest.
Effective(p) ==
    LET said == {i \in DOMAIN Levels : LevelOf(p, Levels[i]).on # None}
    IN IF said # {} THEN Or(LevelOf(p, Finest(said)).on, FALSE)
       ELSE Or(global[p], manifest[p].default)

\* resolve: a setting is that of the finest level that is switched on itself.
Setting(p) ==
    LET set == {i \in DOMAIN Levels : LevelOf(p, Levels[i]).set /\ LevelOf(p, Levels[i]).on = {TRUE}}
    IN IF set # {} THEN Finest(set)
       ELSE IF Or(global[p], manifest[p].default) THEN "global" ELSE "default"

\* plugin_runs, and any_active_hook.
Runs(p) == p \in healthy /\ manifest[p].compatible /\ Effective(p)
AnyActive == \E p \in Plugins : Runs(p)

(***************************************************************************)
(* The binding (bindings/gcode.rs)                                         *)
(***************************************************************************)
\* The typed lines of a text; only the last line may lack its end.
Buffer(t) ==
    LET ls == ParseAll(t.lines).lines
    IN [i \in DOMAIN ls |-> [k |-> ls[i].k, raw |-> ls[i].raw, by |-> 0,
                             nl |-> ls[i].raw < Len(t.lines) \/ t.terminated]]
FileOf(t) == [i \in DOMAIN t.lines |-> [raw |-> i, nl |-> i < Len(t.lines) \/ t.terminated, by |-> 0]]

\* to_string, with the ends of the lines.
Serialized(ls) ==
    LET kept == Kept(ls)
    IN [i \in DOMAIN kept |-> [raw |-> ls[kept[i]].raw, nl |-> ls[kept[i]].nl, by |-> ls[kept[i]].by]]

\* value_to_lines: a command, a layer marker (two lines), an empty string;
\* every line ends in a newline.
Value(v, p) ==
    LET line(k) == [k |-> k, raw |-> 0, by |-> p, nl |-> TRUE]
    IN CASE v = "command" -> <<line("other")>>
         [] v = "marker" -> <<line("comment"), line("layer_change")>>
         [] OTHER -> <<>>

\* ensure_terminated: the line before what is put in at i ends.
EnsureTerminated(ls, i) == IF i = 0 \/ i > Len(ls) THEN ls ELSE [ls EXCEPT ![i].nl = TRUE]

\* insert: the value comes before line i + 1.  append: i is the length.
InsertLines(ls, i, new) ==
    LET t == EnsureTerminated(ls, i) IN SubSeq(t, 1, i) \o new \o SubSeq(t, i + 1, Len(t))
RemoveLine(ls, i) == SubSeq(ls, 1, i - 1) \o SubSeq(ls, i + 1, Len(ls))

\* nth_layer: from its marker to the line before the next one's.
NthLayer(ls, k) ==
    LET at == InOrder({i \in DOMAIN ls : Synthetic(ls[i])})
    IN IF k >= Len(at) THEN None
       ELSE {[first |-> at[k + 1], last |-> IF k + 2 > Len(at) THEN Len(ls) ELSE at[k + 2] - 1]}

(***************************************************************************)
(* apply_post_slice and dispatch_gated                                     *)
(***************************************************************************)
HostInit ==
    /\ manifest \in Manifests
    /\ global \in {[p \in Plugins |-> on] : on \in {None, {TRUE}}} /\ config = global
    /\ healthy = Plugins /\ folding = "idle" /\ running = 0 /\ last = 0
    /\ input \in Texts /\ file = FileOf(input) /\ adopted = <<>> /\ buf = <<>>
    /\ editsLeft = Edits /\ switchesLeft = Switches

\* The file is read and parsed when some plugin would run, without the lock.
ReadFile ==
    /\ folding = "idle" /\ AnyActive /\ file = FileOf(input)
    /\ folding' = "read" /\ adopted' = Buffer(input)
    /\ UNCHANGED <<manifest, global, config, healthy, input, buf, running, last, file, editsLeft, switchesLeft>>

Rest == {p \in Plugins : p > last /\ Runs(p)}

\* The fold comes to the next plugin that may run: it gets a copy.
Invoke ==
    /\ folding \in {"read", "fold"} /\ running = 0 /\ Rest # {}
    /\ folding' = "fold"
    /\ running' = CHOOSE p \in Rest : \A q \in Rest : p <= q
    /\ last' = running' /\ buf' = adopted
    /\ UNCHANGED <<manifest, global, config, healthy, input, adopted, file, editsLeft, switchesLeft>>

Edited(new) ==
    /\ editsLeft > 0 /\ editsLeft' = editsLeft - 1 /\ buf' = new
    /\ UNCHANGED <<manifest, global, config, healthy, folding, input, adopted, running, last, file, switchesLeft>>

Insert(i, v) == running # 0 /\ Edited(InsertLines(buf, i, Value(v, running)))
Replace(i, v) == running # 0 /\ Edited(InsertLines(RemoveLine(buf, i), i - 1, Value(v, running)))
TakeOut(i) == running # 0 /\ Edited(RemoveLine(buf, i))

\* The hook returns: its copy is taken over.
Return ==
    /\ running # 0 /\ adopted' = buf /\ running' = 0
    /\ UNCHANGED <<manifest, global, config, healthy, folding, input, buf, last, file, editsLeft, switchesLeft>>

\* mutant: what a plugin did before it failed stays
HookFailsKeepsEdits ==
    /\ running # 0 /\ healthy' = healthy \ {running} /\ running' = 0 /\ adopted' = buf
    /\ UNCHANGED <<manifest, global, config, folding, input, buf, last, file, editsLeft, switchesLeft>>

\* The hook fails, or runs out of its budget: the plugin is disabled until it
\* is loaded again, the fold goes on with the lines it had.
HookFails ==
    /\ running # 0 /\ healthy' = healthy \ {running} /\ running' = 0
    /\ UNCHANGED <<manifest, global, config, folding, input, adopted, buf, last, file, editsLeft, switchesLeft>>

\* The fold is over: the file is replaced if it changed; a write that fails
\* leaves it as it was.
WriteFile ==
    /\ folding \in {"read", "fold"} /\ running = 0 /\ Rest = {}
    /\ folding' = "idle" /\ last' = 0
    /\ file' \in {Serialized(adopted), file}
    /\ adopted' = <<>> /\ buf' = <<>>
    /\ UNCHANGED <<manifest, global, config, healthy, input, running, editsLeft, switchesLeft>>

(***************************************************************************)
(* The panel (commands.rs).  A command waits for the host's lock.          *)
(***************************************************************************)
Commanded == folding # "fold" /\ switchesLeft > 0 /\ switchesLeft' = switchesLeft - 1

\* plugin_set_global_enabled: the file first; if it cannot be written nothing
\* changes.
SetGlobalEnabled(p, on, ok) ==
    /\ Commanded
    /\ IF ok THEN /\ config' = [config EXCEPT ![p] = {on}]
                  /\ global' = [global EXCEPT ![p] = {on}]
       ELSE UNCHANGED <<config, global>>
    /\ UNCHANGED <<manifest, healthy, folding, input, adopted, buf, running, last, file, editsLeft>>

\* plugin_reload: a fresh runtime, or an errored one.
ReloadPlugin(p, loads) ==
    /\ Commanded /\ healthy' = IF loads THEN healthy \cup {p} ELSE healthy \ {p}
    /\ UNCHANGED <<manifest, global, config, folding, input, adopted, buf, running, last, file, editsLeft>>

\* The program starts again: load, and apply_global from config.toml.
RestartHost ==
    /\ Commanded /\ folding' = "idle" /\ healthy' = Plugins /\ global' = config
    /\ adopted' = <<>> /\ buf' = <<>>
    /\ UNCHANGED <<manifest, config, input, running, last, file, editsLeft>>

EditStep ==
    \/ \E i \in 0..Len(buf), v \in {"command", "marker", ""} : Insert(i, v)
    \/ \E i \in 1..Len(buf) : TakeOut(i) \/ \E v \in {"command", "marker"} : Replace(i, v)
HostNext ==
    \/ ReadFile \/ Invoke \/ EditStep \/ Return \/ HookFails \/ WriteFile \/ RestartHost
    \/ \E p \in Plugins : \/ \E on, ok \in BOOLEAN : SetGlobalEnabled(p, on, ok)
                          \/ \E loads \in BOOLEAN : ReloadPlugin(p, loads)
HostSpec == HostInit /\ [][HostNext]_hostVars

(***************************************************************************)
(* Properties.                                                             *)
(***************************************************************************)
HostTypeOK ==
    /\ healthy \subseteq Plugins /\ running \in Plugins \cup {0}
    /\ running # 0 => folding = "fold" /\ running \in healthy /\ last = running
    /\ folding = "idle" => adopted = <<>>
    /\ \A i \in DOMAIN adopted : adopted[i].by \in Plugins \cup {0}

Untouched(p) == /\ \A i \in DOMAIN adopted : adopted[i].by # p
                /\ \A i \in DOMAIN file : file[i].by # p

\* A plugin that failed leaves nothing of what it did in the lines or the file,
\* however far it had come and whoever ran before or after it.
HookIsAllOrNothing ==
    folding = "fold" => \A p \in Plugins \ healthy : \A i \in DOMAIN adopted : adopted[i].by # p

\* A plugin the user has switched off for the plate, at a level its manifest
\* declares, changes nothing of it, whatever the levels below say.
OffMeansUntouched ==
    \A p \in Plugins : LevelOf(p, "plate").on = {FALSE} => Untouched(p)

\* What the running plugin reads as its setting comes from a level that
\* switched it on: a level that is off or silent promotes nothing, though the
\* plugin runs because of another.
SettingsComeWithTheSwitch ==
    running # 0 /\ Setting(running) \in ToSet(Levels) =>
        LevelOf(running, Setting(running)).on = {TRUE}

\* The switch of the panel is the one the next start finds, also when its
\* write failed.
SwitchSurvivesRestart == global = config

\* No two lines of the file run together, wherever a plugin puts its own; only
\* a file that ends in a layer marker without a newline is lost: the newline is
\* given to the line the parser made up, which is not written.
BareMarker == ~input.terminated /\ Last(input.lines).k = "layer"
LinesStayApart ==
    ~BareMarker => \A ls \in {Serialized(buf), Serialized(adopted), file} :
        \A i \in DOMAIN ls : ls[i].nl \/ i = Len(ls)

\* The layers a plugin walks over tile the lines from the first marker on,
\* after any edit: each begins at a marker and ends before the next begins.
LayersTile ==
    LET n == Cardinality({i \in DOMAIN buf : Synthetic(buf[i])})
    IN \A k \in 0..(n - 1) : \E l \in NthLayer(buf, k) :
          /\ Synthetic(buf[l.first])
          /\ IF k = n - 1 THEN l.last = Len(buf)
             ELSE \A next \in NthLayer(buf, k + 1) : l.last + 1 = next.first

(* A plugin does what it is switched on to do and no more: not half a hook, not     *)
(* where it is off, not with another scope's settings, not to lines it leaves alone *)
(* (plugin/host.rs:239 dispatch_gated).                                             *)
PluginsAreContained ==
  /\ HostTypeOK /\ HookIsAllOrNothing /\ OffMeansUntouched /\ SettingsComeWithTheSwitch
  /\ SwitchSurvivesRestart /\ LinesStayApart /\ LayersTile
=====================================================================================
