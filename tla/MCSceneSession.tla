--------------------------- MODULE MCSceneSession ---------------------------
(***************************************************************************)
(* Two printers, one with an AMS of two slots and an external spool, which *)
(* may be taken off and leaves one slot in the place of the first, and one *)
(* with a single slot; documents as the program's own commands build them. *)
(***************************************************************************)
EXTENDS SceneSession, TLC

MCWalk == <<"a1", "a2">>
MCRotation == ("ams" :> {MCWalk, <<"a1">>}) @@ ("single" :> {<<"s1">>})
MCAllSlots == ("ams" :> {"a1", "a2", "spool"}) @@ ("single" :> {"s1"})

Plain == Geometry("part", {})
Painted == Geometry("badge", {2})

Loaded(geoms, grouped) ==
    LoadThreeMf(NewSession(NewProject("ams"), 1), geoms, grouped, {}, MCWalk)

\* Two plates on different printers; on the first a group of two, one of
\* them painted with a second material.
TwoPlates == AddPlate(Loaded(<<Plain, Painted>>, TRUE).project, "single")

\* A painted object cut in two with a dowel, and a second bed of the same
\* printer.
CutApart ==
    LET s == Loaded(<<Painted>>, FALSE)
    IN AddPlate(ApplyCut(s, CutTargets(s.project, {1}), <<{0, 1}>>, "dowel", 0, MCWalk).project,
                Unbound)

\* Three objects, two of them sharing geometry, one with its own setting and
\* two of them a group.
Copied ==
    LET s == CloneTimes(Loaded(<<Plain>>, FALSE), <<[id |-> 1, mesh |-> 1, mat |-> NoMaterial,
                            group |-> NoGroup, pose |-> 1]>>, 2, MCWalk)
        grouped == GroupObjects(s, {1, 2}, FALSE)
    IN AddPlate(ObjectOverrideSet(grouped.project, 1, 3, "reg"), "single")


MCDocuments == {NewProject("ams"), LoadMesh(NewProject("single"), Painted, <<"s1">>)}
MCGeometries == {Plain, Painted}
MCCuts == [connector : {"none", "dowel"}, kept : {{0}, {0, 1}}]

\* Any two edits of a document with something on its plates; and longer runs of
\* the few that matter to the history and to what outlives an edit.
MCWorkloads ==
    [edits |->
        [commands   |-> {"add", "import", "clone", "place", "orient", "group", "override", "material",
                         "delete", "move", "arrange", "plates", "printers", "select", "cut"},
         geometries |-> {Painted}, cuts |-> MCCuts, steps |-> 2, objects |-> 8],
     histories |->
        [commands   |-> {"add", "delete", "undo", "replace", "frame", "paint", "cut"},
         geometries |-> {Plain}, cuts |-> [connector : {"none"}, kept : {{0, 1}}],
         steps |-> 4, objects |-> 3],
     restores |->
        [commands   |-> {"move", "printers", "plates", "undo"},
         geometries |-> {}, cuts |-> {}, steps |-> 4, objects |-> 5]]
MCStarts == [edits |-> {NewProject("ams"), TwoPlates, CutApart, Copied}, histories |-> MCDocuments,
             restores |-> {TwoPlates}]
=============================================================================
