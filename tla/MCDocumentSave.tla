---------------------------- MODULE MCDocumentSave ----------------------------
(***************************************************************************)
(* The project's document beside three things of its scene that share no    *)
(* state with it, in one run: comp is the part at work, the others stay as  *)
(* they start.  The projects of the document are interchangeable.           *)
(***************************************************************************)
EXTENDS DocumentSave, TowerView, Arrangement, TLC

VARIABLE comp

\* The tower: a plate without one, one with it off, one whose corner is off the bed with a
\* brim, one wider than another printer's bed, and one that the user tier moves.
Config(n, r, w, x) == [slots |-> n, printer |-> r, width |-> w, brim |-> 0, x |-> x, on |-> TRUE,
                       user |-> << >>]
OffBed == [Config(2, "p", 1, 5) EXCEPT !.brim = 1]
MCConfigs == {Config(1, "p", 1, 0), OffBed, Config(2, "q", 3, 0),
              [Config(2, "p", 1, 1) EXCEPT !.on = FALSE],
              [Config(2, "q", 1, 1) EXCEPT !.user = <<0>>]}
MCBeds == [r \in {"p", "q"} |-> IF r = "p" THEN 4 ELSE 2]

\* The plates arranged: two objects of any group, footprint and visibility beside a third.
Unit(g, v, ps) == [group |-> g, visible |-> v, points |-> ps]
MCLayouts ==
  {<<Unit(g, TRUE, a), Unit(h, v, b), Unit(1, TRUE, {<<4, 0>>, <<5, 0>>, <<5, 1>>})>> :
     g \in {0, 1}, h \in {0, 1}, v \in BOOLEAN,
     a \in {{<<0, 0>>, <<1, 0>>, <<0, 1>>}, {<<0, 2>>, <<1, 3>>}, {}},
     b \in {{<<2, 2>>, <<3, 2>>}, {<<3, 0>>, <<3, 1>>, <<2, 1>>}, {}}}
MCCorners == {<<0, 0>>, <<-2, 1>>}
Nested(bed, turned, by) == [bed |-> bed, turned |-> turned, by |-> by]
MCAnswers == {Nested(0, FALSE, <<2, 1>>), Nested(0, TRUE, <<3, 1>>), Nested(1, TRUE, <<0, 2>>),
              Nested(2, FALSE, <<1, 0>>), Nested(-1, FALSE, <<0, 0>>)}
MCClouds == SUBSET ((0 .. 2) \X (0 .. 2))

Symmetry == Permutations(Uuid)

MCInit ==
    /\ comp \in {"document", "tower", "hull", "arrange", "primitives"}
    /\ Init
    /\ comp # "tower" => setup = [p \in TowerPlates |-> Config(1, "p", 1, 0)] /\ slicing = << >>
    /\ comp = "tower" => \E c \in Configs : setup = [p \in TowerPlates |-> IF p = 1 THEN c ELSE OffBed]
    /\ TowerInit
    /\ comp # "hull" => cloud = {}
    /\ comp # "arrange" => layout = (CHOOSE l \in Layouts : TRUE) /\ corner = <<0, 0>>
    /\ ArrangeInit
    /\ IF comp = "primitives" THEN PrimitiveInit ELSE primitive = << >>
MCNext ==
    /\ UNCHANGED <<comp, primitiveVars>>
    /\ comp \notin {"hull", "primitives"}
    /\ IF comp = "document" THEN Next ELSE UNCHANGED vars
    /\ IF comp = "tower" THEN TowerNext ELSE UNCHANGED towerVars
    /\ IF comp = "arrange" THEN ArrangeNext ELSE UNCHANGED arrangeVars
MCVars == <<comp, vars, towerVars, arrangeVars, primitiveVars>>
MCSpec == MCInit /\ [][MCNext]_MCVars

(* What is put on the bed by arranging (arrange.rs:80) or from the catalogue of     *)
(* shapes (primitives.rs:103) is sound.                                             *)
PlacedIsSound == ArrangementIsSound /\ PrimitiveIsSolid
===============================================================================
