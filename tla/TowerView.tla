------------------------------ MODULE TowerView ------------------------------
(***************************************************************************)
(* The priming tower in the viewport (viewport_render.rs): the placement    *)
(* the renderer resolves once per plate and keeps, the sliced mesh it is    *)
(* handed by the slice's event sink, the drag of the tower, and the page    *)
(* (WgpuViewport.tsx) that drags it and that tells the renderer, event by   *)
(* event, to resolve again.  The page listens only while it is mounted, in  *)
(* the Prepare layout, and not for every change; the renderer keeps its     *)
(* placements meanwhile.  The bed is one axis; the other is the same.       *)
(***************************************************************************)
EXTENDS Integers, Sequences, FiniteSets

CONSTANTS
  TowerPlates,   \* the plates
  BedSize,       \* the bed's length, by printer
  Configs,       \* what a plate may be set to: [slots, printer, width, brim, x, on, user]
  Spots,         \* where on the bed the pointer may be
  InFlight,      \* the moves of a drag that may be unanswered at a time
  EditsLeft      \* the edits, presses and slices of a run

\* a plate comes first, a printer has a bed
ASSUME TowerAssumption ==
  /\ \E p \in TowerPlates : \A q \in TowerPlates : p <= q
  /\ \A r \in DOMAIN BedSize : BedSize[r] \in Nat
  /\ Configs \subseteq [slots : Nat, printer : DOMAIN BedSize, width : Nat, brim : Nat, x : Int,
                         on : BOOLEAN, user : Seq(Int)]
  /\ Spots \subseteq Int /\ InFlight \in Nat /\ EditsLeft \in Nat

VARIABLES
  setup,     \* the plates' configuration: slots in use, printer, the tower's width, brim and
             \* corner, whether it is on, and <<corner>> of the user tier where no override of
             \* the plate hides it
  activePlate, \* the plate in front
  towerGeom, \* the renderer's resolved placements: <<>> while not resolved, <<None or one>>
  towerMesh, \* its sliced meshes: <<>> or <<[reach, slots, printer, of, overtaken]>>
  towerDrag, \* its live drag: <<>> or <<[plate, x]>>
  slicing,   \* <<>> or the slice at work: <<[plate, of]>>
  press,     \* the page's drag: <<>> or <<[offset, clamped]>>
  answers,   \* the renderer's answers on their way to the page
  mounted,   \* the viewport is mounted, its listeners registered
  events,    \* plates with an event on its way that makes a mounted page invalidate
  missed,    \* history: plates whose kept placement is of before a change that nobody heard of
  drawn,     \* what the last frame drew: <<>> or <<[plate, x, reach, mesh]>>, << >> once something has changed
  unsettled, \* a drag whose corner was never committed (no answer before the release)
  overtaken, \* the plate of the slice at work has been edited, or replaced, since it started
  towerLeft  \* edits left
hearing == <<mounted, events, missed>>
towerVars == <<setup, activePlate, towerGeom, towerMesh, towerDrag, slicing, press, answers, hearing, drawn,
               unsettled, overtaken, towerLeft>>

None0 == [none |-> TRUE]

-----------------------------------------------------------------------------
(* tower_geometry_for_plate: no tower under two slots in use or without            *)
(* enable_prime_tower.  What the user tier sets is not folded in.                   *)
Resolve(cfg) ==
  IF cfg.slots < 2 \/ ~ cfg.on THEN None0
  ELSE [none |-> FALSE, x |-> cfg.x, width |-> cfg.width, brim |-> cfg.brim, slots |-> cfg.slots,
        printer |-> cfg.printer]

\* where the slice, which folds the user tier in, has the corner
SlicedCorner(cfg) == IF cfg.user = << >> THEN cfg.x ELSE cfg.user[1]

\* resolved the first time, then kept
Resolved(p) == IF towerGeom[p] = << >> THEN Resolve(setup[p]) ELSE towerGeom[p][1]
Resolving(p) == towerGeom' = [towerGeom EXCEPT ![p] = <<Resolved(p)>>]

ClampCorner(reach, bed, x) ==
  LET low == 0 - reach[1]
      high == IF bed - reach[2] > low THEN bed - reach[2] ELSE low
      most(a, b) == IF a > b THEN a ELSE b
      least(a, b) == IF a < b THEN a ELSE b
  IN  least(most(x, low), high)

\* mutant: a mesh of another printer is taken for valid
ValidMeshAnyPrinter(p, g) ==
  IF towerMesh[p] # << >> /\ towerMesh[p][1].slots = g.slots THEN towerMesh[p] ELSE << >>

\* a stored mesh counts while its slots and printer are the resolved ones
ValidMesh(p, g) ==
  IF towerMesh[p] # << >> /\ towerMesh[p][1].slots = g.slots /\ towerMesh[p][1].printer = g.printer
  THEN towerMesh[p] ELSE << >>

\* how far the tower reaches from its corner: the mesh's extent, else the box and its brim
Reach(p, g) ==
  LET m == ValidMesh(p, g) IN IF m = << >> THEN <<0 - g.brim, g.width + g.brim>> ELSE m[1].reach

\* the corner that is drawn and pressed: the drag's, else the resolved one clamped
EffectiveCorner(p, g) ==
  IF towerDrag # << >> /\ towerDrag[1].plate = p THEN towerDrag[1].x
  ELSE ClampCorner(Reach(p, g), BedSize[setup[p].printer], g.x)

HitCorner(p, g) == EffectiveCorner(p, g)

-----------------------------------------------------------------------------
FirstPlate == CHOOSE p \in TowerPlates : \A q \in TowerPlates : p <= q
Spend == towerLeft > 0 /\ towerLeft' = towerLeft - 1

TowerFrame ==
  LET p == activePlate
      g == Resolved(p)
  IN  /\ mounted
      /\ Resolving(p)
      /\ drawn' = IF g.none THEN << >>
                  ELSE <<[plate |-> p, x |-> EffectiveCorner(p, g), reach |-> Reach(p, g),
                          mesh |-> ValidMesh(p, g)]>>
      /\ UNCHANGED <<setup, activePlate, towerMesh, towerDrag, slicing, press, answers, hearing, unsettled,
                     overtaken, towerLeft>>

SlicingOf(p) == slicing # << >> /\ slicing[1].plate = p

\* whatever changes a plate, in any layout of the page
Configure(p, cfg) ==
  /\ Spend /\ cfg # setup[p]
  /\ setup' = [setup EXCEPT ![p] = cfg]
  /\ drawn' = << >>
  /\ overtaken' = (overtaken \/ SlicingOf(p))
  /\ UNCHANGED <<activePlate, towerGeom, towerMesh, towerDrag, slicing, press, answers, unsettled,
                 mounted>>

(* An edit, or its undo, of the plate's objects, materials, printer, quality or     *)
(* project overrides emits an event of the viewport's list.                         *)
EditPlate(p, cfg) ==
  /\ Configure(p, cfg)
  /\ events' = events \cup {p} /\ missed' = missed

\* a placement kept for p is now older than p, and stays
Misses(p) == missed' = IF towerGeom[p] = << >> THEN missed ELSE missed \cup {p}

(* A change of the bound printer's settings, of the user tier or of the process a   *)
(* plate uses emits nothing the viewport listens for.                               *)
EditUnheard(p, cfg) ==
  /\ Configure(p, cfg)
  /\ events' = events /\ Misses(p)

\* another layout: no listeners, no drag; the renderer keeps what it has
Unmount ==
  /\ mounted /\ mounted' = FALSE
  /\ press' = << >> /\ answers' = << >> /\ drawn' = << >>
  /\ unsettled' = (unsettled \/ towerDrag # << >>)
  /\ UNCHANGED <<setup, activePlate, towerGeom, towerMesh, towerDrag, slicing, events, missed,
                 overtaken, towerLeft>>

\* back in Prepare: the mount effect frames the camera and invalidates nothing
Mount ==
  /\ ~ mounted /\ mounted' = TRUE
  /\ UNCHANGED <<setup, activePlate, towerGeom, towerMesh, towerDrag, slicing, press, answers, events,
                 missed, drawn, unsettled, overtaken, towerLeft>>

\* an event with no listener
LoseEvent(p) ==
  /\ ~ mounted /\ p \in events /\ events' = events \ {p}
  /\ Misses(p)
  /\ UNCHANGED <<setup, activePlate, towerGeom, towerMesh, towerDrag, slicing, press, answers, mounted,
                 drawn, unsettled, overtaken, towerLeft>>

\* a plain plate switch drops nothing: the renderer keys by plate
SwitchPlate(p) ==
  /\ p # activePlate /\ activePlate' = p
  /\ drawn' = << >>
  /\ UNCHANGED <<setup, towerGeom, towerMesh, towerDrag, slicing, press, answers, hearing, unsettled, overtaken,
                 towerLeft>>

DropPlacements == towerGeom' = [p \in TowerPlates |-> << >>] /\ towerDrag' = << >>

\* an event reaches the page, which has the renderer resolve again and drop a drag
InvalidateTower(p) ==
  /\ mounted /\ p \in events
  /\ events' = events \ {p} /\ missed' = {} /\ mounted' = mounted
  /\ DropPlacements
  /\ drawn' = << >>
  /\ unsettled' = FALSE
  /\ UNCHANGED <<setup, activePlate, towerMesh, slicing, press, answers, overtaken, towerLeft>>

ClearTowers == DropPlacements /\ towerMesh' = [p \in TowerPlates |-> << >>]

\* a new project under the same plate ids; a slice of the old one goes on
ReplaceProject(cfg) ==
  /\ Spend
  /\ setup' = [p \in TowerPlates |-> cfg]
  /\ activePlate' = FirstPlate
  /\ ClearTowers
  /\ drawn' = << >>
  /\ unsettled' = FALSE
  /\ overtaken' = (slicing # << >>)
  /\ missed' = {}
  /\ UNCHANGED <<slicing, press, answers, events, mounted>>

-----------------------------------------------------------------------------
StartTowerSlice(p) ==
  /\ Spend /\ slicing = << >>
  /\ slicing' = <<[plate |-> p, of |-> setup[p]]>>
  /\ overtaken' = FALSE
  /\ UNCHANGED <<setup, activePlate, towerGeom, towerMesh, towerDrag, press, answers, hearing, drawn, unsettled>>

(* The sink labels the mesh with the slots and the printer of the project as it is *)
(* when the plate is finished; a plate with no tower by then gets 0 slots.          *)
Labelled0(cfg) == LET g == Resolve(cfg) IN
  IF g.none THEN [slots |-> 0, printer |-> "none"] ELSE [slots |-> g.slots, printer |-> g.printer]

TowerSliced ==
  /\ slicing # << >>
  /\ LET p == slicing[1].plate
         of == slicing[1].of
         made == [reach |-> <<-1, of.width + 1>>, slots |-> Labelled0(setup[p]).slots,
                  printer |-> Labelled0(setup[p]).printer, of |-> of, overtaken |-> overtaken]
     IN  towerMesh' = [towerMesh EXCEPT ![p] = IF Resolve(of).none THEN << >> ELSE <<made>>]
  /\ slicing' = << >> /\ overtaken' = FALSE
  /\ drawn' = << >>
  /\ UNCHANGED <<setup, activePlate, towerGeom, towerDrag, press, answers, hearing, unsettled, towerLeft>>

-----------------------------------------------------------------------------

\* an answer counts only for the press that asked
DiscardAnswers == answers' = << >>

Dragging(p) == ~ Resolved(p).none

\* the press hits the tower's reach at the corner: the offset from it is the page's
PressTower(bx) ==
  /\ Spend /\ mounted /\ press = << >> /\ Dragging(activePlate)
  /\ LET g == Resolved(activePlate)
         x == HitCorner(activePlate, g)
     IN  /\ bx \in x + Reach(activePlate, g)[1] .. x + Reach(activePlate, g)[2]
         /\ press' = <<[offset |-> bx - x, clamped |-> << >>]>>
  /\ Resolving(activePlate)
  /\ DiscardAnswers
  /\ UNCHANGED <<setup, activePlate, towerMesh, towerDrag, slicing, hearing, drawn, unsettled, overtaken>>

\* the renderer clamps the corner, holds it as the drag, and answers with it
MoveTower(bx) ==
  /\ press # << >> /\ Dragging(activePlate) /\ Len(answers) < InFlight
  /\ LET g == Resolved(activePlate)
         x == ClampCorner(Reach(activePlate, g), BedSize[setup[activePlate].printer], bx - press[1].offset)
     IN  towerDrag' = <<[plate |-> activePlate, x |-> x]>> /\ answers' = Append(answers, x)
  /\ Resolving(activePlate)
  /\ drawn' = << >>
  /\ UNCHANGED <<setup, activePlate, towerMesh, slicing, press, hearing, unsettled, overtaken, towerLeft>>

MoveAnswered ==
  /\ press # << >> /\ answers # << >>
  /\ press' = [press EXCEPT ![1].clamped = <<Head(answers)>>]
  /\ answers' = Tail(answers)
  /\ UNCHANGED <<setup, activePlate, towerGeom, towerMesh, towerDrag, slicing, hearing, drawn, unsettled, overtaken,
                 towerLeft>>

(* The last answer the page has seen is committed as an override of the plate in   *)
(* front at the release; without one nothing is, and the renderer's drag stays.    *)
ReleaseTower ==
  /\ press # << >> /\ press' = << >> /\ DiscardAnswers
  /\ IF press[1].clamped = << >>
     THEN /\ UNCHANGED <<setup, events, overtaken>>
          /\ unsettled' = (unsettled \/ towerDrag # << >>)
     ELSE /\ setup' = [setup EXCEPT ![activePlate].x = press[1].clamped[1],
                                  ![activePlate].user = << >>]
          /\ events' = events \cup {activePlate}
          /\ overtaken' = (overtaken \/ SlicingOf(activePlate))
          /\ unsettled' = unsettled
  /\ UNCHANGED <<activePlate, towerGeom, towerMesh, towerDrag, slicing, drawn, towerLeft, mounted,
                 missed>>

TowerInit ==
  /\ setup \in [TowerPlates -> Configs]
  /\ activePlate = FirstPlate
  /\ towerGeom = [p \in TowerPlates |-> << >>] /\ towerMesh = [p \in TowerPlates |-> << >>]
  /\ slicing \in {<< >>, <<[plate |-> FirstPlate, of |-> setup[FirstPlate]]>>}
  /\ towerDrag = << >> /\ press = << >> /\ answers = << >> /\ drawn = << >>
  /\ mounted = TRUE /\ events = {} /\ missed = {} /\ unsettled = FALSE /\ overtaken = FALSE
  /\ towerLeft = EditsLeft

TowerNext ==
  \/ TowerFrame \/ TowerSliced \/ MoveAnswered \/ ReleaseTower \/ Unmount \/ Mount
  \/ \E p \in TowerPlates :
       SwitchPlate(p) \/ StartTowerSlice(p) \/ InvalidateTower(p) \/ LoseEvent(p)
  \/ \E p \in TowerPlates, cfg \in Configs : EditPlate(p, cfg) \/ EditUnheard(p, cfg)
  \/ \E cfg \in Configs : ReplaceProject(cfg)
  \/ \E bx \in Spots : PressTower(bx) \/ MoveTower(bx)

TowerSpec == TowerInit /\ [][TowerNext]_towerVars

-----------------------------------------------------------------------------
TowerTypeOK ==
  /\ activePlate \in TowerPlates /\ mounted \in BOOLEAN /\ events \cup missed \subseteq TowerPlates
  /\ towerLeft \in 0 .. EditsLeft
  /\ \A p \in TowerPlates : setup[p].slots \in Nat /\ setup[p].printer \in DOMAIN BedSize
  /\ Len(press) <= 1 /\ (press = << >> => answers = << >>)
  /\ Len(answers) <= InFlight /\ Len(towerDrag) <= 1
  /\ \A p \in TowerPlates : Len(towerGeom[p]) <= 1 /\ Len(towerMesh[p]) <= 1

(* Once no event of a plate is on its way, and none was missed, its tower is where *)
(* the plate's configuration will have it sliced: a kept placement is not older     *)
(* than the plate, no drag outlives its commit, and the frame shows the clamped     *)
(* corner (viewport_render.rs:1293 resolved_tower, :1302 invalidate_tower).  Left   *)
(* out, and shown elsewhere than sliced: a plate changed while the viewport was     *)
(* unmounted or by a change it does not listen for, until the next event it hears   *)
(* (WgpuViewport.tsx:1109-1127, :1225-1227); a user tier that sets the tower, which *)
(* the slice folds in and the view does not (resolve.rs:136-142, slice/input.rs:297); *)
(* and a drag that was never committed, by a release before the first answer or by  *)
(* leaving Prepare in the middle.                                                   *)
DrawnWhereSliced ==
  /\ \A p \in TowerPlates \ (events \cup missed) : towerGeom[p] \in {<< >>, <<Resolve(setup[p])>>}
  /\ press = << >> /\ ~ unsettled /\ events = {} => towerDrag = << >>
  /\ press = << >> /\ ~ unsettled /\ events = {} /\ activePlate \notin missed /\ drawn # << >>
       /\ setup[activePlate].user = << >> =>
         drawn[1].x = ClampCorner(drawn[1].reach, BedSize[setup[activePlate].printer],
                                  SlicedCorner(setup[activePlate]))

(* A press is tested against what the last frame drew, whichever of placement,     *)
(* clamp, mesh and drag decided it (viewport_render.rs:1351 "MUST agree").          *)
PressSeesTheDrawing ==
  drawn # << >> =>
    LET g == Resolved(activePlate) IN
      /\ drawn[1].plate = activePlate /\ ~ g.none
      /\ drawn[1].reach = Reach(activePlate, g)
      /\ drawn[1].x = HitCorner(activePlate, g)

(* The tower is drawn on the bed, or from the bed's low edge when it is larger,     *)
(* after a change of printer, mesh or project too.  A drag in progress may be held  *)
(* where a mesh that has since arrived no longer fits.                              *)
TowerStaysOnBed ==
  drawn # << >> /\ towerDrag = << >> =>
    LET low  == drawn[1].x + drawn[1].reach[1]
        high == drawn[1].x + drawn[1].reach[2]
        bed  == BedSize[setup[activePlate].printer]
    IN  low >= 0 /\ (high <= bed \/ low = 0)

(* A sliced tower is shown only on a plate with the slots and the printer it was    *)
(* sliced for (viewport_render.rs:1368 valid_tower_mesh).  Left out: a mesh whose   *)
(* plate was edited or replaced while it was sliced, which is labelled with what    *)
(* the plate has become (slice/commands.rs:162), and a plate whose change nobody    *)
(* heard of.                                                                        *)
MeshFitsUnlessOvertaken ==
  activePlate \notin events \cup missed /\ drawn # << >> =>
    \A m \in {drawn[1].mesh[k] : k \in DOMAIN drawn[1].mesh} :
      m.overtaken \/ (m.of.slots = setup[activePlate].slots /\ m.of.printer = setup[activePlate].printer)

(* The tower the user sees and drags is the one that is sliced: in its place, on    *)
(* the bed, under the cursor, and of this printer, width and number of filaments    *)
(* (viewport_render.rs:1354 effective_tower_corner, :1372 valid_tower_mesh).        *)
TowerIsTrue ==
  TowerTypeOK /\ DrawnWhereSliced /\ PressSeesTheDrawing /\ TowerStaysOnBed /\ MeshFitsUnlessOvertaken
=============================================================================
