----------------------------- MODULE Arrangement -----------------------------
(***************************************************************************)
(* Auto-arrange's geometry (core/scene/arrange.rs) on a grid, and the      *)
(* clamp that seats a selection (core/project/mutation/geometry.rs).       *)
(*                                                                         *)
(* The units of the plate (a group, or an object on its own) are packed by *)
(* libslic3r's nester, which sees one convex contour per unit in the bed's *)
(* own frame and answers, per unit, a rotation about that frame's origin,  *)
(* a translation and a bed: 0 this one, 1 and up a further one, -1 none.   *)
(* Its answer is any of Answers.  The plan is applied by ProjectModel's    *)
(* ApplyArrangement.                                                       *)
(***************************************************************************)
EXTENDS Integers, Sequences, SequencesExt, FiniteSets, FiniteSetsExt, Folds

CONSTANTS
  Layouts,     \* plates: sequences of [group, visible, points], the points in the world
  Corners,     \* where the bed's low corner may lie in the world
  Answers,     \* the nester's answers for one unit
  Clouds,      \* the point sets whose hull is taken
  Bed,         \* the length of the bed along an axis
  MaxSegments  \* the largest number of segments a primitive is asked for

VARIABLES
  layout,      \* the plate arranged
  corner,      \* the bed's low corner
  answer,      \* what the nester answered, a sequence over the packed units; <<>> if it raised
  planned,     \* <<the plan>>, a record [placed, spilled, un_placed]; <<>> before
  cloud,       \* the points whose hull is taken
  primitive    \* << >>, or the shape asked for, its segments and the mesh made of them
arrangeVars == <<layout, corner, answer, planned, cloud>>

-----------------------------------------------------------------------------
Plus(p, q) == <<p[1] + q[1], p[2] + q[2]>>
Minus(p, q) == <<p[1] - q[1], p[2] - q[2]>>
QuarterTurn(p) == <<-p[2], p[1]>>

(* Andrew's monotone chain: a point is pushed once the ones it turns clockwise of *)
(* are popped, never below `floor`.                                               *)
Turns(o, a, b) == (a[1] - o[1]) * (b[2] - o[2]) - (a[2] - o[2]) * (b[1] - o[1])

Push(chain, p, floor) ==
  LET stays(k) == k < floor \/ Turns(chain[k - 1], chain[k], p) > 0
  IN  Append(SubSeq(chain, 1, Max({k \in 0 .. Len(chain) : stays(k)})), p)

ByXThenY(points) ==
  LET before(p, q) == p[1] < q[1] \/ (p[1] = q[1] /\ p[2] < q[2])
  IN  [k \in 1 .. Cardinality(points) |->
         CHOOSE p \in points : Cardinality({q \in points : before(q, p)}) = k - 1]

ConvexHull(points) ==
  LET pts == ByXThenY(points)
      low == FoldLeft(LAMBDA h, p : Push(h, p, 2), << >>, pts)
  IN  IF Len(pts) < 3 THEN pts
      ELSE Front(FoldLeft(LAMBDA h, p : Push(h, p, Len(low) + 1), low, Reverse(pts)))

Least(points, i) == Min({p[i] : p \in points})
Most(points, i) == Max({p[i] : p \in points})

\* a flat unit is packed as its bounding rectangle, a unit without area not at all
NoContour == << >>
FootprintContour(points) ==
  LET hull == ConvexHull(points) IN
    IF Len(hull) >= 3 THEN hull
    ELSE IF points = {} THEN NoContour
    ELSE IF Least(points, 1) = Most(points, 1) \/ Least(points, 2) = Most(points, 2) THEN NoContour
    ELSE << <<Least(points, 1), Least(points, 2)>>, <<Most(points, 1), Least(points, 2)>>,
            <<Most(points, 1), Most(points, 2)>>, <<Least(points, 1), Most(points, 2)>> >>

-----------------------------------------------------------------------------
VisibleObjects == {i \in 1 .. Len(layout) : layout[i].visible}

\* mutant: every object is a unit of its own
ArrangeUnitsUngrouped == SetToSortSeq({{i} : i \in VisibleObjects}, LAMBDA u, v : Min(u) < Min(v))

\* one unit per group, one per ungrouped object, by their smallest object
ArrangeUnits ==
  LET mates(i) == IF layout[i].group = 0 THEN {i}
                  ELSE {j \in VisibleObjects : layout[j].group = layout[i].group}
  IN  SetToSortSeq({mates(i) : i \in VisibleObjects}, LAMBDA u, v : Min(u) < Min(v))

Points(unit) == UNION {layout[i].points : i \in unit}
ContourOf(unit) == FootprintContour({Minus(p, corner) : p \in Points(unit)})
PackedUnits == SelectSeq(ArrangeUnits, LAMBDA u : ContourOf(u) # NoContour)

\* the nester turns about the bed's corner, then shifts
Moved(p, a) ==
  IF a.turned THEN Plus(corner, Plus(QuarterTurn(Minus(p, corner)), a.by)) ELSE Plus(p, a.by)

NoPlan == [placed |-> {}, spilled |-> {}, un_placed |-> {}]

\* the lists of the result, by the bed the nester answered
PlanOf(units, as) ==
  LET went(i, bed) == [id |-> i, bed |-> bed]
      of(k) == {[id |-> i, bed |-> as[k].bed, points |-> {Moved(p, as[k]) : p \in layout[i].points}]
                  : i \in units[k]}
      on(test(_)) == {k \in DOMAIN units : test(as[k].bed)}
  IN  [placed    |-> UNION {of(k) : k \in on(LAMBDA b : b = 0)},
       spilled   |-> UNION {of(k) : k \in on(LAMBDA b : b >= 1)},
       un_placed |-> UNION {units[k] : k \in on(LAMBDA b : b < 0)}]

\* when the nester raises, everything it was given is left in place and reported
PlanArrangement ==
  /\ planned = << >>
  /\ LET units == PackedUnits IN
       \/ /\ units # << >>
          /\ planned' = <<[NoPlan EXCEPT !.un_placed = UNION Range(units)]>>
          /\ UNCHANGED answer
       \/ \E as \in [1 .. Len(units) -> Answers] :
            /\ answer' = as
            /\ planned' = <<PlanOf(units, as)>>
  /\ UNCHANGED <<layout, corner, cloud>>

ArrangeInit ==
  /\ layout \in Layouts /\ corner \in Corners
  /\ answer = << >> /\ planned = << >>
  /\ cloud \in Clouds
ArrangeNext == PlanArrangement

-----------------------------------------------------------------------------

\* the shift that brings an extent back onto the bed: the low edge is looked at first
ClampShift(lo, hi, bmin, bmax) ==
  IF lo < bmin THEN bmin - lo ELSE IF hi > bmax THEN bmax - hi ELSE 0

\* what the out-of-bounds check says along one axis of the plate
OutOfBounds(lo, hi, bmin, bmax) == lo < bmin \/ hi > bmax

-----------------------------------------------------------------------------
Done == planned # << >>
Plan == planned[1]
Kept == Plan.placed \cup Plan.spilled

ArrangeTypeOK ==
  Done =>    /\ Len(layout) > 0 /\ Len(corner) = 2 /\ Len(answer) \in {0, Len(PackedUnits)}
             /\ Plan.un_placed \subseteq VisibleObjects
             /\ \A e \in Kept : e.id \in VisibleObjects
             /\ \A e \in Plan.spilled : e.bed >= 1

(* The chain is the convex hull: exactly the points that no segment or triangle of *)
(* the others covers, walked counter-clockwise without a flat corner.  libnest2d    *)
(* takes only such contours (arrange.rs:288 convex_hull).                           *)
Covers(t, p) ==
  LET a == Turns(t[1], t[2], p)
      b == Turns(t[2], t[3], p)
      c == Turns(t[3], t[1], p)
      between(i) == p[i] \in Min({t[1][i], t[2][i], t[3][i]}) .. Max({t[1][i], t[2][i], t[3][i]})
  IN  /\ (a >= 0 /\ b >= 0 /\ c >= 0) \/ (a <= 0 /\ b <= 0 /\ c <= 0)
      /\ between(1) /\ between(2)
Extreme(points) ==
  {p \in points : ~ \E x, y, z \in points \ {p} : Covers(<<x, y, z>>, p)}
HullIsTheHull ==
  LET h == ConvexHull(cloud)
      n == Len(h)
  IN  /\ Range(h) = Extreme(cloud) /\ IsInjective(h)
      /\ n >= 3 => \A k \in 1 .. n : Turns(h[k], h[(k % n) + 1], h[((k + 1) % n) + 1]) > 0

(* Every visible object with a footprint is in exactly one list of the plan, with  *)
(* its whole group: none is packed twice, lost, or reported though it moved.       *)
(* (Units without a footprint are in none, see the README.)                        *)
EveryUnitOnce ==
  Done => \A u \in Range(ArrangeUnits) :
    LET lists == {IF i \in Plan.un_placed THEN -1
                  ELSE LET at == {e.bed : e \in {k \in Kept : k.id = i}}
                       IN  IF Cardinality(at) = 1 THEN Max(at) ELSE -2 : i \in u}
        mates == {j \in VisibleObjects : layout[j].group # 0 /\ \E i \in u : layout[j].group = layout[i].group}
    IN  /\ ContourOf(u) # NoContour => Cardinality(lists) = 1 /\ -2 \notin lists
        /\ mates \subseteq u

(* A unit lies, seen from the bed, exactly where the nester placed its contour:    *)
(* wherever the bed's corner is in the world, and with its members as they stood   *)
(* to one another.                                                                 *)
LiesWhereNested ==
  Done /\ Len(answer) = Len(PackedUnits) =>
    \A k \in 1 .. Len(PackedUnits) :
      LET u     == PackedUnits[k]
          a     == answer[k]
          asked == {Plus(IF a.turned THEN QuarterTurn(p) ELSE p, a.by) : p \in Range(ContourOf(u))}
          lies  == {Minus(p, corner) : p \in UNION {e.points : e \in {o \in Kept : o.id \in u}}}
      IN  a.bed >= 0 /\ Len(ConvexHull({Minus(p, corner) : p \in Points(u)})) >= 3
            => Range(ConvexHull(lies)) = asked

(* A selection that has been seated is reported out of the plate only if it is     *)
(* larger than the bed, and a selection inside is not moved.                       *)
ClampedIsInBounds ==
  Done => \A lo \in -Bed .. 2 * Bed : \A hi \in lo .. 2 * Bed + 1 :
    LET s == ClampShift(lo, hi, 0, Bed) IN
      /\ OutOfBounds(lo + s, hi + s, 0, Bed) <=> hi - lo > Bed
      /\ ~ OutOfBounds(lo, hi, 0, Bed) => s = 0

(* Every object that is asked for lies once, inside a bed, where the nester put its *)
(* outline, and its outline covers it (arrange.rs:80 plan_arrangement, :329         *)
(* apply_arrangement).                                                              *)
ArrangementIsSound ==
  ArrangeTypeOK /\ HullIsTheHull /\ EveryUnitOnce /\ LiesWhereNested /\ ClampedIsInBounds

(***************************************************************************)
(* The five meshes the object library generates (core/scene/primitives.rs).*)
(*                                                                         *)
(* A mesh is a sequence of vertices and a sequence of index triples into   *)
(* it (from 0, as in the code).  A vertex is the PLACE it lies at: a step  *)
(* around the axis, a step around the tube, a height; places that coincide *)
(* in exact arithmetic (the seam of a ring, the poles of the sphere, the   *)
(* apex of the cone) are equal.  The code computes them in f32, where      *)
(* sin(2*pi) is 1.7e-7: coincidence up to rounding is what is modelled.    *)
(***************************************************************************)
NextStep(i, segs) == (i + 1) % segs

\* the steps 0 .. n - 1 in order
Steps(n) == [i \in 1 .. n |-> i - 1]

\* one list of triples per step, in order
Emit(n, T(_)) == FoldLeft(LAMBDA acc, i : acc \o T(i), << >>, Steps(n))

\* ring vertices at a height; `closing` repeats the first one at the end
Ring(segs, z, closing) == [k \in 1 .. segs + closing |-> <<"rim", (k - 1) % segs, z>>]

\* a fan around a centre vertex; the bottom one is wound the other way
Cap(base, segs, down) ==
  Emit(segs, LAMBDA i : LET a == base + 1 + i
                            b == base + 1 + NextStep(i, segs)
                        IN  << <<base, IF down THEN b ELSE a, IF down THEN a ELSE b>> >>)

Cylinder(segs) ==
  LET side == Emit(segs + 1, LAMBDA i : << <<"rim", i % segs, 0>>, <<"rim", i % segs, 1>> >>)
      top  == Len(side)
      bot  == top + 1 + segs
  IN  [vertices |-> side \o << <<"axis", 1>> >> \o Ring(segs, 1, 0)
                         \o << <<"axis", 0>> >> \o Ring(segs, 0, 0),
       indices  |-> Emit(segs, LAMBDA i : LET b == 2 * i IN
                              << <<b, b + 2, b + 3>>, <<b, b + 3, b + 1>> >>)
                    \o Cap(top, segs, FALSE) \o Cap(bot, segs, TRUE)]

Cone(segs) ==
  LET apex == segs + 1
      cap  == apex + segs
  IN  [vertices |-> Ring(segs, 0, 1) \o [k \in 1 .. segs |-> <<"axis", 1>>]
                         \o << <<"axis", 0>> >> \o Ring(segs, 0, 0),
       indices  |-> Emit(segs, LAMBDA i : << <<i, i + 1, apex + i>> >>) \o Cap(cap, segs, TRUE)]

\* two triangles per cell of a grid of rows + 1 by cols + 1 vertices
GridFaces(rows, cols) ==
  Emit(rows * cols, LAMBDA k : LET a == (k \div cols) * (cols + 1) + (k % cols)
                                   c == a + cols + 1
                               IN  << <<a, c, c + 1>>, <<a, c + 1, a + 1>> >>)

GridVertices(rows, cols, At(_, _)) ==
  [k \in 1 .. (rows + 1) * (cols + 1) |-> At((k - 1) \div (cols + 1), (k - 1) % (cols + 1))]

\* latitude 0 and the last one are the poles, whatever the longitude
Sphere(segs) ==
  [vertices |-> GridVertices(segs, 2 * segs, LAMBDA lat, lon :
                  IF lat \in {0, segs} THEN <<"pole", lat>>
                                       ELSE <<"rim", lon % (2 * segs), lat>>),
   indices  |-> GridFaces(segs, 2 * segs)]

Torus(segs) ==
  [vertices |-> GridVertices(segs, segs, LAMBDA i, j : <<"tube", i % segs, j % segs>>),
   indices  |-> GridFaces(segs, segs)]

\* each face owns its four corners, given counter-clockwise from outside
CubeFaces ==
  << << <<-1, -1, 1>>, <<1, -1, 1>>, <<1, 1, 1>>, <<-1, 1, 1>> >>,
     << <<-1, 1, -1>>, <<1, 1, -1>>, <<1, -1, -1>>, <<-1, -1, -1>> >>,
     << <<1, -1, -1>>, <<1, 1, -1>>, <<1, 1, 1>>, <<1, -1, 1>> >>,
     << <<-1, 1, -1>>, <<-1, -1, -1>>, <<-1, -1, 1>>, <<-1, 1, 1>> >>,
     << <<1, 1, -1>>, <<-1, 1, -1>>, <<-1, 1, 1>>, <<1, 1, 1>> >>,
     << <<-1, -1, -1>>, <<1, -1, -1>>, <<1, -1, 1>>, <<-1, -1, 1>> >> >>

Cube ==
  [vertices |-> FlattenSeq(CubeFaces),
   indices  |-> Emit(6, LAMBDA f : LET b == 4 * f IN
                       << <<b, b + 1, b + 2>>, <<b, b + 2, b + 3>> >>)]

Kinds == {"Cube", "Cylinder", "Sphere", "Cone", "Torus"}

\* fewer than three segments are raised to three
Generate(kind, segments) ==
  LET n == Max({segments, 3})
  IN  CASE kind = "Cube"     -> Cube
        [] kind = "Cylinder" -> Cylinder(n)
        [] kind = "Sphere"   -> Sphere(n)
        [] kind = "Cone"     -> Cone(n)
        [] kind = "Torus"    -> Torus(n)

(***************************************************************************)
(* What a mesh handed to the slicing engine has to be.                     *)
(***************************************************************************)
Place(mesh, i) == mesh.vertices[i + 1]

\* the triangles, as places; the ones at a pole that have shrunk to a line left out
Triangles(mesh) ==
  LET all == [k \in 1 .. Len(mesh.indices) |->
                [c \in 1 .. 3 |-> Place(mesh, mesh.indices[k][c])]]
  IN  SelectSeq(all, LAMBDA t : Cardinality({t[1], t[2], t[3]}) = 3)

\* the directed sides of the triangles, one entry per triangle and corner
Sides(mesh) == LET ts == Triangles(mesh) IN
  [k \in 1 .. 3 * Len(ts) |->
     LET t == ts[((k - 1) \div 3) + 1]
         c == ((k - 1) % 3) + 1
     IN  <<t[c], t[(c % 3) + 1]>>]

IndicesInRange(mesh) ==
  \A k \in 1 .. Len(mesh.indices) : \A c \in 1 .. 3 :
    mesh.indices[k][c] \in 0 .. Len(mesh.vertices) - 1

ClosedSurface(mesh) == LET s == Sides(mesh) IN
  /\ IsInjective(s)
  /\ \A k \in 1 .. Len(s) : Contains(s, <<s[k][2], s[k][1]>>)

\* a place at four segments: a quarter turn per step has integer coordinates; at the six
\* longitudes of a sphere of three segments, those of a convex hexagon will do
Turn(i) == <<(<<1, 0, -1, 0>>)[i + 1], (<<0, 1, 0, -1>>)[i + 1]>>

Coordinates(p) ==
  CASE p[1] = "axis" -> <<0, 0, p[2]>>
    [] p[1] = "rim"  -> Turn(p[2]) \o <<p[3]>>
    [] p[1] = "tube" -> LET r == 2 + Turn(p[3])[1]
                        IN  <<r * Turn(p[2])[1], r * Turn(p[2])[2], Turn(p[3])[2]>>

\* six times the volume the triangles enclose: positive when they face outward
SixVolumes(mesh, At(_)) ==
  FoldLeft(LAMBDA v, t :
             LET a == At(t[1])
                 b == At(t[2])
                 c == At(t[3])
             IN  v + a[1] * (b[2] * c[3] - b[3] * c[2])
                   - a[2] * (b[1] * c[3] - b[3] * c[1])
                   + a[3] * (b[1] * c[2] - b[2] * c[1]),
           0, Triangles(mesh))

OnTheSphere(p) ==
  IF p[1] = "pole" THEN <<0, 0, 3 - 2 * p[2]>>
  ELSE (<< <<2, 0>>, <<1, 2>>, <<-1, 2>>, <<-2, 0>>, <<-1, -2>>, <<1, -2>> >>)[p[2] + 1]
         \o <<3 - 2 * p[3]>>

primitiveVars == <<primitive>>

PrimitiveInit ==
  \E kind \in Kinds, n \in 0 .. MaxSegments :
    primitive = <<[kind |-> kind, segments |-> n, mesh |-> Generate(kind, n)]>>

(* Every shape, at every number of segments, is a closed surface: each side of a   *)
(* triangle is walked once, and once the other way by its neighbour.  Seams that   *)
(* are repeated, wrapped or split (core/scene/primitives.rs) must meet again: the  *)
(* tests there only check that the indices are in range.                           *)
PrimitiveIsClosed == \A p \in Range(primitive) : IndicesInRange(p.mesh) /\ ClosedSurface(p.mesh)

(* Every shape is wound so that its triangles face outward, caps, inner side of    *)
(* the torus and poles included: the engine takes a surface wound the other way    *)
(* for a hole.                                                                     *)
PrimitiveFacesOut ==
  \A p \in Range(primitive) :
    CASE p.kind = "Sphere" -> p.segments > 3 \/ SixVolumes(p.mesh, OnTheSphere) > 0
      [] p.kind = "Cube"   -> SixVolumes(p.mesh, LAMBDA v : v) = 48
      [] OTHER             -> p.segments # 4 \/ SixVolumes(p.mesh, Coordinates) > 0

(* A generated mesh is a solid: closed, and facing outwards (primitives.rs:103).    *)
PrimitiveIsSolid == PrimitiveIsClosed /\ PrimitiveFacesOut
=============================================================================
