-------------------------------- MODULE GcodePreview --------------------------------
(***************************************************************************)
(* The preview of a G-code file (core/preview): the walk that turns typed   *)
(* lines into segments and layers, the statistics over them, and what the   *)
(* renderer and the page take from both.  The file is read one line at a    *)
(* time, so that every file within the bounds is a state; the whole walk    *)
(* ends with Closed.  A position is <<x, y, z>> and a length is the sum of  *)
(* the distances on the axes; an arc is drawn as two edges of one length.   *)
(***************************************************************************)
EXTENDS GcodeLines, FiniteSetsExt

CONSTANTS
    SourceLines,    \* the lines a file is made of
    Preambles,      \* what a file starts with
    Room            \* how many lines follow

VARIABLES
    text,           \* the source lines read
    parser,         \* LineIter
    lines,          \* the typed lines
    walk,           \* WalkState
    geom,           \* PreviewGeometry
    room

previewVars == <<text, parser, lines, walk, geom, room>>

Abs(n) == IF n < 0 THEN -n ELSE n
Euclidean(a, b) == Abs(a[1] - b[1]) + Abs(a[2] - b[2]) + Abs(a[3] - b[3])

\* arc_polyline: the edges of a move; equal ends of an arc are a full turn.
ArcPolyline(from, to, cmd) ==
    IF cmd = "line" THEN <<from, to>>
    ELSE <<from, <<(from[1] + to[1]) \div 2, IF from = to THEN 2 ELSE 1, from[3]>>, to>>
Edges(points) == [i \in 1..(Len(points) - 1) |-> <<points[i], points[i + 1]>>]
Total(f) == FoldLeft(LAMBDA a, b : a + b, 0, f)
Length(segment) == Euclidean(segment.from, segment.to)

WalkStart ==
    [pos |-> <<0, 0, 0>>, e |-> 0, f |-> 0, tool |-> 0, feature |-> "Travel",
     layer |-> 0, z |-> 0, width |-> 0, relative |-> FALSE]
GeomStart == [extrusions |-> <<>>, travels |-> <<>>, retractions |-> <<>>, ranges |-> <<>>, open |-> {}]

\* The open range, closed at the segments there are.
CloseRange(g) ==
    [g EXCEPT !.ranges = @ \o FoldSet(LAMBDA r, s : Append(s, [r EXCEPT !.end = Len(g.extrusions)]),
                                      <<>>, g.open),
              !.open = {}]
Closed(g) == CloseRange(g)

\* open_or_continue_layer
OpenOrContinue(g, w) ==
    IF \E r \in g.open : r.layer = w.layer THEN g
    ELSE [CloseRange(g) EXCEPT
              !.open = {[layer |-> w.layer, z |-> w.z, start |-> Len(g.extrusions), end |-> 0]}]

\* mutant: the increment ignores the mode
DeltaAbsolute(w, m) == Or(m.e, w.e) - w.e

\* The filament a move asks for: the increment itself, or the way to the target.
Delta(w, m) == IF w.relative THEN Or(m.e, 0) ELSE Or(m.e, w.e) - w.e

\* SegmentSet::push: all that is known of an edge where it was printed.
Segment(w, edge, e, feature, i) ==
    [from |-> edge[1], to |-> edge[2], layer |-> w.layer, feature |-> feature, speed |-> w.f,
     e |-> e, tool |-> w.tool, line |-> i, width |-> IF w.width = 0 THEN 1 ELSE w.width]

\* The Move arm of build_preview: extrusion, retraction, travel, or nothing.
WalkMove(wg, m, i) ==
    LET w == [wg.w EXCEPT !.f = Or(m.f, @)]
        target == <<Or(m.x, w.pos[1]), w.pos[2], Or(m.z, w.pos[3])>>
        delta == Delta(w, m)
        edges == Edges(ArcPolyline(w.pos, target, m.cmd))
        path == Total([j \in DOMAIN edges |-> Euclidean(edges[j][1], edges[j][2])])
        pieces(feature, e) ==
            [j \in DOMAIN edges |->
                Segment(w, edges[j], (e * Euclidean(edges[j][1], edges[j][2])) \div path, feature, i)]
        retract == IF delta < 0 THEN <<[at |-> w.pos, layer |-> w.layer, amount |-> -delta]>> ELSE <<>>
        g == wg.g
    IN [w |-> [w EXCEPT !.pos = target, !.e = IF w.relative THEN @ + delta ELSE Or(m.e, @)],
        g |-> IF path > 0 /\ delta > 0
              THEN [OpenOrContinue(g, w) EXCEPT !.extrusions = @ \o pieces(w.feature, delta)]
              ELSE [g EXCEPT !.retractions = @ \o retract,
                             !.travels = IF path > 0 THEN @ \o pieces("Travel", 0) ELSE @]]

\* The LayerChange arm; the next range is opened by its first extrusion.
WalkLayer(wg, line) ==
    [w |-> [wg.w EXCEPT !.layer = line.index, !.z = Or(line.z, @), !.pos[3] = Or(line.z, @)],
     g |-> CloseRange(wg.g)]

\* build_preview, one line.
Walked(wg, line, i) ==
    CASE line.k = "move" -> WalkMove(wg, line.of, i)
      [] line.k = "layer_change" -> WalkLayer(wg, line)
      [] line.k = "tool" -> [wg EXCEPT !.w.tool = line.of.v]
      [] line.k = "comment" /\ line.of.k = "type" -> [wg EXCEPT !.w.feature = line.of.v]
      [] line.k = "comment" /\ line.of.k = "z" -> [wg EXCEPT !.w.z = line.of.v, !.w.pos[3] = line.of.v]
      [] line.k = "comment" /\ line.of.k = "width" -> [wg EXCEPT !.w.width = line.of.v]
      [] line.k = "M83" -> [wg EXCEPT !.w.relative = TRUE]
      [] line.k = "M82" -> [wg EXCEPT !.w.relative = FALSE]
      [] line.k = "G92" -> [wg EXCEPT !.w.e = line.of.v]
      [] OTHER -> wg

WalkFrom(wg, ls, at) ==
    FoldLeftDomain(LAMBDA acc, i : IF i <= at THEN acc ELSE Walked(acc, ls[i], i), wg, ls)

PreviewInit ==
    /\ text \in Preambles /\ room = Room
    /\ LET parsed == ParseAll(text)
           start == WalkFrom([w |-> WalkStart, g |-> GeomStart], parsed.lines, 0)
       IN parser = parsed.p /\ lines = parsed.lines /\ walk = start.w /\ geom = start.g

\* The next line of the file.
ReadLine(s) ==
    /\ room > 0 /\ room' = room - 1
    /\ text' = Append(text, s)
    /\ parser' = AfterLine(parser, s)
    /\ lines' = lines \o Classify(parser, s, Len(text) + 1)
    /\ LET next == WalkFrom([w |-> walk, g |-> geom], lines', Len(lines))
       IN walk' = next.w /\ geom' = next.g

PreviewNext == \E s \in SourceLines : ReadLine(s)

(***************************************************************************)
(* Statistics (stats.rs)                                                   *)
(***************************************************************************)
Duration(segment) == IF segment.speed = 0 THEN 0 ELSE Length(segment) \div segment.speed
Durations(segments) == Total([i \in DOMAIN segments |-> Duration(segments[i])])

\* bucket_travels_by_layer
TravelsOf(g, layer) == SelectSeq(g.travels, LAMBDA s : s.layer = layer)

\* compute_layer_stats: of every range, its segments and its layer's travels.
LayerStats(g) ==
    [i \in DOMAIN g.ranges |->
        LET own == SubSeq(g.extrusions, g.ranges[i].start + 1, g.ranges[i].end)
        IN [layer |-> g.ranges[i].layer,
            seconds |-> Durations(own) + Durations(TravelsOf(g, g.ranges[i].layer)),
            filament |-> [t \in {own[j].tool : j \in DOMAIN own} |->
                            Total([j \in DOMAIN own |-> IF own[j].tool = t THEN own[j].e ELSE 0])]]]

\* compute_job_stats
JobStats(stats) ==
    LET tools == UNION {DOMAIN stats[i].filament : i \in DOMAIN stats}
    IN [seconds |-> Total([i \in DOMAIN stats |-> stats[i].seconds]),
        layers |-> Len(stats),
        filament |-> [t \in tools |->
                        Total([i \in DOMAIN stats |->
                                 IF t \in DOMAIN stats[i].filament THEN stats[i].filament[t] ELSE 0])]]

\* layer_time_map: by layer number, the last range of a number stands.
LayerTimeMap(stats) ==
    [l \in 0..Max({0} \cup {stats[i].layer : i \in DOMAIN stats}) |->
        LET of == {i \in DOMAIN stats : stats[i].layer = l}
        IN IF of = {} THEN 0 ELSE stats[Max(of)].seconds]

\* ToolpathRenderer::ensure: the renderer's layer times, by the ranges' position.
LayerTimes(stats) == [l \in 0..(Len(stats) - 1) |-> stats[l + 1].seconds]

\* register_preview's layer_count as the page's slider takes it: defaultWindow
\* shows the layers from 0 up to layer_count - 1.
DefaultWindow(stats) == <<0, IF Len(stats) = 0 THEN 0 ELSE Len(stats) - 1>>
Shown(segment, window) == segment.layer >= window[1] /\ segment.layer <= window[2]

(***************************************************************************)
(* The colours of the segments (preview/colors.rs).  A colour of a ramp is  *)
(* the place between two of its control points, [stop, part, of]: the stop  *)
(* below, and part/of of the way to the next.  The Flow mode is the Speed   *)
(* mode over another column of the segments.                               *)
(***************************************************************************)
Stops == 5              \* control points of viridis and of jet
ToolCycle == 8          \* colours of tools

\* scalar_range: from 0 to 1 if there is nothing to tell apart.
ScalarRange(values) ==
    IF values = {} \/ Min(values) = Max(values) THEN [lo |-> 0, hi |-> 1]
    ELSE [lo |-> Min(values), hi |-> Max(values)]

\* palette_lerp, at the place num/den of the ramp
PaletteLerp(num, den) ==
    LET stop == Min({(num * (Stops - 1)) \div den, Stops - 2})
    IN [stop |-> stop, part |-> num * (Stops - 1) - stop * den, of |-> den]

\* continuous_color: a value beyond the range has the colour of its end.
ContinuousColor(v, r) ==
    LET above == v - r.lo
        span == r.hi - r.lo
    IN PaletteLerp(IF above < 0 THEN 0 ELSE IF above > span THEN span ELSE above, span)

\* feature_color: skirt, travel and what is not known are of one grey.
FeatureColor(f) == IF f \in {"Skirt", "Brim", "Travel", "Other"} THEN "grey" ELSE f
ToolColor(t) == t % ToolCycle

\* The LayerTime mode's value: the layer's time, or its number if it has none.
LayerValue(s, times) == IF s.layer \in DOMAIN times THEN times[s.layer] ELSE s.layer

\* encode_colors, with the times the renderer passes (ext_colors)
EncodeColors(segments, mode, times) ==
    LET speeds == ScalarRange({segments[i].speed : i \in DOMAIN segments})
        seconds == ScalarRange({times[l] : l \in DOMAIN times})
    IN [i \in DOMAIN segments |->
          CASE mode = "feature"    -> FeatureColor(segments[i].feature)
            [] mode = "tool"       -> ToolColor(segments[i].tool)
            [] mode = "speed"      -> ContinuousColor(segments[i].speed, speeds)
            [] mode = "layer_time" -> ContinuousColor(LayerValue(segments[i], times), seconds)]

(***************************************************************************)
(* Properties.                                                             *)
(***************************************************************************)
PreviewTypeOK ==
    /\ parser.next \in Nat /\ room \in 0..Room
    /\ Len(lines) = Len(text) + Cardinality({i \in DOMAIN text : text[i].k = "layer"})
                              - Cardinality({i \in DOMAIN text : text[i].k = "bad"})
    /\ parser.next = Cardinality({i \in DOMAIN lines : Synthetic(lines[i])})

\* What is parsed and written again is the file, but for the moves whose
\* numbers cannot be read: parse_str drops them, so a plugin's hook that
\* changes nothing still takes them out of the file (orchestrator.rs:345).
RoundTrip == Written(lines) = SelectSeq([i \in DOMAIN text |-> i], LAMBDA i : text[i].k # "bad")

\* The line shown for the segment under the cursor is the one that printed it,
\* though the typed lines are fewer than the file's (malformed moves) and more
\* (layer changes), and the feature the parser gives that line is the segment's.
DetailIsItsSource ==
    \A i \in DOMAIN geom.extrusions :
        LET s == geom.extrusions[i] IN
        /\ s.line \in DOMAIN lines /\ lines[s.line].k = "move"
        /\ \E j \in DOMAIN geom.extrusions :
              /\ geom.extrusions[j].line = s.line
              /\ geom.extrusions[j].to[1] = Or(lines[s.line].of.x, geom.extrusions[j].to[1])
        /\ Or(FeatureAt(lines, s.line), "Travel") = s.feature

\* The ranges cut the extrusions into consecutive runs, each of one layer, in
\* the order of the file: what the slider, the statistics and the colours rely on.
RangesPartition ==
    LET g == Closed(geom) IN
    /\ \A i \in DOMAIN g.ranges :
          /\ g.ranges[i].start = IF i = 1 THEN 0 ELSE g.ranges[i - 1].end
          /\ g.ranges[i].start < g.ranges[i].end
          /\ \A j \in (g.ranges[i].start + 1)..g.ranges[i].end :
                g.extrusions[j].layer = g.ranges[i].layer
          /\ i > 1 => g.ranges[i - 1].layer <= g.ranges[i].layer
    /\ Len(g.extrusions) = IF g.ranges = <<>> THEN 0 ELSE Last(g.ranges).end

\* Reading a file with absolute and relative extrusion, resets and tools: the
\* filament of each move that prints.
Printed ==
    LET step(acc, i) ==
            LET l == lines[i]
                m == l.of
                de == IF acc.rel THEN Or(m.e, 0) ELSE Or(m.e, acc.e) - acc.e
                moves == (m.x # None /\ m.x # {acc.x}) \/ m.cmd = "arc" \/ (m.z # None /\ m.z # {acc.z})
            IN CASE l.k = "move" ->
                      [acc EXCEPT !.e = @ + de, !.x = Or(m.x, @), !.z = Or(m.z, @),
                                  !.used[acc.tool] = IF moves /\ de > 0 THEN @ + de ELSE @]
                 [] l.k = "tool" -> [acc EXCEPT !.tool = m.v]
                 [] l.k = "M83" -> [acc EXCEPT !.rel = TRUE]
                 [] l.k = "M82" -> [acc EXCEPT !.rel = FALSE]
                 [] l.k = "G92" -> [acc EXCEPT !.e = m.v]
                 [] l.k = "layer_change" -> [acc EXCEPT !.z = Or(l.z, @)]
                 [] l.k = "comment" /\ m.k = "z" -> [acc EXCEPT !.z = m.v]
                 [] OTHER -> acc
    IN FoldLeftDomain(step, [e |-> 0, x |-> 0, z |-> 0, rel |-> FALSE, tool |-> 0, used |-> [t \in 0..1 |-> 0]],
                      lines).used

\* The filament the panel shows for each tool is what the file asks for, in
\* either extrusion mode, over arcs, resets and tool changes.
FilamentConserved ==
    LET used == JobStats(LayerStats(Closed(geom))).filament
        asked == Printed
    IN \A t \in DOMAIN asked :
          (IF t \in DOMAIN used THEN used[t] ELSE 0) = asked[t]

\* Every layer that was announced printed something, and nothing was printed
\* before the first: a purge before the first marker is a second layer 0, a
\* layer that prints nothing has no range.
Marked ==
    LET g == Closed(geom)
    IN \A i \in DOMAIN g.ranges : g.ranges[i].layer = i - 1
LastLayer == IF parser.next = 0 THEN 0 ELSE parser.next - 1

\* In a file whose layers all print, and print nothing before the first
\* marker, the job takes as long as its segments do: every travel is counted in
\* one layer.  (Otherwise layer 0's travels are counted twice, and those of a
\* layer that prints nothing are not counted.)
DurationIsWhole ==
    LET g == Closed(geom) IN
    Marked /\ Len(g.ranges) = LastLayer + 1 =>
        JobStats(LayerStats(g)).seconds = Durations(g.extrusions) + Durations(g.travels)

\* In such a file a layer has the same time in the renderer's colours, taken
\* by position, as in the map by number.
LayerTimesAgree ==
    LET stats == LayerStats(Closed(geom))
    IN Marked /\ stats # <<>> => LayerTimes(stats) = LayerTimeMap(stats)

\* The window a preview opens with hides no segment, if no layer before the
\* last is without a print (one that is makes the slider end below the top).
WindowShowsAll ==
    LET g == Closed(geom)
        window == DefaultWindow(LayerStats(g))
    IN Marked => \A i \in DOMAIN g.extrusions : Shown(g.extrusions[i], window)

(* The preview is the G-code: each segment from its line, each in one layer, with   *)
(* nothing extruded, timed or shown twice or not at all, and the lines are written  *)
(* back as they were read (preview/build.rs:107, gcode/serializer.rs:55).           *)
PreviewIsWhole ==
  /\ PreviewTypeOK /\ RoundTrip /\ DetailIsItsSource /\ RangesPartition /\ FilamentConserved
  /\ DurationIsWhole /\ LayerTimesAgree /\ WindowShowsAll

NotAbove(a, b) == a.stop < b.stop \/ (a.stop = b.stop /\ a.part <= b.part)
OnTheRamp(c) == c.stop \in 0..(Stops - 2) /\ c.part \in 0..c.of

(* The colours of a ramp order the segments as their values do, from one end of the  *)
(* ramp to the other if any two differ; two segments of a layer have one colour by   *)
(* layer time, and in a file whose layers all print, a layer that took longer is     *)
(* never shown as the faster (colors.rs:73).                                        *)
ColorsAreOrdered ==
    LET segments == geom.extrusions
        stats == LayerStats(Closed(geom))
        bySpeed == EncodeColors(segments, "speed", LayerTimes(stats))
        byTime == EncodeColors(segments, "layer_time", LayerTimes(stats))
        true == LayerTimeMap(stats)
    IN /\ \A i, j \in DOMAIN segments :
            /\ segments[i].speed < segments[j].speed
                 => NotAbove(bySpeed[i], bySpeed[j]) /\ bySpeed[i] # bySpeed[j]
            /\ segments[i].layer = segments[j].layer => byTime[i] = byTime[j]
            /\ Marked /\ true[segments[i].layer] < true[segments[j].layer]
                 => NotAbove(byTime[i], byTime[j]) /\ byTime[i] # byTime[j]
       /\ \A i \in DOMAIN segments : OnTheRamp(bySpeed[i]) /\ OnTheRamp(byTime[i])
       /\ Cardinality({segments[i].speed : i \in DOMAIN segments}) > 1
            => /\ \E i \in DOMAIN segments : bySpeed[i].stop = 0 /\ bySpeed[i].part = 0
               /\ \E i \in DOMAIN segments : bySpeed[i].stop = Stops - 2 /\ bySpeed[i].part = bySpeed[i].of

(* The preview is the G-code, and is shown in colours that say what it is           *)
(* (preview/build.rs:107, preview/colors.rs:73).                                    *)
PreviewIsTrue == PreviewIsWhole /\ ColorsAreOrdered
=====================================================================================
