--------------------------------- MODULE GcodeLines ---------------------------------
(***************************************************************************)
(* The typed lines of a G-code file (core/gcode): the streaming parser, one *)
(* source line at a time, and the serializer.  A source line is a record    *)
(* with its kind k; a parameter a move may leave out is a set with at most  *)
(* one element.  A typed line keeps the number of the source line it came   *)
(* from, which stands for its raw text.                                    *)
(***************************************************************************)
EXTENDS Integers, Sequences, SequencesExt, FiniteSets

None == {}
Or(option, default) == IF option = None THEN default ELSE CHOOSE v \in option : TRUE

Synthetic(line) == line.k = "layer_change"

\* classify_line.  A layer marker is followed by a line of the parser's own,
\* numbered by the markers seen so far, at the last height a comment gave; a
\* move with a number that cannot be read is an error.
Classify(p, s, i) ==
    CASE s.k = "bad" -> <<>>
      [] s.k = "layer" -> <<[k |-> "comment", of |-> s, raw |-> i],
                            [k |-> "layer_change", index |-> p.next, z |-> p.z, raw |-> i]>>
      [] s.k \in {"type", "width", "z"} -> <<[k |-> "comment", of |-> s, raw |-> i]>>
      [] OTHER -> <<[k |-> s.k, of |-> s, raw |-> i]>>

\* What the parser carries over a line: next_layer_index and last_seen_z.
AfterLine(p, s) ==
    [next |-> IF s.k = "layer" THEN p.next + 1 ELSE p.next,
     z |-> IF s.k = "z" THEN {s.v} ELSE p.z]

ParserStart == [next |-> 0, z |-> None]

\* LineIter over a whole text: parse_str keeps what is not an error.
ParseAll(text) ==
    LET parsed[n \in 0..Len(text)] ==
            IF n = 0 THEN [p |-> ParserStart, lines |-> <<>>]
            ELSE [p |-> AfterLine(parsed[n - 1].p, text[n]),
                  lines |-> parsed[n - 1].lines \o Classify(parsed[n - 1].p, text[n], n)]
    IN parsed[Len(text)]

\* The numbers of a set, the smallest first.
InOrder(S) == [r \in 1..Cardinality(S) |-> CHOOSE i \in S : Cardinality({j \in S : j < i}) = r - 1]

\* write_lines: every line as it was read, the parser's own left out.
Kept(lines) == InOrder({i \in DOMAIN lines : ~Synthetic(lines[i])})
Written(lines) == [i \in DOMAIN Kept(lines) |-> lines[Kept(lines)[i]].raw]

\* parse_with_feature_context: the feature a move is printed as.
FeatureAt(lines, i) ==
    LET marks == {j \in 1..i : lines[j].k = "comment" /\ lines[j].of.k = "type"}
    IN IF marks = {} THEN None ELSE {lines[CHOOSE j \in marks : \A l \in marks : l <= j].of.v}
=====================================================================================
