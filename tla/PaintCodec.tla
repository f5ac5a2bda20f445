------------------------------------ MODULE PaintCodec ------------------------------------
(***************************************************************************)
(* The paint of a mesh as a 3MF file spells it (threemf/paint.rs): one hex  *)
(* string per triangle, the engine's split tree of that triangle written    *)
(* from its last digit to its first.  The viewport shows one state per      *)
(* triangle, the most common of its leaves; the binding of materials to     *)
(* slots asks for every state of every leaf.  State 0 is no paint, N the    *)
(* material N.  A digit stands for its four bits, which are appended and    *)
(* read in the same order.                                                 *)
(***************************************************************************)
EXTENDS Integers, Sequences, SequencesExt, FiniteSets, FiniteSetsExt

CONSTANTS
    Trees,          \* split trees: [split, state, kids]; split 0 is a leaf
    MaxTriangles

VARIABLE facets     \* the triangles read: [tree, hex]; hex may be damaged

codecVars == facets
Junk == 16          \* a character that is no hex digit

(***************************************************************************)
(* The engine's TriangleSelector::serialize and get_triangle_as_string.     *)
(***************************************************************************)
RECURSIVE Digits(_)
Digits(t) ==
    IF t.split > 0 THEN FoldLeft(LAMBDA s, kid : s \o Digits(kid), <<t.split>>, t.kids)
    ELSE IF t.state < 3 THEN <<4 * t.state>> ELSE <<12, t.state - 3>>
Spelled(t) == Reverse(Digits(t))

RECURSIVE LeavesOf(_)
LeavesOf(t) ==
    IF t.split = 0 THEN <<t.state>> ELSE FoldLeft(LAMBDA s, kid : s \o LeavesOf(kid), <<>>, t.kids)

(***************************************************************************)
(* paint.rs                                                                *)
(***************************************************************************)
\* hex_to_bitstream: from the end, up to the first character that is no digit.
Stream(hex) ==
    LET back == Reverse(hex)
        bad == {i \in DOMAIN back : back[i] = Junk}
    IN IF bad = {} THEN back ELSE SubSeq(back, 1, Min(bad) - 1)

\* collect_leaf_states: one node; a stream that ends early ends the walk.
RECURSIVE Collect(_, _)
Collect(digits, at) ==
    IF at.pos > Len(digits) THEN at
    ELSE LET code == digits[at.pos]
             next == [at EXCEPT !.pos = @ + 1]
         IN IF code % 4 > 0
            THEN FoldLeft(LAMBDA a, i : Collect(digits, a), next, [i \in 1..(code % 4) + 1 |-> i])
            ELSE IF code < 12 THEN [next EXCEPT !.leaves = Append(@, code \div 4)]
            ELSE IF next.pos > Len(digits) THEN next
            ELSE [pos |-> next.pos + 1, leaves |-> Append(at.leaves, digits[next.pos] + 3)]
LeafStates(hex) == Collect(Stream(hex), [pos |-> 1, leaves |-> <<>>]).leaves

Count(states, n) == Cardinality({i \in DOMAIN states : states[i] = n})

\* dominant_state: the most common, the higher of two as common; 0 for none.
DominantState(hex) ==
    LET states == LeafStates(hex)
        most == {n \in Range(states) : \A m \in Range(states) : Count(states, n) >= Count(states, m)}
    IN Max({0} \cup most)

\* decode_dominant_states: {} for the None of a mesh that shows no paint.
DominantStates(hexes) ==
    LET states == [i \in DOMAIN hexes |-> DominantState(hexes[i])]
    IN IF \E i \in DOMAIN states : states[i] # 0 THEN {states} ELSE {}

\* referenced_states
ReferencedStates(hexes) == UNION {Range(LeafStates(hexes[i])) : i \in DOMAIN hexes} \ {0}

CodecInit == facets = <<>>
\* A triangle is read: its string whole, without its first characters, or
\* with a character replaced.
ReadFacet(t) ==
    LET hex == Spelled(t) IN
    /\ Len(facets) < MaxTriangles
    /\ \E damaged \in {hex} \cup {SubSeq(hex, i, Len(hex)) : i \in 2..Len(hex) + 1}
                      \cup {[hex EXCEPT ![i] = Junk] : i \in DOMAIN hex} :
          facets' = Append(facets, [tree |-> t, hex |-> damaged])
CodecNext == \E t \in Trees : ReadFacet(t)

(***************************************************************************)
(* Properties.                                                             *)
(***************************************************************************)
(* Every material that a leaf of the paint names, and no other, is found to be in   *)
(* use; of a damaged string only what it still says.  So a material that is painted *)
(* on is given a slot, however small the place (paint.rs:42).                      *)
PaintIsFound ==
    LET hexes == [i \in DOMAIN facets |-> facets[i].hex]
        named == UNION {Range(LeavesOf(facets[i].tree)) : i \in DOMAIN facets} \ {0}
        whole == \A i \in DOMAIN facets : facets[i].hex = Spelled(facets[i].tree)
    IN ReferencedStates(hexes) \subseteq named /\ (whole => ReferencedStates(hexes) = named)

(* What is shown of a triangle is one of its leaves' states that no other outnumbers *)
(* and, of those, the painted one; a mesh is shown in plain only if paint leads      *)
(* nowhere; and what is shown is always of a material in use (paint.rs:66).          *)
PaintIsShown ==
    LET hexes == [i \in DOMAIN facets |-> facets[i].hex] IN
    /\ \A i \in DOMAIN facets :
          LET leaves == LeavesOf(facets[i].tree)
              shown == DominantState(hexes[i])
          IN hexes[i] = Spelled(facets[i].tree) =>
                /\ shown \in Range(leaves)
                /\ \A n \in Range(leaves) :
                      \/ Count(leaves, n) < Count(leaves, shown)
                      \/ (Count(leaves, n) = Count(leaves, shown) /\ n <= shown)
    /\ \A states \in DominantStates(hexes) :
          Range(states) \ {0} # {} /\ Range(states) \ {0} \subseteq ReferencedStates(hexes)
===========================================================================================
