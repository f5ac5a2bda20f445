---------------------------------- MODULE Cascade ----------------------------------
(***************************************************************************)
(* The rule cascade (core/cascade): how a document becomes rules, which    *)
(* rule wins a key in a context, and how the override tiers go on top.     *)
(*                                                                         *)
(* A rule is [when, set, src, important]: when maps a dimension to the     *)
(* values it accepts, set maps an option to its value.  A dimension is the *)
(* sequence of its names, <<"plate", "type">>.  A value is the sequence of *)
(* its vector elements; a scalar is a sequence of length one.              *)
(*                                                                         *)
(* A document is the sequence of its blocks in the order they are written: *)
(* [kind |-> "leaves", set], [kind |-> "section", path, set] and           *)
(* [kind |-> "rule", when, set, extra], extra being the keys of a [[rule]] *)
(* that are neither when nor set.                                          *)
(***************************************************************************)
EXTENDS Integers, Sequences, FiniteSets, SequencesExt, TLC

\* the most conditions a rule has
MaxDimensions == 3

Empty == [k \in {} |-> <<>>]
Rule(when, set, src) == [when |-> when, set |-> set, src |-> src, important |-> FALSE]
Override(set, src) == [Rule(Empty, set, src) EXCEPT !.important = TRUE]
\* f overridden by g
Under(f, g) == [k \in DOMAIN f \cup DOMAIN g |-> IF k \in DOMAIN g THEN g[k] ELSE f[k]]

(***************************************************************************)
(* Loading.  The parsed document is a tree, so blocks are visited by their *)
(* first name, in the order of the tree's keys (Keys), not of the file.    *)
(***************************************************************************)
Root(b) == IF b.kind = "section" THEN b.path[1] ELSE "rule"

\* A section needs a dimension and a value; a rule only when and set.
Malformed(b) == \/ b.kind = "section" /\ Len(b.path) < 2
                \/ b.kind = "rule" /\ b.extra # {}

\* walk_section: all but the last name are the dimension, the last its value;
\* a section below one that has leaves is not a rule but more of its keys.
SectionRule(b, src) ==
    Rule([d \in {Front(b.path)} |-> {Last(b.path)}], b.set, src)
Swallows(a, b) == a.kind = "section" /\ b.kind = "section" /\ a # b /\ IsPrefix(a.path, b.path)

\* parse_cascade_str; a malformed block fails the whole document.
Heads(doc) == SelectSeq(doc, LAMBDA b : /\ b.kind # "leaves"
                                        /\ ~\E i \in DOMAIN doc : Swallows(doc[i], b))
ParseFails(doc) == \E i \in DOMAIN Heads(doc) : Malformed(Heads(doc)[i])
ParseCascade(doc, src, Keys) ==
    LET leaves == SelectSeq(doc, LAMBDA b : b.kind = "leaves")
        under(name) == SelectSeq(Heads(doc), LAMBDA b : Root(b) = name)
        inTreeOrder == FlattenSeq([n \in DOMAIN Keys |-> under(Keys[n])])
        rule(b) == IF b.kind = "section" THEN SectionRule(b, src) ELSE Rule(b.when, b.set, src)
    IN [n \in DOMAIN leaves |-> Rule(Empty, leaves[n].set, src)]
       \o [n \in DOMAIN inTreeOrder |-> rule(inTreeOrder[n])]

(***************************************************************************)
(* Resolving.                                                              *)
(***************************************************************************)
\* rule_matches: a dimension the context does not have matches nothing.
Matches(r, ctx) == \A d \in DOMAIN r.when : d \in DOMAIN ctx /\ ctx[d] \in r.when[d]

Specificity(r) == Cardinality(DOMAIN r.when)

\* The resolver's order: important rules after the others, then by specificity.
Rank(r) == Specificity(r) + 1 + (IF r.important THEN MaxDimensions + 1 ELSE 0)

\* resolve: the matching rules are applied in that order, each over the last;
\* rules of the same rank in the order they are written.
Apply(out, r) ==
    Under(out, [k \in DOMAIN r.set |->
        [value |-> r.set[k], rule |-> r.src, fallback |-> <<>>, tier |-> "",
         matching |-> Append(IF k \in DOMAIN out THEN out[k].matching ELSE <<>>, r.src)]])
Resolve(rules, ctx) ==
    LET ranked(n) == SelectSeq(rules, LAMBDA r : Rank(r) = n /\ Matches(r, ctx))
    IN FoldLeft(Apply, Empty, FlattenSeq([n \in 1..(2 * MaxDimensions + 2) |-> ranked(n)]))

\* mutant: the fallback is what the tier below had
ApplyTierForgets(out, name, entries) ==
    Under(out, [k \in DOMAIN entries |->
        IF k \in DOMAIN out
        THEN [out[k] EXCEPT !.value = entries[k], !.tier = name, !.fallback = out[k].value]
        ELSE [value |-> entries[k], rule |-> name, fallback |-> <<>>, tier |-> name,
              matching |-> <<>>]])

\* apply_tier: the fallback is recorded by the first tier that overrides.
ApplyTier(out, name, entries) ==
    Under(out, [k \in DOMAIN entries |->
        IF k \in DOMAIN out
        THEN [out[k] EXCEPT !.value = entries[k], !.tier = name,
                            !.fallback = IF out[k].tier = "" THEN out[k].value ELSE @]
        ELSE [value |-> entries[k], rule |-> name, fallback |-> <<>>, tier |-> name,
              matching |-> <<>>]])

\* resolve_with_overrides: user, then project, then the object's.
ResolveWith(rules, user, project, object, ctx) ==
    ApplyTier(ApplyTier(ApplyTier(Resolve(rules, ctx), "user", user), "project", project),
              "object", object)

\* to_resolved, kept to the effective values
Values(resolved) == [k \in DOMAIN resolved |-> resolved[k].value]
=====================================================================================
