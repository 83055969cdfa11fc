------------------------------- MODULE MCPool -------------------------------
(***************************************************************************)
(* Small instances of RoxmlPool.  Each query is an xpath over a document   *)
(* of two nodes, given by the candidates its walk brings to the end of     *)
(* each path; the text of the xpath is in the comment.                     *)
(***************************************************************************)
EXTENDS RoxmlPool

CONSTANTS n1, n2, none

MCNodes == {n1, n2}

Plain(n) == [node |-> n, pred |-> none]
If(n, q) == [node |-> n, pred |-> q]
Or(visits) == [rel |-> "or", visits |-> visits]
And(visits) == [rel |-> "and", visits |-> visits]

(* Xpaths without 'and'.                                                   *)
OrPaths == [
    \* descendant walks that meet a node twice:  //b | b
    union |-> <<Or(<<Plain(n1), Plain(n2), Plain(n1)>>), Or(<<Plain(n2)>>)>>,
    \* a[b or c] : the predicate of n1 holds, the one of n2 does not
    filter |-> <<Or(<<If(n1, "some"), If(n2, "nothing"), Plain(n2)>>)>>,
    \* b or c, as a predicate
    some |-> <<Or(<<>>), Or(<<Plain(n2), Plain(n2)>>)>>,
    \* d, as a predicate, where no d exists
    nothing |-> <<Or(<<>>)>>]
OrTop == {"union", "filter"}

(* Xpaths whose predicate is an 'and' of two paths.                        *)
AndPaths == [
    \* a[b and c] : holds for n1, not for n2
    pair |-> <<Or(<<If(n1, "both"), If(n2, "half")>>)>>,
    \* a[e[b and c]] : one id more than a[b and c]
    deep |-> <<Or(<<If(n2, "pair")>>)>>,
    \* a[b and c or d] | a
    mixed |-> <<Or(<<If(n1, "halfor")>>), Or(<<Plain(n2)>>)>>,
    both |-> <<Or(<<Plain(n1), Plain(n1)>>), And(<<Plain(n2), Plain(n1)>>)>>,
    half |-> <<Or(<<Plain(n1)>>), And(<<>>)>>,
    halfor |-> <<Or(<<Plain(n2)>>), And(<<>>), Or(<<Plain(n1)>>)>>]
AndTop == {"pair", "deep", "mixed"}

(* An xpath whose predicate is an 'and' of three paths, the last empty.    *)
TripleAndPaths == [
    \* a[b and c and d]
    wide |-> <<Or(<<If(n1, "three")>>)>>,
    three |-> <<Or(<<Plain(n1)>>), And(<<Plain(n2)>>), And(<<>>)>>,
    \* a[b and c]
    pair |-> <<Or(<<If(n1, "both")>>)>>,
    both |-> <<Or(<<Plain(n1)>>), And(<<Plain(n2)>>)>>]
TripleAndTop == {"wide", "pair"}

(* Xpaths whose and-ed predicate always holds.                             *)
BothPaths == [
    \* a[b and c]
    pair |-> <<Or(<<If(n1, "both")>>)>>,
    both |-> <<Or(<<Plain(n1)>>), And(<<Plain(n2)>>)>>]
BothTop == {"pair"}

\* The only assignment that satisfies TruthAssumption.
TruthOf(paths) ==
    CHOOSE m \in [DOMAIN paths -> BOOLEAN] :
        \A q \in DOMAIN paths :
            m[q] = \E p \in 1..Len(paths[q]) :
                /\ paths[q][p].rel = "or"
                /\ \A r \in p..Len(paths[q]) :
                      (\A s \in (p + 1)..r : paths[q][s].rel = "and") =>
                          \E k \in 1..Len(paths[q][r].visits) :
                              LET v == paths[q][r].visits[k] IN
                              v.pred = none \/ m[v.pred]

OrQueries == DOMAIN OrPaths
AndQueries == DOMAIN AndPaths
TripleAndQueries == DOMAIN TripleAndPaths
BothQueries == DOMAIN BothPaths
OrTruth == TruthOf(OrPaths)
AndTruth == TruthOf(AndPaths)
TripleAndTruth == TruthOf(TripleAndPaths)
BothTruth == TruthOf(BothPaths)
=============================================================================
