------------------------------- MODULE XmlPath -------------------------------
(***************************************************************************)
(* Xpaths as XPath defines them, to compare with what libroxml answers:    *)
(* an xpath is a set of paths, PathText writes one down in several styles  *)
(* and Select is the set of nodes it stands for.                           *)
(***************************************************************************)
EXTENDS RoxmlXpath

(* A step has an axis, a node test (the symbols of a name, or one function)  *)
(* and predicates.                                                           *)
St(axis, test) == [axis |-> axis, test |-> test, preds |-> <<>>]
With(step, pred) == [step EXCEPT !.preds = <<pred>>]
Child(name) == St("child", <<name>>)
AnyBelow == St("descendant-or-self", <<"node()">>)
Rel(steps) == [abs |-> FALSE, steps |-> steps]
Abs(steps) == [abs |-> TRUE, steps |-> steps]

(* Predicates.                                                               *)
Position(op, i) == [kind |-> "position", op |-> op, value |-> i]
FromLast(i) == [kind |-> "last", minus |-> i]
FromFirst(i) == [kind |-> "first", plus |-> i]
Exists(path) == [kind |-> "exists", path |-> path]
Equals(path, op, value) == [kind |-> "compare", path |-> path, op |-> op, value |-> value]
Uri(uri) == [kind |-> "uri", value |-> uri]
LocalName(name) == [kind |-> "name", value |-> <<name>>]
Both(a, b) == [kind |-> "and", left |-> a, right |-> b]
Either(a, b) == [kind |-> "or", left |-> a, right |-> b]

-----------------------------------------------------------------------------
(* Text.  A style says whether axes are abbreviated and how values are       *)
(* quoted.                                                                   *)

OpText(op) == CASE op = "equ" -> <<"=">> [] op = "diff" -> <<"!", "=">>
                [] op = "sup" -> <<">">> [] op = "einf" -> <<"<", "=">>

Numeral(i) == <<"0", "1", "2", "3">>[i + 1]

RECURSIVE PathText(_, _)
RECURSIVE PredText(_, _)
PredText(style, p) ==
    LET quoted(value) == style.quote \o value \o style.quote
    IN CASE p.kind = "position" /\ p.op = "equ" /\ style.short -> <<Numeral(p.value)>>
         [] p.kind = "position" /\ ~(p.op = "equ" /\ style.short) ->
              <<"position()", " ">> \o OpText(p.op) \o <<" ", Numeral(p.value)>>
         [] p.kind = "last" ->
              <<"last()">> \o (IF p.minus = 0 THEN <<>> ELSE <<" ", "-", " ", Numeral(p.minus)>>)
         [] p.kind = "first" -> <<"first()", " ", "+", " ", Numeral(p.plus)>>
         [] p.kind = "exists" -> PathText(style, p.path)
         [] p.kind = "compare" ->
              PathText(style, p.path) \o <<" ">> \o OpText(p.op) \o <<" ">> \o quoted(p.value)
         [] p.kind = "uri" -> <<"namespace-uri()", " ", "=", " ">> \o quoted(p.value)
         [] p.kind = "name" -> <<"local-name()", " ", "=", " ">> \o quoted(p.value)
         [] OTHER ->
              PredText(style, p.left) \o <<" ", p.kind, " ">>
              \o PredText([style EXCEPT !.short = @ \/ p.right.kind = "compare"], p.right)

StepText(style, s) ==
    LET axis == CASE s.axis = "child" -> IF style.short THEN <<>> ELSE <<"child::">>
                  [] s.axis = "attribute" -> IF style.short THEN <<"@">> ELSE <<"attribute::">>
                  [] s.axis = "parent" -> IF style.short THEN <<"..">> ELSE <<"parent::">>
                  [] s.axis = "self" -> IF style.short THEN <<".">> ELSE <<"self::">>
                  [] OTHER -> <<s.axis \o "::">>
        test == IF s.axis \in {"parent", "self"} THEN <<>> ELSE s.test
    IN (IF s = AnyBelow THEN <<>> ELSE axis \o test)
       \o FlattenSeq([i \in 1..Len(s.preds) |->
                        <<"[">> \o PredText(style, s.preds[i]) \o <<"]">>])

PathText(style, p) ==
    FlattenSeq([i \in 1..Len(p.steps) |->
        (IF i = 1 /\ ~p.abs THEN <<>> ELSE <<"/">>) \o StepText(style, p.steps[i])])

\* A set of paths.
UnionText(style, paths) ==
    LET seq == SetToSeq(paths)
    IN FlattenSeq([i \in 1..Len(seq) |->
        (IF i = 1 THEN <<>> ELSE <<" ", "|", " ">>) \o PathText(style, seq[i])])

-----------------------------------------------------------------------------
(* Meaning, on the tree of the document c with the source t.                 *)

Ancestors(c, n) ==
    LET up[m \in Ptr] == IF m = Null THEN {} ELSE {m} \cup up[c.heap[m].prnt]
    IN up[c.heap[n].prnt]

\* The nodes of the document in document order, attributes left out.
InOrder(c) ==
    LET walk[m \in Addr] ==
            <<m>> \o FlattenSeq([i \in 1..Len(Children(c.heap, m)) |->
                                   walk[Children(c.heap, m)[i]]])
    IN walk[Root]

Axis(c, axis, n) ==
    LET order == InOrder(c)
        nodes == ToSet(order)
        rank(m) == CHOOSE i \in 1..Len(order) : order[i] = m
        after == {m \in nodes : rank(m) > rank(n)}
        siblings == {m \in nodes : c.heap[m].prnt = c.heap[n].prnt}
        below == {m \in nodes : n \in Ancestors(c, m)}
    IN CASE axis = "child" -> {m \in nodes : c.heap[m].prnt = n}
         [] axis = "attribute" -> ToSet(Attributes(c.heap, n))
         [] axis = "parent" -> {c.heap[n].prnt} \ {Null}
         [] axis = "self" -> {n}
         [] axis = "descendant" -> below
         [] axis = "descendant-or-self" -> {n} \cup below
         [] axis = "ancestor" -> Ancestors(c, n)
         [] axis = "ancestor-or-self" -> {n} \cup Ancestors(c, n)
         [] axis = "following-sibling" -> siblings \cap after
         [] axis = "preceding-sibling" -> (siblings \ after) \ {n}
         [] axis = "following" -> after \ below
         [] axis = "preceding" -> ((nodes \ after) \ {n}) \ Ancestors(c, n)

Test(t, c, test, m) ==
    LET type == c.src[m].type
    IN CASE test = <<"node()">> -> TRUE
         [] test = <<"*">> -> type \in {"elm", "att", "nsd"}
         [] test = <<"text()">> -> type \in {"txt", "cdata"}
         [] test = <<"comment()">> -> type = "cmt"
         [] test = <<"processing-instruction()">> -> type = "pi"
         [] OTHER -> type \in {"elm", "att", "nsd"} /\ Prefixed(t, c, m) = test

\* The numbers of the texts have one digit.  Any other string is NaN, and no
\* order holds of it.
Numeric(str) == Len(str) = 1 /\ str[1] \in Digits

RECURSIVE Select(_, _, _, _)

\* among: the nodes m is one of, for its position.
RECURSIVE Holds(_, _, _, _, _)
Holds(t, c, p, m, among) ==
    LET order == InOrder(c)
        rank(k) == CHOOSE i \in 1..Len(order) : order[i] = k
        before == Cardinality({k \in among : rank(k) < rank(m)})
        values == {ContentOf(t, c, k) : k \in Select(t, c, {p.path}, m)}
    IN CASE p.kind = "position" -> DoubleCmp(before + 1, p.value, p.op)
         [] p.kind = "last" -> before + 1 = Cardinality(among) - p.minus
         [] p.kind = "first" -> before + 1 = 1 + p.plus
         [] p.kind = "name" -> NameOf(t, c, m) = p.value
         [] p.kind = "exists" -> Select(t, c, {p.path}, m) # {}
         [] p.kind = "compare" ->
              CASE p.op = "equ" -> p.value \in values
                [] p.op = "diff" -> values \ {p.value} # {}
                [] OTHER -> Numeric(p.value) /\ \E v \in values :
                      Numeric(v) /\ DoubleCmp(Number(v), Number(p.value), p.op)
         [] p.kind = "uri" -> NsOf(t, c, m) # <<>> /\ NsOf(t, c, m)[2] = p.value
         [] p.kind = "and" -> Holds(t, c, p.left, m, among) /\ Holds(t, c, p.right, m, among)
         [] p.kind = "or" -> Holds(t, c, p.left, m, among) \/ Holds(t, c, p.right, m, among)

Select(t, c, paths, n) ==
    LET step(s, k) ==
            LET all == {m \in Axis(c, s.axis, k) : Test(t, c, s.test, m)}
            IN {m \in all : \A i \in 1..Len(s.preds) : Holds(t, c, s.preds[i], m, all)}
        path(p) == FoldLeft(LAMBDA from, s : UNION {step(s, k) : k \in from},
                            IF p.abs THEN {Root} ELSE {n}, p.steps)
    IN UNION {path(p) : p \in paths}

=============================================================================
