----------------------------- MODULE MCDocument -----------------------------
(***************************************************************************)
(* Small instances of RoxmlDocument.                                       *)
(***************************************************************************)
EXTENDS RoxmlDocument, XmlPath

\* The answers of an xpath from some nodes: Xpath of RoxmlXpath.
CONSTANT Answers(_, _, _, _)

X == INSTANCE XmlDocument

Addresses == 1..36

Tight == [quote |-> "\"", within |-> <<>>, between |-> <<>>]
Loose == [quote |-> "'", within |-> <<" ">>, between |-> <<"\n", " ">>]
Styles == {Tight, Loose}

V == <<"v">>
A(kids) == X!Elm("", "a", <<>>, kids)

Trees == {
    \* <a/>
    X!Doc(<<A(<<>>)>>),
    \* <a x="v">t w</a>
    X!Doc(<<X!Elm("", "a", <<X!Att("", "x", V)>>, <<X!Txt(<<"t", " ", "w">>)>>)>>),
    \* <a>t<b/>w</a>
    X!Doc(<<A(<<X!Txt(<<"t">>), X!Elm("", "b", <<>>, <<>>), X!Txt(<<"w">>)>>)>>),
    \* <a><b x="v"/><b x="" y="1"><a/></b></a>
    X!Doc(<<A(<<X!Elm("", "b", <<X!Att("", "x", V)>>, <<>>),
                X!Elm("", "b", <<X!Att("", "x", <<>>), X!Att("", "y", <<"1">>)>>, <<A(<<>>)>>)>>)>>),
    \* <?p v?><!DOCTYPE a [<!w>]><a><!--t - w--><![CDATA[<b>]]></a>
    X!Doc(<<X!Pi("p", V), X!Doctype(<<"a", " ", "[", "<", "!", "w", ">", "]">>),
            A(<<X!Cmt(<<"t", "-", "w">>), X!Cdata(<<"<", "b", ">">>)>>)>>),
    \* <p:a xmlns:p="u"><p:b p:x="v"/></p:a>
    X!Doc(<<X!Elm("p", "a", <<X!Def("p", <<"u">>)>>,
              <<X!Elm("p", "b", <<X!Att("p", "x", V)>>, <<>>)>>)>>),
    \* <a xmlns="u"><b/></a>
    X!Doc(<<X!Elm("", "a", <<X!Def("", <<"u">>)>>, <<X!Elm("", "b", <<>>, <<>>)>>)>>),
    \* <a x="v" xmlns="u"><b/></a>
    X!Doc(<<X!Elm("", "a", <<X!Att("", "x", V), X!Def("", <<"u">>)>>,
              <<X!Elm("", "b", <<>>, <<>>)>>)>>),
    \* <a x="2"><b x="v" y="2">t</b><c y="1"><b/>w</c><b x="3"><!--t--><c/></b></a>
    X!Doc(<<X!Elm("", "a", <<X!Att("", "x", <<"2">>)>>,
        <<X!Elm("", "b", <<X!Att("", "x", V), X!Att("", "y", <<"2">>)>>, <<X!Txt(<<"t">>)>>),
          X!Elm("", "c", <<X!Att("", "y", <<"1">>)>>,
                <<X!Elm("", "b", <<>>, <<>>), X!Txt(<<"w">>)>>),
          X!Elm("", "b", <<X!Att("", "x", <<"3">>)>>,
                <<X!Cmt(<<"t">>), X!Elm("", "c", <<>>, <<>>)>>)>>)>>)
    }

\* <a xmlns="u"><b xmlns=""><c/></b><b/></a>
HiddenDefault ==
    X!Doc(<<X!Elm("", "a", <<X!Def("", <<"u">>)>>,
              <<X!Elm("", "b", <<X!Def("", <<>>)>>, <<X!Elm("", "c", <<>>, <<>>)>>),
                X!Elm("", "b", <<>>, <<>>)>>)>>)

\* White space after xmlns="" is a known divergence (README).
Written == (Trees \X Styles) \cup {<<HiddenDefault, Tight>>}

Rendered == [d \in Written |-> X!Text(d[2], d[1])]
WellFormed == {Rendered[d] : d \in Written}

(* Texts with a mistake: one symbol of a document is missing, or its end, and *)
(* all the texts of up to four symbols.                                       *)
Broken ==
    LET f == X!Text(Tight,
               X!Doc(<<X!Elm("p", "a", <<X!Def("p", <<"u">>), X!Att("p", "x", V)>>,
                        <<X!Txt(<<"t">>), X!Elm("q", "b", <<>>, <<>>), X!Cmt(<<"w">>)>>)>>))
    IN {SubSeq(f, 1, i) : i \in 0..Len(f)} \cup {RemoveAt(f, i) : i \in 1..Len(f)}
Short == UNION {[1..k -> {"<", ">", "/", "a", " "}] : k \in 1..4}

AllFiles == WellFormed \cup Broken \cup Short

\* The tree a well-formed document is loaded as is the one XML gives it, and
\* nothing else is left of the load.
LoadedAsWritten ==
    round = 1 /\ phase \in {"loaded", "invalid"} /\ file \in WellFormed =>
        /\ phase # "invalid"
        /\ phase = "loaded" => Live(ctx.heap) = Tree
        /\ phase = "loaded" =>
              LET d == CHOOSE e \in Written : Rendered[e] = file
              IN View(file, ctx, Root) = X!Meaning(d[1])

-----------------------------------------------------------------------------
(* Xpaths.                                                                 *)

PathStyles == {[short |-> TRUE, quote |-> <<"'">>], [short |-> FALSE, quote |-> <<"\"">>]}

X1 == Rel(<<St("attribute", <<"x">>)>>)
Y1 == Rel(<<St("attribute", <<"y">>)>>)
Kids(name) == Rel(<<Child(name)>>)
Below1(step) == {Abs(<<AnyBelow, step>>)}

\* b with a predicate, anywhere.
BWith(pred) == Below1(With(Child("b"), pred))

Parent1 == St("parent", <<"node()">>)

(* Xpaths, each a set of paths.                                              *)
Queries ==
    {{Rel(<<St(axis, <<"c">>)>>)} :
        axis \in {"child", "descendant", "descendant-or-self", "ancestor", "ancestor-or-self",
                  "following-sibling", "preceding-sibling", "preceding"}}
    \cup {{Abs(<<Child("a"), Child("b"), St("following", <<"c">>)>>)},
          {Rel(<<Parent1, Child("b")>>), Kids("b")},
          {Rel(<<St("self", <<"node()">>), AnyBelow, Child("c")>>)},
          {Rel(<<St("descendant", <<"b">>), St("attribute", <<"x">>)>>)}}
    \cup {Below1(step) :
            step \in {Child(name) : name \in {"b", "*", "text()", "comment()",
                                              "processing-instruction()"}}
                     \cup {St("attribute", <<"x">>), St("child", <<"p", ":", "b">>)}}
    \cup {Below1(With(Child("*"), Equals(Y1, op, value))) :
            op \in {"sup", "einf"}, value \in {<<"1">>, <<"2">>}}
    \cup {BWith(pred) : pred \in
            {Position(op, i) : op \in {"equ", "diff", "sup", "einf"}, i \in 1..2}
            \cup {Exists(path) : path \in {X1, Kids("c"), Kids("text()")}}
            \cup {Equals(X1, op, value) : op \in {"equ", "diff"}, value \in {V, <<"2">>}}
            \cup {Equals(Kids("text()"), "equ", <<"t">>), Equals(X1, "sup", <<"2">>),
                  Uri(<<"u">>), LocalName("b"), FromFirst(1)}
            \cup {Both(Position("equ", 1), Equals(X1, "equ", V)),
                  Either(Position("equ", 2), Equals(X1, "equ", V)),
                  Both(Exists(X1), Exists(Kids("c"))), Either(Exists(X1), Exists(Kids("c"))),
                  Either(Exists(Kids("text()")), Both(Exists(X1), Exists(Kids("c"))))}}

\* Xpaths that count nodes without regard to their names.
Counts == {Below1(With(Child("*"), Position("equ", 2))),
           BWith(FromLast(0)), BWith(FromLast(1))}

Elements == {m \in Live(ctx.heap) \ {Root} : ctx.src[m].type = "elm"}

\* The children of a node are elements of one name.
Uniform(n) ==
    LET kids == ToSet(Children(ctx.heap, n))
    IN kids \subseteq Elements /\ Cardinality({NameOf(file, ctx, m) : m \in kids}) <= 1

\* roxml_xpath answers what XPath 1.0 says, for every xpath above, from every
\* element; <= is asked of numbers only, of other strings it is a known
\* divergence (README).  The parser finds the steps, conditions and strings in
\* the text it cuts, the walk takes each node that a path leads to and no other.
XpathAgrees ==
    Readable =>
        \A query \in Queries \cup (IF \A n \in Elements : Uniform(n) THEN Counts ELSE {}),
           style \in PathStyles :
            Answers(file, ctx, UnionText(style, query), Elements) =
                [n \in Elements |-> Select(file, ctx, query, n)]

\* The path of an element that roxml_get_name, roxml_get_ns and
\* roxml_get_node_position give, up to the root, leads to it and to no other.
PathFindsNode ==
    Readable =>
        \A n \in Elements, style \in PathStyles :
            LET line == (Ancestors(ctx, n) \cup {n}) \ {Root}
                seq == SelectSeq(InOrder(ctx), LAMBDA m : m \in line)
                path == Abs([i \in 1..Len(seq) |->
                               With(St("child", Prefixed(file, ctx, seq[i])),
                                    Position("equ", NodePosition(file, ctx, seq[i])))])
            IN Answers(file, ctx, PathText(style, path), {Root})[Root] = {n}

\* What is asked of the getters: one type, or several types of children, and
\* either with the attributes.
ChildTypes == {{"doctype"}} \cup (SUBSET {"elm", "txt", "cmt", "pi"} \ {{}})
Asked == ChildTypes \cup {type \cup {"att"} : type \in ChildTypes \cup {{}}}

\* The getters of nodes tell the same, whatever types are asked for at once.
\* Attributes come before children.  Without them, or of them alone,
\* roxml_get_nodes_nb is the number of indices that have a node, these are all
\* the nodes of the types, once each, and a name finds the first that has it; of
\* attributes and children together the attributes are found, and the number
\* is right.  Siblings go through the elements both ways, and the position of an
\* element counts those of its name.
GettersAgree ==
    Readable =>
        \A n \in Elements, type \in Asked :
            LET nb == NodesNb(ctx, n, type)
                nth(i) == NodesByNth(ctx, n, type, i - 1)
                name(m) == NameOf(file, ctx, m)
                all == {m \in Live(ctx.heap) :
                          ctx.heap[m].prnt = n /\ Flags(ctx, m) \cap type # {}}
                attrs == {m \in all : "att" \in Flags(ctx, m)}
                nbAttrs == Cardinality(attrs)
            IN /\ nb = Cardinality(all)
               /\ {nth(i) : i \in 1..nbAttrs} = attrs
               /\ attrs \in {{}, all} =>
                    /\ {nth(i) : i \in 1..nb} = all
                    /\ nth(nb + 1) = Null
                    /\ \A i \in 1..nb :
                         \E j \in 1..i :
                            /\ nth(j) = NodesByName(file, ctx, n, type, name(nth(i)))
                            /\ name(nth(j)) = name(nth(i))
                            /\ \A k \in 1..j - 1 : name(nth(k)) # name(nth(i))
               /\ type = {"elm"} =>
                    \A i \in 1..nb :
                       /\ NextSibling(ctx, nth(i)) = nth(i + 1)
                       /\ i < nb => PrevSibling(ctx, nth(i + 1)) = nth(i)
                       /\ NodePosition(file, ctx, nth(i)) =
                            Cardinality({j \in 1..i : name(nth(j)) = name(nth(i))})

Escapable == UNION {[1..k -> {"<", "&", "lt;", "amp;", "t"}] : k \in 0..3}
=============================================================================
