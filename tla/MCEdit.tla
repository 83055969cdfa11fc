------------------------------- MODULE MCEdit -------------------------------
(***************************************************************************)
(* Small instances of RoxmlEdit.  A document is the sequence of its        *)
(* constructs; its text is in the comment.                                 *)
(***************************************************************************)
EXTENDS RoxmlEdit

\* No action reads call: states that differ in it alone go on alike, and the
\* steps of each are checked whether the state they lead to is new or not.
Document == <<heap, open>>

Tag(prefix) == <<"tag", prefix>>
Attr(prefix) == <<"attr", prefix>>
Ns(alias) == <<"nsdef", alias>>
Xmlns(value) == <<"xmlns", value>>
Sp == <<"space">>
Gt == <<">">>
End == <<"/">>
Text == <<"leaf", "txt">>
Misc == <<"leaf", "misc">>

(* Documents without namespaces.                                           *)
PlainDocs == {
    \* nothing: roxml_add_node(NULL, ...)
    <<>>,
    \* <a>t<b/></a>
    <<Tag("none"), Gt, Text, Tag("none"), Gt, End, End>>,
    \* <a x="v"><!--c--></a>
    <<Tag("none"), Attr("none"), Gt, Misc, End>>,
    \* <a/>
    <<Tag("none"), Gt, End>>}

(* Documents with namespaces.                                              *)
NsDocs == {
    \* <a xmlns:p="u"><p:b/></a>
    <<Tag("none"), Ns("p"), Gt, Tag("p"), Gt, End, End>>,
    \* <a xmlns="u"><b/></a>
    <<Tag("none"), Xmlns("uri"), Gt, Tag("none"), Gt, End, End>>,
    \* <a x="v" xmlns="u"><b/></a>
    <<Tag("none"), Attr("none"), Sp, Xmlns("uri"), Gt, Tag("none"), Gt, End, End>>,
    \* <a xmlns="u"><b xmlns=""/></a>
    <<Tag("none"), Xmlns("uri"), Gt, Tag("none"), Xmlns("empty"), Gt, End, End>>,
    \* <p:a xmlns:p="u" p:x="v"/>
    <<Tag("p"), Ns("p"), Attr("p"), Gt, End>>}

(* <a xmlns="u" x="v"/>                                                    *)
DefaultDocs == {<<Tag("none"), Xmlns("uri"), Sp, Attr("none"), Gt, End>>}

(* <a>t<b/>t</a>                                                           *)
TwoTextDocs == {<<Tag("none"), Gt, Text, Tag("none"), Gt, End, Text, End>>}
=============================================================================
