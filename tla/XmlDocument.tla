----------------------------- MODULE XmlDocument -----------------------------
(***************************************************************************)
(* Documents as XML defines them, to compare with what libroxml loads: a   *)
(* document is a tree of nodes, Text writes it down in several styles and  *)
(* Meaning is what a reader of the text has to find in it.                 *)
(***************************************************************************)
EXTENDS Integers, Sequences, SequencesExt

Plain(type, name, value) ==
    [type |-> type, prefix |-> "", name |-> name, value |-> value,
     attrs |-> <<>>, kids |-> <<>>]

Elm(prefix, name, attrs, kids) ==
    [type |-> "elm", prefix |-> prefix, name |-> <<name>>, value |-> <<>>,
     attrs |-> attrs, kids |-> kids]
Att(prefix, name, value) ==
    [Plain("att", <<name>>, value) EXCEPT !.prefix = prefix]
\* A namespace definition; the default one has no alias.
Def(alias, uri) == Plain("nsd", IF alias = "" THEN <<>> ELSE <<alias>>, uri)
Txt(value) == Plain("txt", <<>>, value)
Cdata(value) == Plain("cdata", <<>>, value)
Cmt(value) == Plain("cmt", <<>>, value)
Pi(name, value) == Plain("pi", <<name>>, value)
Doctype(value) == Plain("doctype", <<"!", "DOCTYPE">>, value)
Doc(kids) == Elm("", "documentRoot", <<>>, kids)

-----------------------------------------------------------------------------
(* Text.  A style has the quote put around values, the white put in tags   *)
(* and the white put between tags.                                         *)

Prefixed(n) == (IF n.prefix = "" THEN <<>> ELSE <<n.prefix, ":">>) \o n.name

AttText(style, a) ==
    (IF a.type = "att" THEN Prefixed(a)
     ELSE IF a.name = <<>> THEN <<"xmlns">> ELSE <<"xmlns", ":">> \o a.name)
    \o <<"=", style.quote>> \o a.value \o <<style.quote>>

RECURSIVE NodeText(_, _)
KidsText(style, kids) ==
    FlattenSeq([i \in 1..Len(kids) |->
        LET text == {"txt", "cdata"}
            around == {kids[i].type} \cup (IF i = 1 THEN {} ELSE {kids[i - 1].type})
        IN (IF around \cap text = {} THEN style.between ELSE <<>>)
           \o NodeText(style, kids[i])])

NodeText(style, n) ==
    CASE n.type = "elm" ->
            <<"<">> \o Prefixed(n)
            \o FlattenSeq([i \in 1..Len(n.attrs) |->
                  <<" ">> \o style.within \o AttText(style, n.attrs[i])])
            \o (IF n.kids = <<>> THEN style.within \o <<"/", ">">>
                ELSE style.within \o <<">">> \o KidsText(style, n.kids)
                     \o <<"<", "/">> \o Prefixed(n) \o <<">">>)
      [] n.type = "txt" -> n.value
      [] n.type = "cdata" -> <<"<", "!", "[CDATA[">> \o n.value \o <<"]", "]", ">">>
      [] n.type = "cmt" -> <<"<", "!", "-", "-">> \o n.value \o <<"-", "-", ">">>
      [] n.type = "pi" -> <<"<", "?">> \o n.name \o <<" ">> \o n.value \o <<"?", ">">>
      [] n.type = "doctype" -> <<"<">> \o n.name \o <<" ">> \o n.value \o <<">">>

Text(style, doc) == KidsText(style, doc.kids)

-----------------------------------------------------------------------------
(* Meaning.  scope maps the aliases declared around a node to their uris.  *)

Scope(scope, n) ==
    LET defs == {a \in ToSet(n.attrs) : a.type = "nsd"}
        own(alias) == {a \in defs : a.name = (IF alias = "" THEN <<>> ELSE <<alias>>)}
        aliases == DOMAIN scope \cup {IF a.name = <<>> THEN "" ELSE a.name[1] : a \in defs}
    IN [alias \in aliases |->
          IF own(alias) = {} THEN scope[alias] ELSE (CHOOSE a \in own(alias) : TRUE).value]

Namespace(scope, n) ==
    IF n.type \notin {"elm", "att"} \/ n.prefix \notin DOMAIN scope
       \/ (n.type = "att" /\ n.prefix = "") THEN <<>>
    ELSE IF scope[n.prefix] = <<>> THEN <<>>
    ELSE <<n.prefix, scope[n.prefix]>>

RECURSIVE NodeMeaning(_, _)
NodeMeaning(scope, n) ==
    LET inner == Scope(scope, n)
    IN [type |-> n.type,
        name |-> n.name,
        ns |-> Namespace(inner, n),
        content |-> IF n.type # "elm" THEN n.value
                    ELSE FlattenSeq([i \in 1..Len(n.kids) |->
                           IF n.kids[i].type \in {"txt", "cdata"}
                           THEN n.kids[i].value ELSE <<>>]),
        attrs |-> [i \in 1..Len(n.attrs) |-> NodeMeaning(inner, n.attrs[i])],
        kids |-> [i \in 1..Len(n.kids) |-> NodeMeaning(inner, n.kids[i])]]

Meaning(doc) == NodeMeaning([alias \in {} |-> <<>>], doc)

=============================================================================
