----------------------------- MODULE RoxmlContent -----------------------------
(***************************************************************************)
(* Reading a loaded document: the getters of src/src/roxml_content.c and   *)
(* src/src/roxml_nav.c.  A node only holds offsets; its name and content   *)
(* are read from the source t of the document each time.                   *)
(*                                                                         *)
(* c has the nodes of the document, c.heap and c.src.                      *)
(***************************************************************************)
EXTENDS RoxmlLoad

IsText(c, n) == c.src[n].type \in {"txt", "cdata"}

-----------------------------------------------------------------------------
(* Names and contents.                                                     *)

\* What ends a name at offset i of t, for each type of node.
EndsName(t, type, i) ==
    \/ At(t, i) \in White \cup {""}
    \/ type = "pi" /\ At(t, i) = "?" /\ At(t, i + 1) = ">"
    \/ type \in {"elm", "att"} /\ At(t, i) = "/" /\ At(t, i + 1) = ">"
    \/ type \in {"elm", "att", "doctype"} /\ At(t, i) = ">"
    \/ type = "att" /\ At(t, i) = "="

\* The symbols of a name read from the source: white and < are skipped first.
NameSymbols(t, type, offset) ==
    LET begin == Min({i \in offset..Len(t) : At(t, i) \notin White \cup {"<"}})
        end == Min({i \in begin..Len(t) : EndsName(t, type, i)})
    IN SubSeq(t, begin + 1, end)

\* roxml_get_name, as symbols.
NameOf(t, c, n) ==
    LET type == c.src[n].type
        pos == c.src[n].pos
    IN CASE IsText(c, n) \/ type = "cmt" -> <<>>
         [] c.heap[n].prnt = Null -> <<"documentRoot">>
         [] type = "nsd" ->
              IF c.heap[n].alias \in {"", "none"} THEN <<>> ELSE <<c.heap[n].alias>>
         [] type = "pi" -> NameSymbols(t, type, pos + 2)
         [] type = "doctype" -> NameSymbols(t, type, pos + 1)
         [] OTHER -> NameSymbols(t, type, pos)

Span(t, from, to) == SubSeq(t, from + 1, to)

\* roxml_get_content: an element has the content of its texts, an attribute
\* that of its value.
ContentOf(t, c, n) ==
    LET type == c.src[n].type
        len == Len(NameOf(t, c, n))
        head == CASE IsText(c, n) -> 0
                  [] type = "cmt" -> 4
                  [] type = "pi" -> len + 3
                  [] OTHER -> len + 2
        own(m) == Span(t, c.src[m].pos, c.src[m].end)
    IN CASE type = "elm" ->
              FlattenSeq([i \in 1..Len(Children(c.heap, n)) |->
                  LET m == Children(c.heap, n)[i]
                  IN IF IsText(c, m) THEN own(m) ELSE <<>>])
         [] IsAttr(c.heap, n) ->
              IF c.heap[n].chld = Null THEN <<>> ELSE own(c.heap[n].chld)
         [] OTHER -> Span(t, c.src[n].pos + head, c.src[n].end)

\* The alias and the content of the namespace of a node.
NsOf(t, c, n) ==
    LET d == c.heap[n].ns
    IN IF d = Null THEN <<>> ELSE <<c.heap[d].alias, ContentOf(t, c, d)>>

\* The document as its getters tell it: a node, its attributes, its children.
View(t, c, n) ==
    LET view[m \in Addr] ==
            [type |-> c.src[m].type,
             name |-> NameOf(t, c, m),
             ns |-> IF c.src[m].type \in {"elm", "att"} THEN NsOf(t, c, m) ELSE <<>>,
             content |-> ContentOf(t, c, m),
             attrs |-> [i \in 1..Len(Attributes(c.heap, m)) |->
                          view[Attributes(c.heap, m)[i]]],
             kids |-> IF IsAttr(c.heap, m) THEN <<>>
                      ELSE [i \in 1..Len(Children(c.heap, m)) |->
                              view[Children(c.heap, m)[i]]]]
    IN view[n]

-----------------------------------------------------------------------------
(* roxml_escape.  An escape is the symbol & and a word.                    *)

Specials ==
    [mark \in {"\"", "'", "<", ">", "&"} |->
        <<"&", CASE mark = "\"" -> "quot;"  [] mark = "'" -> "apos;"
                 [] mark = "<" -> "lt;"     [] mark = ">" -> "gt;"
                 [] mark = "&" -> "amp;">>]

\* Mutant: what looks like an escape already is left alone.
EncodeOnce(buf) ==
    FlattenSeq([i \in 1..Len(buf) |->
        IF /\ buf[i] \in DOMAIN Specials
           /\ \A code \in DOMAIN Specials : ~IsPrefix(Specials[code], SubSeq(buf, i, Len(buf)))
        THEN Specials[buf[i]] ELSE <<buf[i]>>])

Encode(buf) ==
    FlattenSeq([i \in 1..Len(buf) |->
        IF buf[i] \in DOMAIN Specials THEN Specials[buf[i]] ELSE <<buf[i]>>])

Decode(buf) ==
    LET decode[i \in 1..Len(buf) + 1] ==
            LET found == {code \in DOMAIN Specials :
                             IsPrefix(Specials[code], SubSeq(buf, i, Len(buf)))}
            IN CASE i > Len(buf) -> <<>>
                 [] found # {} -> <<CHOOSE code \in found : TRUE>> \o decode[i + 2]
                 [] OTHER -> <<buf[i]>> \o decode[i + 1]
    IN decode[1]

=============================================================================
