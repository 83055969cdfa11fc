----------------------------- MODULE RoxmlBuild -----------------------------
(***************************************************************************)
(* What the parser callbacks of src/src/roxml_core.c do to the tree, one   *)
(* operator per construct of the document.  c is the part of               *)
(* roxml_load_ctx_t that the tree depends on:                              *)
(*    heap   the nodes                                                     *)
(*    cur    current_node, the element being filled                        *)
(*    cand   candidat_node, the element whose tag is being read, not yet   *)
(*           linked to cur                                                 *)
(*    pend   cand carries a prefix not declared so far: its ns is a        *)
(*           placeholder of type ROXML_INVALID                             *)
(*    arg    candidat_arg, the last attribute                              *)
(*    xmlns  arg is a definition without alias that has not been processed *)
(*           yet: "uri", "empty" or "no"                                   *)
(*    spaces namespaces, the head of the list of definitions               *)
(*    last   last_ns, its last node                                        *)
(***************************************************************************)
EXTENDS RoxmlHeap

NewDocument ==
    LET r == CHOOSE a \in Addr : \A b \in Addr : a <= b
    IN [heap |-> [a \in Addr |-> Blank(IF a = r THEN "elm" ELSE "unused")],
        cur |-> r, cand |-> Null, pend |-> FALSE, arg |-> Null, xmlns |-> "no",
        spaces |-> Null, last |-> Null]

\* roxml_lookup_nsdef: the first definition of the list with that alias.
LookupNsdef(c, alias) ==
    LET find[k \in Ptr] ==
            IF k = Null THEN Null
            ELSE IF c.heap[k].alias = alias THEN k ELSE find[c.heap[k].next]
    IN find[c.spaces]

\* roxml_process_unaliased_ns, when the value of the definition is closed.
ProcessUnaliased(c) ==
    CASE c.xmlns = "uri" ->
            [c EXCEPT !.xmlns = "no", !.pend = FALSE, !.spaces = c.arg,
                      !.heap[c.arg].kind = "nsd", !.heap[c.arg].alias = "",
                      !.heap[c.arg].ns = c.arg, !.heap[c.cand].ns = c.arg]
      [] c.xmlns = "empty" ->
            [c EXCEPT !.xmlns = "no", !.pend = FALSE,
                      !.heap[c.arg].kind = "nsd",
                      !.heap[c.arg].ns = Null, !.heap[c.cand].ns = Null]
      [] OTHER -> c

\* Add c.arg to the list of definitions.
ChainNsdef(c) ==
    IF c.spaces = Null
    THEN [c EXCEPT !.spaces = c.arg, !.last = c.arg]
    ELSE [c EXCEPT !.heap[c.last].next = c.arg, !.last = c.arg]

\* <name or <p:name
OpenTag(c, prefix) ==
    LET n == Fresh(c.heap, 1)[1]
        ns == LookupNsdef(c, prefix)
    IN [c EXCEPT !.cand = n,
                 !.heap[n] = [Blank("elm") EXCEPT
                                 !.ns = IF prefix = "none" THEN Null ELSE ns],
                 !.pend = prefix # "none" /\ ns = Null]

\* The attribute node, created and linked before its name is known.  An
\* undeclared prefix of its element hides the default namespace from it.
OpenAttr(c) ==
    LET d == ProcessUnaliased(c)
        a == Fresh(d.heap, 1)[1]
        g == AppendNode([d.heap EXCEPT ![a] = Blank("att")], d.cand, a)
    IN [d EXCEPT !.arg = a,
                 !.heap = IF d.pend THEN [g EXCEPT ![a].ns = Null] ELSE g]

AttrValue(c) ==
    LET v == Fresh(c.heap, 1)[1]
    IN [c EXCEPT !.heap = AppendNode([@ EXCEPT ![v] = Blank("txt")], c.arg, v)]

\* name="value" or p:name="value"
Attribute(c, prefix) ==
    LET d == OpenAttr(c)
    IN AttrValue(IF prefix = "none" THEN d
                 ELSE [d EXCEPT !.heap[d.arg].ns = LookupNsdef(d, prefix)])

\* xmlns:alias="uri"
Nsdef(c, alias) ==
    LET d == OpenAttr(c)
        e == ChainNsdef([d EXCEPT !.heap[d.arg].kind = "nsd"])
        f == [e EXCEPT !.heap[e.arg].alias = alias]
    IN AttrValue(IF f.pend
                 THEN [f EXCEPT !.pend = FALSE, !.heap[f.cand].ns = f.arg]
                 ELSE f)

\* xmlns="uri" or xmlns="", its value still open
DefaultNsdef(c, value) ==
    LET d == AttrValue(ChainNsdef(OpenAttr(c)))
    IN [d EXCEPT !.xmlns = value]

\* A white space after an attribute.
Space(c) == ProcessUnaliased(c)

\* The > of an opening tag: link the element, then close its last attribute.
EndTag(c) ==
    LET g == AppendNode(c.heap, c.cur, c.cand)
        d == [c EXCEPT !.cur = c.cand,
                       !.heap = IF c.pend THEN [g EXCEPT ![c.cand].ns = Null]
                                ELSE g]
    IN [ProcessUnaliased(d) EXCEPT !.pend = FALSE]

\* The end of an element, at </name> or just after /> .
CloseTag(c) ==
    LET p == c.heap[c.cur].prnt IN
    [c EXCEPT !.cand = Null, !.cur = IF p = Null THEN c.cur ELSE p]

\* A non-empty text, a comment, a processing instruction.
Leaf(c, kind) ==
    LET n == Fresh(c.heap, 1)[1]
    IN [c EXCEPT !.heap = AppendNode([@ EXCEPT ![n] = Blank(kind)], c.cur, n)]

-----------------------------------------------------------------------------
(* The tree of a document given as the sequence of its constructs.         *)

Step(c, e) ==
    CASE e[1] = "tag"   -> OpenTag(c, e[2])
      [] e[1] = "attr"  -> Attribute(c, e[2])
      [] e[1] = "nsdef" -> Nsdef(c, e[2])
      [] e[1] = "xmlns" -> DefaultNsdef(c, e[2])
      [] e[1] = "space" -> Space(c)
      [] e[1] = ">"     -> EndTag(c)
      [] e[1] = "/"     -> CloseTag(c)
      [] e[1] = "leaf"  -> Leaf(c, e[2])

\* roxml_load, on a document without error.
Parsed(doc) == FoldLeft(Step, NewDocument, doc).heap

=============================================================================
