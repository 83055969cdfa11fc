------------------------------- MODULE RoxmlNav -------------------------------
(***************************************************************************)
(* Moving in a tree: src/src/roxml_nav.c and the getters of the nodes of a *)
(* type in src/src/roxml_content.c.                                        *)
(*                                                                         *)
(* A type asked for is a set of flags, as the masks of the code: "elm",    *)
(* "txt", "cmt", "pi", "doctype", "att", "ns".  n-th counts from 0.        *)
(***************************************************************************)
EXTENDS RoxmlContent

\* The flags of the type of a node.
Flags(c, n) ==
    CASE IsText(c, n) -> {"txt"}
      [] c.src[n].type = "nsd" -> {"att", "ns"}
      [] OTHER -> {c.src[n].type}

OfType(c, seq, type) == SelectSeq(seq, LAMBDA n : Flags(c, n) \cap type # {})

-----------------------------------------------------------------------------
(* Nodes of a type.                                                        *)

\* roxml_get_nodes_nb
NodesNb(c, n, type) ==
    Len(OfType(c, Children(c.heap, n), type))
    + (IF "att" \in type THEN Len(Attributes(c.heap, n)) ELSE 0)

\* Mutant: the node found so far counts twice.
NodesByNthTwice(c, n, type, nth) ==
    LET kids == OfType(c, Children(c.heap, n), type)
    IN IF nth = 0 /\ kids # <<>> THEN kids[1]
       ELSE IF nth \in 1..Len(kids) THEN kids[nth] ELSE Null

\* roxml_get_nodes_by_nth: count is the rank of the last attribute passed, and
\* goes on with the children after the first.
NodesByNth(c, n, type, nth) ==
    LET kids == OfType(c, Children(c.heap, n), type)
        attrs == Attributes(c.heap, n)
        ns == c.heap[n].ns # Null /\ "ns" \in type
        att == ~ns /\ attrs # <<>> /\ "att" \in type
        count == IF att THEN Min({nth, Len(attrs) - 1}) ELSE 0
        rest == nth - count + 1
    IN CASE nth > count -> IF rest <= Len(kids) THEN kids[rest] ELSE Null
         [] nth = count /\ ns -> c.heap[n].ns
         [] nth = count /\ att -> attrs[nth + 1]
         [] OTHER -> IF kids = <<>> THEN Null ELSE kids[1]

\* roxml_get_nodes_by_name
NodesByName(t, c, n, type, name) ==
    LET attrs == Attributes(c.heap, n)
        list == IF attrs # <<>> /\ "att" \in type THEN attrs ELSE Children(c.heap, n)
        named == SelectSeq(OfType(c, list, type), LAMBDA m : NameOf(t, c, m) = name)
    IN IF named = <<>> THEN Null ELSE named[1]

-----------------------------------------------------------------------------
(* Siblings and positions.                                                 *)

\* The nodes of the list n is in, before and after n.
SiblingsAfter(h, n) == ListFrom(h, h[n].sibl)
SiblingsBefore(h, n) ==
    LET kids == Children(h, h[n].prnt)
    IN SubSeq(kids, 1, Min({i \in 1..Len(kids) : kids[i] = n} \cup {Len(kids) + 1}) - 1)

\* roxml_get_next_sibling
NextSibling(c, n) ==
    LET after == OfType(c, SiblingsAfter(c.heap, n), {"elm"})
    IN IF after = <<>> THEN Null ELSE after[1]

\* roxml_get_prev_sibling.  An attribute is not among the children of its
\* parent, which are all before it.
PrevSibling(c, n) ==
    LET before == OfType(c, SiblingsBefore(c.heap, n), {"elm"})
    IN IF c.heap[n].prnt = Null \/ before = <<>> THEN Null ELSE Last(before)

\* roxml_get_parent
Parent(c, n) == IF c.heap[n].prnt = Null THEN n ELSE c.heap[n].prnt

\* Mutant: the walk starts after the first child.
NodePositionTail(t, c, n) ==
    IF c.heap[n].prnt = Null THEN 1
    ELSE 1 + Len(SelectSeq(SiblingsBefore(c.heap, n),
                           LAMBDA m : /\ NameOf(t, c, m) = NameOf(t, c, n)
                                      /\ m # c.heap[c.heap[n].prnt].chld))

\* roxml_get_node_position: among the siblings of the same name.
NodePosition(t, c, n) ==
    IF c.heap[n].prnt = Null THEN 1
    ELSE 1 + Len(SelectSeq(SiblingsBefore(c.heap, n),
                           LAMBDA m : NameOf(t, c, m) = NameOf(t, c, n)))

=============================================================================
