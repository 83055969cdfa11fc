------------------------------ MODULE RoxmlHeap ------------------------------
(***************************************************************************)
(* The linked nodes of an XML tree (node_t, src/src/roxml_types.h) and the *)
(* functions of src/src/roxml_core.c and src/src/roxml_edit.c that change  *)
(* their links.                                                            *)
(*                                                                         *)
(* A heap h maps each address to a node.  An element's children (elements, *)
(* texts, comments ...) are a list threaded through sibl, whose head is    *)
(* chld and whose last node is next; its attributes are a second list,     *)
(* whose head is attr.  An attribute's value is a text node in its chld    *)
(* list.  The field next of a namespace definition has a second use: while *)
(* a document is parsed it threads the list of the definitions seen.       *)
(*                                                                         *)
(* Each definition maps a heap to the heap the C function leaves.  Names,  *)
(* contents and source offsets are left out; an address is never reused,   *)
(* so that a pointer to freed memory stays recognisable.                   *)
(***************************************************************************)
EXTENDS Integers, Sequences, SequencesExt

CONSTANTS
    Addr,   \* the addresses a node can be allocated at
    Null    \* the null pointer

ASSUME AddrAssumption == Addr \subseteq Nat \ {0} /\ Null \notin Addr

\* elm: element (and the document root); att: attribute; nsd: namespace
\* definition; txt: text or CDATA; misc: comment, processing instruction or
\* doctype, which the link functions treat alike.
Kinds == {"elm", "att", "nsd", "txt", "misc"}

\* roxml_ns_t.alias: "" for a default namespace, "none" without roxml_ns_t.
Aliases == {"", "p", "none"}

Ptr == Addr \cup {Null}

Node == [kind : Kinds \cup {"unused", "freed"}, alias : Aliases,
         prnt : Ptr, sibl : Ptr, chld : Ptr, attr : Ptr, next : Ptr, ns : Ptr]

Blank(kind) == [kind |-> kind, alias |-> "none", prnt |-> Null, sibl |-> Null,
                chld |-> Null, attr |-> Null, next |-> Null, ns |-> Null]

IsAttr(h, n) == h[n].kind \in {"att", "nsd"}
Live(h) == {a \in Addr : h[a].kind \in Kinds}
Unused(h) == {a \in Addr : h[a].kind = "unused"}

\* The least k unused addresses, in order (calloc).
Fresh(h, k) ==
    CHOOSE s \in [1..k -> Unused(h)] :
        /\ \A i, j \in 1..k : i < j => s[i] < s[j]
        /\ \A a \in Unused(h) : a < s[k] => \E i \in 1..k : s[i] = a

-----------------------------------------------------------------------------
(* Reading a list.                                                         *)

\* The last node of the list that goes on from m.
LastOf(h, m) ==
    LET last[k \in Addr] == IF h[k].sibl = Null THEN k ELSE last[h[k].sibl]
    IN last[m]

\* The node reached from m by j steps along sibl.
Along(h, m, j) ==
    LET at[k \in 0..j] == IF k = 0 THEN m ELSE h[at[k - 1]].sibl
    IN at[j]

\* The nodes of the list whose head is m, in order.
ListFrom(h, m) ==
    LET list[k \in Ptr] ==
            IF k = Null THEN <<>> ELSE <<k>> \o list[h[k].sibl]
    IN list[m]

\* The node of the list from m that points to n, or the last one when none
\* does: while (current->sibl && current->sibl != n).
Before(h, m, n) ==
    LET before[k \in Addr] ==
            IF h[k].sibl \in {Null, n} THEN k ELSE before[h[k].sibl]
    IN before[m]

Children(h, p) == ListFrom(h, h[p].chld)
Attributes(h, p) == ListFrom(h, h[p].attr)

-----------------------------------------------------------------------------
(* roxml_core.c : linking a node to its parent.                            *)

\* A parent in a default namespace hands it down.
SetParent(h, p, n) ==
    LET d == h[p].ns IN
    [h EXCEPT ![n].prnt = p,
              ![n].ns = IF @ = Null /\ d # Null /\ h[d].alias = ""
                        THEN d ELSE @]

AppendAttr(h, p, n) ==
    IF h[p].attr = Null
    THEN [h EXCEPT ![p].attr = n]
    ELSE [h EXCEPT ![LastOf(h, h[p].attr)].sibl = n]

AppendOther(h, p, n) ==
    IF h[p].next = Null
    THEN [h EXCEPT ![p].chld = n, ![p].next = n]
    ELSE [h EXCEPT ![h[p].next].sibl = n, ![p].next = n]

AppendNode(h, p, n) ==
    LET g == SetParent(h, p, n)
    IN IF IsAttr(g, n) THEN AppendAttr(g, p, n) ELSE AppendOther(g, p, n)

-----------------------------------------------------------------------------
(* roxml_edit.c : roxml_add_node's choice of a place.                      *)

\* Mutant: attributes are prepended to the children.
PrependNodeChild(h, p, n) ==
    [h EXCEPT ![n].sibl = h[p].chld, ![p].chld = n]

PrependNode(h, p, n) ==
    IF IsAttr(h, n)
    THEN [h EXCEPT ![n].sibl = h[p].attr, ![p].attr = n]
    ELSE [h EXCEPT ![n].sibl = h[p].chld, ![p].chld = n]

InsertNode(h, p, n, position) ==
    LET head == IF IsAttr(h, n) THEN h[p].attr ELSE h[p].chld
        prev == Along(h, head, position - 2)
    IN [h EXCEPT ![n].sibl = h[prev].sibl, ![prev].sibl = n]

\* Mutant: always at the end.
ParentNodeLast(h, p, n, position) == AppendNode(SetParent(h, p, n), p, n)

\* roxml_parent_node: 0, or past the last one, is the end of the list.
ParentNode(h, p, n, position) ==
    LET nb == Len(IF IsAttr(h, n) THEN Attributes(h, p) ELSE Children(h, p))
        g == SetParent(h, p, n)
    IN CASE position = 0 \/ position > nb -> AppendNode(g, p, n)
         [] position = 1 /\ position <= nb -> PrependNode(g, p, n)
         [] OTHER -> InsertNode(g, p, n, position)

-----------------------------------------------------------------------------
(* Freeing.                                                                *)

\* Mutant: the attributes are forgotten.
TreeFromNoAttr(h, m) ==
    LET tree[k \in Ptr] ==
            IF k = Null THEN {} ELSE {k} \cup tree[h[k].chld] \cup tree[h[k].sibl]
    IN tree[m]

\* The nodes roxml_del_tree visits from m: m, its children, the rest of m's
\* list, its attributes.
TreeFrom(h, m) ==
    LET tree[k \in Ptr] ==
            IF k = Null THEN {}
            ELSE {k} \cup tree[h[k].chld] \cup tree[h[k].sibl]
                     \cup tree[h[k].attr]
    IN tree[m]

Release(h, S) == [a \in Addr |-> IF a \in S THEN Blank("freed") ELSE h[a]]

DelTree(h, m) == Release(h, TreeFrom(h, m))

-----------------------------------------------------------------------------
(* roxml_edit.c : unlinking.                                               *)

\* Mutant: the first sibling for the previous one.
RealPrevFirst(h, n) ==
    LET first == h[h[n].prnt].chld
    IN IF first = n THEN Null ELSE first

\* roxml_get_real_prev_sibling: the node before n, Null for the first one.
RealPrev(h, n) ==
    LET first == h[h[n].prnt].chld
    IN IF first = n THEN Null ELSE Before(h, first, n)

\* Mutant: the head of the list is not told from the others.
UnlinkNotHead(h, p, n, f) ==
    IF h[p][f] # Null THEN [h EXCEPT ![Before(h, h[p][f], n)].sibl = h[n].sibl]
    ELSE h

\* Take n out of the list that starts at field f ("chld" or "attr") of p.
Unlink(h, p, n, f) ==
    CASE h[p][f] = n -> [h EXCEPT ![p][f] = h[n].sibl]
      [] h[p][f] # n /\ h[p][f] # Null ->
            [h EXCEPT ![Before(h, h[p][f], n)].sibl = h[n].sibl]
      [] OTHER -> h

\* Mutant: the parent's last child is left as it was.
DelStdNodeStale(h, n) ==
    LET u == Unlink(h, h[n].prnt, n, "chld")
    IN Release(u, TreeFrom(u, u[n].chld) \cup TreeFrom(u, u[n].attr))

DelStdNode(h, n) ==
    LET p == h[n].prnt
        g == IF h[p].next = n THEN [h EXCEPT ![p].next = RealPrev(h, n)] ELSE h
        u == Unlink(g, p, n, "chld")
    IN Release(u, TreeFrom(u, u[n].chld) \cup TreeFrom(u, u[n].attr))

\* The first text of the list whose head is m.
FirstText(h, m) ==
    LET first[k \in Ptr] ==
            IF k = Null \/ h[k].kind = "txt" THEN k ELSE first[h[k].sibl]
    IN first[m]

\* The first text of n's parent is the one that is unlinked.
DelTxtNode(h, n) == DelStdNode(h, FirstText(h, h[h[n].prnt].chld))

\* The nodes reached from n through chld and sibl, n's own siblings excepted.
Below(h, n) ==
    LET below[k \in Addr] ==
            {k} \cup UNION {below[c] : c \in ToSet(Children(h, k))}
    IN below[n]

\* Those nodes and their attributes, but neither the namespace definitions nor
\* the values of the attributes: what roxml_set_ns and roxml_reset_ns visit.
NsScope(h, n) ==
    LET nodes == Below(h, n)
    IN nodes \cup {a \in UNION {ToSet(Attributes(h, k)) : k \in nodes} :
                      h[a].kind = "att"}

\* Mutant: the attributes are forgotten.
ResetNsNoAttr(h, e, d) ==
    LET ns[k \in Addr] ==
            IF h[k].ns # d THEN h[k].ns
            ELSE IF h[k].prnt = Null THEN Null
            ELSE IF k = e THEN h[h[e].prnt].ns
            ELSE ns[h[k].prnt]
    IN [k \in Addr |-> IF k \in Below(h, e)
                       THEN [h[k] EXCEPT !.ns = ns[k]] ELSE h[k]]

\* roxml_reset_ns: the nodes under e that use definition d take the namespace
\* of their parent, parents first; attributes follow their element.
ResetNs(h, e, d) ==
    LET ns[k \in Addr] ==
            IF h[k].ns # d THEN h[k].ns
            ELSE IF h[k].prnt = Null THEN Null
            ELSE IF k = e THEN h[h[e].prnt].ns
            ELSE ns[h[k].prnt]
    IN [k \in Addr |-> IF k \in NsScope(h, e)
                       THEN [h[k] EXCEPT !.ns = ns[k]] ELSE h[k]]

DelArgNode(h, n) ==
    LET p == h[n].prnt
        r == IF h[n].kind = "nsd" THEN ResetNs(h, p, n) ELSE h
        u == Unlink(r, p, n, "attr")
    IN DelTree(u, u[n].chld)

\* roxml_del_node, for a node that is not the document root.
DelNode(h, n) ==
    Release(CASE h[n].kind \in {"elm", "misc"} -> DelStdNode(h, n)
              [] IsAttr(h, n) -> DelArgNode(h, n)
              [] OTHER -> DelTxtNode(h, n),
            {n})

-----------------------------------------------------------------------------
(* roxml_edit.c : roxml_set_ns.                                            *)

\* n is d's element or below it: while (common_parent != ns->prnt).
UnderDef(h, n, d) ==
    LET up[k \in Ptr] == k # Null /\ (k = h[d].prnt \/ up[h[k].prnt])
    IN up[n]

SetNs(h, n, d) ==
    [k \in Addr |-> IF k \in NsScope(h, n) THEN [h[k] EXCEPT !.ns = d] ELSE h[k]]

-----------------------------------------------------------------------------
(* roxml_core.c : roxml_close of the tree whose root is r.  The attributes *)
(* of the root are not among what it deletes.                              *)

Close(h, r) ==
    Release(h, {r} \cup TreeFrom(h, h[r].chld) \cup TreeFrom(h, h[r].sibl))

=============================================================================
