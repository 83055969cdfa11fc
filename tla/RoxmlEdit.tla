------------------------------ MODULE RoxmlEdit ------------------------------
(***************************************************************************)
(* Editing one document: roxml_add_node, roxml_del_node, roxml_set_ns and  *)
(* roxml_close (src/src/roxml_edit.c, src/src/roxml_core.c) on a tree that *)
(* was loaded or created empty.  The calls are made one at a time, as the  *)
(* library asks of its write operations, with nodes of the document as     *)
(* arguments.                                                              *)
(*                                                                         *)
(* Callers names what the callers of the instance do beyond the plain      *)
(* editing of a document; the code treats some of these calls wrongly, and *)
(* an instance without them shows that the rest is right:                  *)
(*    "later text"  delete a text that is not the first of its parent      *)
(*    "used nsdef"  delete a definition that the value of an attribute, or *)
(*                  another definition, has for its namespace              *)
(*    "nsdef value" replace the value of a namespace definition            *)
(*    "root attr"   give attributes to the document root                   *)
(***************************************************************************)
EXTENDS RoxmlBuild

CONSTANTS
    Docs,        \* the documents loaded, as constructs of RoxmlBuild
    Added,       \* the kinds of node the callers add
    MaxPosition, \* the positions they ask for are 0..MaxPosition
    Callers

ASSUME CallersAssumption ==
    /\ Callers \subseteq {"later text", "used nsdef", "nsdef value", "root attr"}
    /\ Added \subseteq Kinds
    /\ MaxPosition \in Nat

Root == CHOOSE a \in Addr : \A b \in Addr : a <= b

-----------------------------------------------------------------------------
(* What a document is: a tree of nodes, told link by link.                 *)

\* From a node to those its links lead to.
Edges(h) ==
    {e \in Addr \X Addr : e[2] \in {h[e[1]].sibl, h[e[1]].chld, h[e[1]].attr}}

Upwards(h) == {e \in Addr \X Addr : <<e[2], e[1]>> \in Edges(h)}

\* No path goes on for ever.
Grounded(E) ==
    \A S \in SUBSET Addr : S # {} =>
        \E a \in S : \A b \in S : <<a, b>> \notin E

Typed(h) ==
    /\ h \in [Addr -> Node]
    /\ \A a \in Addr \ Live(h) : h[a] = Blank(h[a].kind)

\* The nodes but the root.
Hanging(h) == Live(h) \ {Root}

Rooted(h) ==
    /\ Root \in Live(h)
    /\ h[Root].kind = "elm" /\ h[Root].attr = Null
    /\ h[Root].prnt = Null /\ h[Root].sibl = Null

Closed(h) ==
    \A a \in Live(h) :
        {h[a].prnt, h[a].sibl, h[a].chld, h[a].attr} \subseteq Live(h) \cup {Null}

\* One link leads to each node but the root.
Reached(h) ==
    /\ \A a \in Hanging(h) : \E b \in Live(h) : <<b, a>> \in Edges(h)
    /\ \A a, b \in Live(h) :
          /\ h[a].sibl = h[b].sibl /\ h[a].sibl # Null => a = b
          /\ h[a].sibl # Null => h[a].sibl \notin {h[b].chld, h[b].attr}

\* A list has the nodes of one parent, attributes or not.
Families(h) ==
    /\ \A a \in Hanging(h) : h[a].prnt # Null
    /\ \A a \in Live(h) :
          /\ h[a].sibl # Null =>
                /\ h[h[a].sibl].prnt = h[a].prnt
                /\ IsAttr(h, h[a].sibl) <=> IsAttr(h, a)
          /\ h[a].chld # Null => h[h[a].chld].prnt = a /\ ~IsAttr(h, h[a].chld)
          /\ h[a].attr # Null => h[h[a].attr].prnt = a /\ IsAttr(h, h[a].attr)

\* The last child; a definition always has a value.
Ends(h) ==
    \A a \in Live(h) :
        LET l == h[a].next IN
        IF h[a].kind = "nsd" THEN h[a].chld # Null
        ELSE /\ l = Null <=> h[a].chld = Null
             /\ l # Null => /\ l \in Live(h) /\ h[l].prnt = a
                            /\ ~IsAttr(h, l) /\ h[l].sibl = Null

\* Only texts hang from what is not an element.
KindsFit(h) ==
    \A a \in Hanging(h) : h[h[a].prnt].kind = "elm" \/ h[a].kind = "txt"

Linked(h) ==
    /\ Typed(h) /\ Rooted(h) /\ Closed(h) /\ Families(h) /\ Reached(h)
    /\ Grounded(Edges(h)) /\ Grounded(Upwards(h))
    /\ Ends(h) /\ KindsFit(h)

\* What a node has for its namespace is a definition of an element around it.
Scoped(h) ==
    \A a \in Live(h) : h[a].ns # Null =>
        h[h[a].ns].kind = "nsd" /\ UnderDef(h, a, h[a].ns)

ASSUME DocsAssumption == \A d \in Docs : Linked(Parsed(d)) /\ Scoped(Parsed(d))

-----------------------------------------------------------------------------
VARIABLES
    heap,   \* the nodes
    open,   \* roxml_close has not been called
    call    \* the call made last and its arguments: a record for OrderedTree
            \* that no action reads

vars == <<heap, open, call>>

Calls ==
    [op : {"open", "set_ns", "close"}] \cup [op : {"del"}, node : Addr]
    \cup [op : {"add"}, node : Addr, position : 0..MaxPosition, kind : Added,
          valued : BOOLEAN]

Init ==
    /\ heap \in {Parsed(d) : d \in Docs}
    /\ open = TRUE
    /\ call = [op |-> "open"]

-----------------------------------------------------------------------------
(* What roxml_add_node accepts.                                            *)

\* roxml_add_node_check: the node the new one is put under, Null for none.  A
\* text can be put under an attribute that has no value; what is put beside a
\* text, a comment ... goes to its parent.
Target(parent, kind) ==
    LET up == heap[parent].prnt IN
    CASE IsAttr(heap, parent) ->
            IF kind = "txt" /\ heap[parent].chld = Null THEN parent ELSE Null
      [] heap[parent].kind = "elm" -> parent
      [] OTHER ->
            IF up # Null /\ heap[up].kind = "elm" THEN up ELSE Null

\* The new node with its generated value (roxml_generate_attr_node and
\* roxml_generate_elm_node), before it is parented.
Generated(new, kind, alias) ==
    LET n == new[1]
        g == [heap EXCEPT ![n] = [Blank(kind) EXCEPT !.alias = alias]]
    IN IF Len(new) = 1 THEN g
       ELSE AppendNode([g EXCEPT ![new[2]] = Blank("txt")], n, new[2])

AddNode(parent, position, kind, alias, size) ==
    LET p == Target(parent, kind)
        new == Fresh(heap, size)
    IN /\ open
       /\ parent \in Live(heap)
       /\ size <= Cardinality(Unused(heap))
       /\ alias \in (IF kind = "nsd" THEN {"", "p"} ELSE {"none"})
       /\ kind \in {"att", "nsd"} => size = 2
       /\ size = 2 => kind \in {"att", "nsd", "elm"}
       /\ kind \in {"att", "nsd"} /\ p = Root => "root attr" \in Callers
       /\ p # Null
       /\ heap' = ParentNode(Generated(new, kind, alias), p, new[1], position)
       /\ call' = [op |-> "add", node |-> parent, position |-> position,
                   kind |-> kind, valued |-> size = 2]
       /\ UNCHANGED open

\* The definition n is the namespace of a node that roxml_reset_ns does not
\* visit and that stays: an attribute's value, another definition.
UsedUnseen(n) ==
    \E a \in Live(heap) \ (TreeFrom(heap, heap[n].chld) \cup {n}) :
        heap[a].ns = n /\ a \notin NsScope(heap, heap[n].prnt)

\* The root has no parent: roxml_del_node is not for it.
DelNodeCall(n) ==
    /\ open
    /\ n \in Live(heap) \ {Root}
    /\ heap[n].kind = "txt" /\ FirstText(heap, heap[heap[n].prnt].chld) # n
          => "later text" \in Callers
    /\ heap[n].kind = "txt" /\ heap[heap[n].prnt].kind = "nsd"
          => "nsdef value" \in Callers
    /\ heap[n].kind = "nsd" /\ UsedUnseen(n) => "used nsdef" \in Callers
    /\ heap' = DelNode(heap, n)
    /\ call' = [op |-> "del", node |-> n]
    /\ UNCHANGED open

\* Mutant: a definition is accepted wherever it is.
SetNsCallAnywhere(n, d) ==
    /\ open
    /\ n \in Live(heap)
    /\ d = Null \/ (d \in Live(heap) /\ heap[d].kind = "nsd")
    /\ heap' = SetNs(heap, n, d)
    /\ call' = [op |-> "set_ns"]
    /\ UNCHANGED open

\* Refused, without effect, when n is not under the definition's element.
SetNsCall(n, d) ==
    /\ open
    /\ n \in Live(heap)
    /\ d = Null \/ (d \in Live(heap) /\ heap[d].kind = "nsd")
    /\ heap' = IF d = Null \/ UnderDef(heap, n, d) THEN SetNs(heap, n, d) ELSE heap
    /\ call' = [op |-> "set_ns"]
    /\ UNCHANGED open

CloseCall ==
    /\ open
    /\ open' = FALSE
    /\ heap' = Close(heap, Root)
    /\ call' = [op |-> "close"]

Next ==
    \/ \E parent \in Addr, position \in 0..MaxPosition, kind \in Added,
          alias \in Aliases, size \in {1, 2} :
             AddNode(parent, position, kind, alias, size)
    \/ \E n \in Addr : DelNodeCall(n)
    \/ \E n \in Addr, d \in Ptr : SetNsCall(n, d)
    \/ CloseCall

Spec == Init /\ [][Next]_vars

-----------------------------------------------------------------------------
(* Properties.                                                             *)

\* The types of the nodes; nothing was written to a node after it was freed.
TypeOK ==
    /\ heap \in [Addr -> Node]
    /\ open \in BOOLEAN
    /\ call \in Calls
    /\ \A a \in Addr \ Live(heap) : heap[a] = Blank(heap[a].kind)

Links(n) == {heap[n].prnt, heap[n].sibl, heap[n].chld, heap[n].attr}

\* No node of the document points, through the links of the tree, to memory
\* that roxml_del_node has freed.
NoDanglingLink ==
    \A n \in Live(heap) : Links(n) \subseteq Live(heap) \cup {Null}

\* No node refers to a namespace definition that has been freed.
NoDanglingNs ==
    \A n \in Live(heap) : heap[n].ns \in Live(heap) \cup {Null}

\* roxml_append_other finds the last child of a node through next; a stale
\* one would append after a node in the middle, or to a freed one.
LastChild ==
    \A n \in Live(heap) :
        heap[n].kind # "nsd" =>
            heap[n].next = IF heap[n].chld = Null THEN Null
                           ELSE LastOf(heap, heap[n].chld)

\* Each node hangs from exactly the parent it names: the lists and the prnt
\* links tell the same tree.
ParentsAgree ==
    \A p \in Live(heap) :
        /\ \A c \in ToSet(Children(heap, p)) :
              heap[c].prnt = p /\ ~IsAttr(heap, c)
        /\ \A c \in ToSet(Attributes(heap, p)) :
              heap[c].prnt = p /\ IsAttr(heap, c)

\* A node's namespace is declared on an element around it.
NsInScope ==
    \A n \in Live(heap) :
        heap[n].ns # Null => UnderDef(heap, n, heap[n].ns)

\* roxml_close leaves no node allocated.
CloseFreesAll == ~open => Live(heap) = {}

\* The document is an ordered tree and each call does to it what OrderedTree
\* says of that call: a node of the kind asked for added to the node and at the
\* position asked for, the subtree of the node named deleted, the rest of the
\* document as it was and in the order it was in.
Tree == INSTANCE OrderedTree WITH
    kind <- [n \in Addr |-> IF n \in Live(heap) THEN heap[n].kind ELSE "none"],
    kids <- [n \in Addr |-> IF n \in Live(heap) THEN Children(heap, n) ELSE <<>>],
    attrs <- [n \in Addr |-> IF n \in Live(heap) THEN Attributes(heap, n) ELSE <<>>]

ImplementsTree == Tree!Spec

=============================================================================
