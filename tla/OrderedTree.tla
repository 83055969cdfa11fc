---------------------------- MODULE OrderedTree ----------------------------
(***************************************************************************)
(* What the functions of src/src/roxml.h that edit a tree promise: a       *)
(* document is a tree in which every node has an ordered list of children  *)
(* and an ordered list of attributes, adding a node changes one of these   *)
(* lists at the place asked for, and deleting a node removes it and all    *)
(* that is below it, and nothing else.  The variable call carries what the *)
(* caller asked for: a step is right or wrong by the call it answers.      *)
(***************************************************************************)
EXTENDS Integers, Sequences, SequencesExt

CONSTANTS
    Addr,   \* names for nodes
    Root,   \* the document
    MaxPosition  \* the positions a caller asks for are 0..MaxPosition

VARIABLES
    kind,   \* kind[n]: the kind of node n, "none" when n is not in a tree
    kids,   \* kids[n]: its children
    attrs,  \* attrs[n]: its attributes
    call    \* the call made last, with what its caller asked for

vars == <<kind, kids, attrs, call>>

Kinds == {"elm", "att", "nsd", "txt", "misc"}
AttrKinds == {"att", "nsd"}

Alive == {n \in Addr : kind[n] # "none"}

Insert(s, position, n) ==
    IF position = 0 \/ position > Len(s) THEN Append(s, n)
    ELSE InsertAt(s, position, n)

Dropped(s, n) ==
    IF n \in ToSet(s) THEN RemoveAt(s, CHOOSE i \in DOMAIN s : s[i] = n) ELSE s

Members(m) == ToSet(kids[m]) \cup ToSet(attrs[m])

Subtree(n) ==
    LET sub[m \in Addr] == {m} \cup UNION {sub[c] : c \in Members(m)}
    IN sub[n]

\* Every node but the root is in one list, once, and below the root.
Init ==
    /\ call.op = "open"
    /\ kind[Root] # "none"
    /\ \A m \in Addr : /\ IsInjective(kids[m]) /\ IsInjective(attrs[m])
                       /\ ToSet(kids[m]) \cap ToSet(attrs[m]) = {}
    /\ \A m, o \in Addr : m # o => Members(m) \cap Members(o) = {}
    /\ UNION {Members(m) : m \in Addr} = Alive \ {Root}
    /\ Subtree(Root) = Alive

\* What is added to an element goes into it, the value an attribute lacks into
\* the attribute, and what is added to a text, a comment ... beside it.
Takes(p, at, k) ==
    \/ kind[at] = "elm" /\ p = at
    \/ kind[at] \in AttrKinds /\ k = "txt" /\ kids[at] = <<>> /\ p = at
    \/ kind[at] \in {"txt", "misc"} /\ at \in Members(p) /\ kind[p] = "elm"

\* A new node n of kind k, with a value v if one is given (v = n if not), is at
\* the position asked for in the list of its kind.
Add(at, position, k, valued) ==
    \E p, n, v \in Addr :
       /\ Takes(p, at, k)
       /\ n \notin Alive /\ v \notin Alive /\ (v # n <=> valued)
       /\ kind' = [kind EXCEPT ![v] = "txt", ![n] = k]
       /\ kids' = [[kids EXCEPT ![n] = IF v = n THEN <<>> ELSE <<v>>]
                      EXCEPT ![p] = IF k \in AttrKinds THEN @
                                    ELSE Insert(@, position, n)]
       /\ attrs' = [attrs EXCEPT ![p] = IF k \in AttrKinds
                                        THEN Insert(@, position, n) ELSE @]

\* n leaves the list it is in, and what is below it goes with it.
Delete(n) ==
    /\ n \in Alive
    /\ LET S == Subtree(n) IN
       /\ kind' = [m \in Addr |-> IF m \in S THEN "none" ELSE kind[m]]
       /\ kids' = [m \in Addr |->
                     IF m \in S THEN <<>> ELSE Dropped(kids[m], n)]
       /\ attrs' = [m \in Addr |->
                      IF m \in S THEN <<>> ELSE Dropped(attrs[m], n)]

\* Each call does what it was asked, and only that.
Next ==
    \/ \E at \in Addr, position \in 0..MaxPosition, k \in Kinds, valued \in BOOLEAN :
          /\ call' = [op |-> "add", node |-> at, position |-> position,
                      kind |-> k, valued |-> valued]
          /\ Add(at, position, k, valued)
    \/ \E n \in Addr : call' = [op |-> "del", node |-> n] /\ Delete(n)
    \/ call' = [op |-> "set_ns"] /\ UNCHANGED <<kind, kids, attrs>>
    \/ call' = [op |-> "close"] /\ Delete(Root)

Spec == Init /\ [][Next]_vars
=============================================================================
