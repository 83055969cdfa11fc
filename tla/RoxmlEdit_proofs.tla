--------------------------- MODULE RoxmlEdit_proofs ---------------------------
(***************************************************************************)
(* The links of RoxmlEdit, for any set of addresses, any documents and any *)
(* sequence of calls that deletes of the texts of a parent only the first, *)
(* keeps the values of definitions and gives the root no attribute: the    *)
(* heap is always a tree of nodes (Linked), whatever place a node is added *)
(* at and whatever is deleted.  When the callers also delete no definition *)
(* that an attribute's value or another definition has for its namespace,  *)
(* every namespace is one that is declared around the node (Scoped).       *)
(***************************************************************************)
EXTENDS RoxmlEdit, RoxmlLemmas, FiniteSetTheorems

-----------------------------------------------------------------------------
(* Reading the links.                                                      *)

LEMMA NodeFields ==
    ASSUME NEW h \in [Addr -> Node], NEW a \in Addr
    PROVE  /\ h[a].prnt \in Ptr /\ h[a].sibl \in Ptr /\ h[a].chld \in Ptr
           /\ h[a].attr \in Ptr /\ h[a].next \in Ptr /\ h[a].ns \in Ptr
           /\ h[a] \in Node
  BY DEF Node

LEMMA PtrIs == /\ \A a \in Addr : a # Null /\ a \in Ptr
               /\ Null \in Ptr /\ \A a \in Ptr : a # Null => a \in Addr
  BY AddrAssumption DEF Ptr

LEMMA EdgeIs ==
    ASSUME NEW h, NEW a, NEW b
    PROVE  <<a, b>> \in Edges(h) <=>
              /\ a \in Addr /\ b \in Addr
              /\ b \in {h[a].sibl, h[a].chld, h[a].attr}
  BY DEF Edges

LEMMA UpwardIs ==
    ASSUME NEW h, NEW a, NEW b
    PROVE  <<a, b>> \in Upwards(h) <=> <<b, a>> \in Edges(h)
  BY EdgeIs DEF Upwards

\* The pointers that the links of a node hold.
Pointers(h) == Edges(h) \cup (Addr \X {Null})

LEMMA PointerIs ==
    ASSUME NEW h \in [Addr -> Node], NEW a \in Addr
    PROVE  /\ <<a, h[a].sibl>> \in Pointers(h)
           /\ <<a, h[a].chld>> \in Pointers(h)
           /\ <<a, h[a].attr>> \in Pointers(h)
<1>1. \A b \in Ptr : b \in {h[a].sibl, h[a].chld, h[a].attr} => <<a, b>> \in Pointers(h)
  BY EdgeIs, PtrIs DEF Pointers
<1>. QED
  BY <1>1, NodeFields

\* A heap whose links can be followed to their end.
Finite(h) == h \in [Addr -> Node] /\ Grounded(Edges(h))

LEMMA FiniteFounds ==
    ASSUME NEW h, Finite(h)
    PROVE  WellFounded(Addr, Edges(h)) /\ WellFounded(Ptr, Pointers(h))
<1>1. WellFounded(Addr, Edges(h))
  BY DEF Finite, Grounded, WellFounded
<1>2. SUFFICES ASSUME NEW T \in SUBSET Ptr, T # {}
               PROVE  \E a \in T : \A b \in T : <<a, b>> \notin Pointers(h)
  BY <1>1 DEF WellFounded
<1>3. CASE Null \in T
  <2>1. \A b : <<Null, b>> \notin Pointers(h)
    BY AddrAssumption, EdgeIs DEF Pointers
  <2>. QED
    BY <1>3, <2>1
<1>4. CASE Null \notin T
  <2>1. T \in SUBSET Addr
    BY <1>4, PtrIs
  <2>2. PICK a \in T : \A b \in T : <<a, b>> \notin Edges(h)
    BY <2>1, <1>2 DEF Grounded, Finite
  <2>3. \A b \in T : <<a, b>> \notin Pointers(h)
    BY <1>4, <2>2 DEF Pointers
  <2>. QED
    BY <2>3
<1>. QED
  BY <1>3, <1>4

LEMMA LastOfIs ==
    ASSUME NEW h, Finite(h), NEW m \in Addr
    PROVE  LastOf(h, m) = IF h[m].sibl = Null THEN m ELSE LastOf(h, h[m].sibl)
<1>. DEFINE last[k \in Addr] == IF h[k].sibl = Null THEN k ELSE last[h[k].sibl]
            F == [k \in Addr |-> [f \in [Addr -> Addr] |->
                    IF h[k].sibl = Null THEN k ELSE f[h[k].sibl]]]
<1>1. \A k : LastOf(h, k) = last[k]
  BY DEF LastOf
<1>2. \A k \in Addr : h[k].sibl # Null => h[k].sibl \in Addr /\ <<k, h[k].sibl>> \in Edges(h)
  BY NodeFields, EdgeIs, PtrIs DEF Finite
<1>3. Follows(Addr, Addr, Edges(h), F)
  BY <1>2 DEF Follows
<1>4. PICK f \in [Addr -> Addr] : \A k \in Addr : f[k] = F[k][f]
  <2>1. Addr # {}
    OBVIOUS
  <2>. HIDE DEF F
  <2>. QED
    BY <1>3, <2>1, FiniteFounds, Recursion
<1>5. f = [k \in Addr |-> IF h[k].sibl = Null THEN k ELSE f[h[k].sibl]]
  BY <1>4
<1>6. last = [k \in Addr |-> IF h[k].sibl = Null THEN k ELSE last[h[k].sibl]]
  BY <1>5
<1>. HIDE DEF last
<1>7. last[m] = IF h[m].sibl = Null THEN m ELSE last[h[m].sibl]
  BY <1>6
<1>. QED
  BY <1>1, <1>7
LEMMA BeforeIs ==
    ASSUME NEW h, Finite(h), NEW n \in Addr, NEW m \in Addr
    PROVE  Before(h, m, n) = IF h[m].sibl \in {Null, n} THEN m ELSE Before(h, h[m].sibl, n)
<1>. DEFINE before[k \in Addr] ==
                IF h[k].sibl \in {Null, n} THEN k ELSE before[h[k].sibl]
            F == [k \in Addr |-> [f \in [Addr -> Addr] |->
                    IF h[k].sibl \in {Null, n} THEN k ELSE f[h[k].sibl]]]
<1>1. \A k : Before(h, k, n) = before[k]
  BY DEF Before
<1>2. \A k \in Addr : h[k].sibl # Null => h[k].sibl \in Addr /\ <<k, h[k].sibl>> \in Edges(h)
  BY NodeFields, EdgeIs, PtrIs DEF Finite
<1>3. Follows(Addr, Addr, Edges(h), F)
  BY <1>2 DEF Follows
<1>4. PICK f \in [Addr -> Addr] : \A k \in Addr : f[k] = F[k][f]
  <2>1. Addr # {}
    OBVIOUS
  <2>. HIDE DEF F
  <2>. QED
    BY <1>3, <2>1, FiniteFounds, Recursion
<1>5. f = [k \in Addr |-> IF h[k].sibl \in {Null, n} THEN k ELSE f[h[k].sibl]]
  BY <1>4
<1>6. before = [k \in Addr |-> IF h[k].sibl \in {Null, n} THEN k ELSE before[h[k].sibl]]
  BY <1>5
<1>. HIDE DEF before
<1>7. before[m] = IF h[m].sibl \in {Null, n} THEN m ELSE before[h[m].sibl]
  BY <1>6
<1>. QED
  BY <1>1, <1>7

LEMMA ListFromIs ==
    ASSUME NEW h, Finite(h)
    PROVE  /\ ListFrom(h, Null) = <<>>
           /\ \A m \in Addr : ListFrom(h, m) = <<m>> \o ListFrom(h, h[m].sibl)
           /\ \A m \in Ptr : ListFrom(h, m) \in Seq(Addr)
<1>. DEFINE list[k \in Ptr] == IF k = Null THEN <<>> ELSE <<k>> \o list[h[k].sibl]
            V == Seq(Addr)
            F == [k \in Ptr |-> [f \in [Ptr -> V] |->
                    IF k = Null THEN <<>> ELSE <<k>> \o f[h[k].sibl]]]
<1>1. \A k : ListFrom(h, k) = list[k]
  BY DEF ListFrom
<1>2. \A k \in Ptr : k # Null => /\ k \in Addr /\ h[k].sibl \in Ptr
                                 /\ <<k, h[k].sibl>> \in Pointers(h)
  BY NodeFields, PointerIs, PtrIs DEF Finite
<1>3. /\ <<>> \in V
      /\ \A k \in Ptr : \A s \in V : k # Null => <<k>> \o s \in V
  <2>1. \A k \in Addr : \A s \in Seq(Addr) : <<k>> \o s \in Seq(Addr)
    OBVIOUS
  <2>2. <<>> \in Seq(Addr)
    OBVIOUS
  <2>. QED
    BY <1>2, <2>1, <2>2
<1>4. Follows(Ptr, V, Pointers(h), F)
  <2>1. F \in [Ptr -> [[Ptr -> V] -> V]]
    <3>. HIDE DEF V
    <3>. QED
      BY <1>2, <1>3
  <2>. HIDE DEF V
  <2>2. \A a \in Ptr : \A f, g \in [Ptr -> V] :
           (\A b \in Ptr : <<a, b>> \in Pointers(h) => f[b] = g[b]) => F[a][f] = F[a][g]
    BY <1>2
  <2>. HIDE DEF F
  <2>. QED
    BY <2>1, <2>2 DEF Follows
<1>5. PICK f \in [Ptr -> V] : \A k \in Ptr : f[k] = F[k][f]
  <2>. HIDE DEF F, V
  <2>. QED
    BY <1>3, <1>4, FiniteFounds, Recursion
<1>6. f = [k \in Ptr |-> IF k = Null THEN <<>> ELSE <<k>> \o f[h[k].sibl]]
  <2>. HIDE DEF V
  <2>. QED
    BY <1>5
<1>7. list = [k \in Ptr |-> IF k = Null THEN <<>> ELSE <<k>> \o list[h[k].sibl]]
  BY <1>6
<1>. HIDE DEF list
<1>8. \A k \in Ptr : list[k] = IF k = Null THEN <<>> ELSE <<k>> \o list[h[k].sibl]
  BY <1>7
<1>. DEFINE T == {k \in Ptr : list[k] \in V}
<1>9. \A k \in Ptr : (\A b \in Ptr : <<k, b>> \in Pointers(h) => b \in T) => k \in T
  <2>. HIDE DEF V
  <2>. QED
    BY <1>2, <1>3, <1>8
<1>10. Ptr \subseteq T
  <2>. HIDE DEF T
  <2>. QED
    BY <1>9, FiniteFounds, Induction
<1>11. \A m \in Addr : m # Null /\ m \in Ptr
  BY PtrIs
<1>. QED
  BY <1>1, <1>8, <1>10, <1>11, PtrIs

\* The nodes of a list.
Members(h, m) == ToSet(ListFrom(h, m))

LEMMA MembersIs ==
    ASSUME NEW h, Finite(h)
    PROVE  /\ Members(h, Null) = {}
           /\ \A m \in Addr : Members(h, m) = {m} \cup Members(h, h[m].sibl)
           /\ \A m \in Ptr : Members(h, m) \subseteq Addr
<1>1. ToSet(<<>>) = {}
  BY DEF ToSet
<1>2. \A m \in Addr, s \in Seq(Addr) : ToSet(<<m>> \o s) = {m} \cup ToSet(s)
  <2>. SUFFICES ASSUME NEW m \in Addr, NEW s \in Seq(Addr)
                PROVE  ToSet(<<m>> \o s) = {m} \cup ToSet(s)
    OBVIOUS
  <2>. DEFINE t == <<m>> \o s
  <2>1. Len(t) = Len(s) + 1 /\ t \in Seq(Addr) /\ Len(s) \in Nat
    OBVIOUS
  <2>2. t[1] = m /\ \A i \in 1..Len(s) : t[i + 1] = s[i]
    OBVIOUS
  <2>3. ToSet(t) = {t[i] : i \in 1..Len(t)} /\ ToSet(s) = {s[i] : i \in 1..Len(s)}
    BY <2>1 DEF ToSet
  <2>. HIDE DEF t
  <2>4. \A i \in 1..Len(t) : i = 1 \/ (i - 1 \in 1..Len(s) /\ t[i] = s[i - 1])
    <3>. SUFFICES ASSUME NEW i \in 1..Len(t), i # 1
                  PROVE  i - 1 \in 1..Len(s) /\ t[i] = s[i - 1]
      OBVIOUS
    <3>1. i - 1 \in 1..Len(s) /\ i - 1 + 1 = i
      BY <2>1
    <3>. QED
      BY <2>2, <3>1
  <2>5. \A i \in 1..Len(s) : i + 1 \in 1..Len(t) /\ 1 \in 1..Len(t)
    BY <2>1
  <2>6. 1 \in 1..Len(t)
    BY <2>1
  <2>7. ASSUME NEW x \in ToSet(t)
        PROVE  x \in {m} \cup ToSet(s)
    <3>1. PICK i \in 1..Len(t) : x = t[i]
      BY <2>3
    <3>2. CASE i = 1
      BY <2>2, <3>1, <3>2
    <3>3. CASE i # 1
      <4>1. i - 1 \in 1..Len(s) /\ x = s[i - 1]
        BY <2>4, <3>1, <3>3
      <4>2. s[i - 1] \in {s[j] : j \in 1..Len(s)}
        BY <4>1, Zenon
      <4>. QED
        BY <2>3, <4>1, <4>2
    <3>. QED
      BY <3>2, <3>3
  <2>8. {m} \cup ToSet(s) \subseteq ToSet(t)
    BY <2>2, <2>3, <2>5, <2>6
  <2>. QED
    BY <2>7, <2>8 DEF t
<1>3. \A s \in Seq(Addr) : ToSet(s) \subseteq Addr
  BY DEF ToSet
<1>4. \A m \in Addr : h[m].sibl \in Ptr
  BY NodeFields DEF Finite
<1>5. \A m \in Addr : ToSet(ListFrom(h, m)) = {m} \cup ToSet(ListFrom(h, h[m].sibl))
  <2>. SUFFICES ASSUME NEW m \in Addr
                PROVE  ToSet(ListFrom(h, m)) = {m} \cup ToSet(ListFrom(h, h[m].sibl))
    OBVIOUS
  <2>1. ListFrom(h, h[m].sibl) \in Seq(Addr)
    BY <1>4, ListFromIs
  <2>2. ListFrom(h, m) = <<m>> \o ListFrom(h, h[m].sibl)
    BY ListFromIs
  <2>. QED
    BY <1>2, <2>1, <2>2
<1>6. ListFrom(h, Null) = <<>> /\ \A m \in Ptr : ListFrom(h, m) \in Seq(Addr)
  BY ListFromIs
<1>. QED
  BY <1>1, <1>3, <1>5, <1>6 DEF Members
LEMMA TreeFromIs ==
    ASSUME NEW h, Finite(h)
    PROVE  /\ TreeFrom(h, Null) = {}
           /\ \A m \in Addr : TreeFrom(h, m) = {m} \cup TreeFrom(h, h[m].chld)
                                 \cup TreeFrom(h, h[m].sibl) \cup TreeFrom(h, h[m].attr)
           /\ \A m \in Ptr : TreeFrom(h, m) \subseteq Addr
<1>. DEFINE tree[k \in Ptr] ==
                IF k = Null THEN {}
                ELSE {k} \cup tree[h[k].chld] \cup tree[h[k].sibl] \cup tree[h[k].attr]
            V == SUBSET Addr
            F == [k \in Ptr |-> [f \in [Ptr -> V] |->
                    IF k = Null THEN {}
                    ELSE {k} \cup f[h[k].chld] \cup f[h[k].sibl] \cup f[h[k].attr]]]
<1>1. \A k : TreeFrom(h, k) = tree[k]
  BY DEF TreeFrom
<1>2. \A k \in Ptr : k # Null =>
         /\ k \in Addr /\ h[k].sibl \in Ptr /\ h[k].chld \in Ptr /\ h[k].attr \in Ptr
         /\ <<k, h[k].sibl>> \in Pointers(h)
         /\ <<k, h[k].chld>> \in Pointers(h)
         /\ <<k, h[k].attr>> \in Pointers(h)
  BY NodeFields, PointerIs, PtrIs DEF Finite
<1>3. /\ {} \in V
      /\ \A k \in Ptr : \A s, t, u \in V : k # Null => {k} \cup s \cup t \cup u \in V
  BY <1>2
<1>4. Follows(Ptr, V, Pointers(h), F)
  <2>1. F \in [Ptr -> [[Ptr -> V] -> V]]
    <3>. HIDE DEF V
    <3>. QED
      BY <1>2, <1>3
  <2>. HIDE DEF V
  <2>2. \A a \in Ptr : \A f, g \in [Ptr -> V] :
           (\A b \in Ptr : <<a, b>> \in Pointers(h) => f[b] = g[b]) => F[a][f] = F[a][g]
    BY <1>2
  <2>. HIDE DEF F
  <2>. QED
    BY <2>1, <2>2 DEF Follows
<1>5. PICK f \in [Ptr -> V] : \A k \in Ptr : f[k] = F[k][f]
  <2>. HIDE DEF F, V
  <2>. QED
    BY <1>3, <1>4, FiniteFounds, Recursion
<1>6. f = [k \in Ptr |->
             IF k = Null THEN {}
             ELSE {k} \cup f[h[k].chld] \cup f[h[k].sibl] \cup f[h[k].attr]]
  <2>. HIDE DEF V
  <2>. QED
    BY <1>5
<1>7. tree = [k \in Ptr |->
                IF k = Null THEN {}
                ELSE {k} \cup tree[h[k].chld] \cup tree[h[k].sibl] \cup tree[h[k].attr]]
  BY <1>6
<1>. HIDE DEF tree
<1>8. \A k \in Ptr : tree[k] =
         IF k = Null THEN {}
         ELSE {k} \cup tree[h[k].chld] \cup tree[h[k].sibl] \cup tree[h[k].attr]
  BY <1>7
<1>. DEFINE T == {k \in Ptr : tree[k] \in V}
<1>9. \A k \in Ptr : (\A b \in Ptr : <<k, b>> \in Pointers(h) => b \in T) => k \in T
  <2>. SUFFICES ASSUME NEW k \in Ptr, \A b \in Ptr : <<k, b>> \in Pointers(h) => b \in T
                PROVE  tree[k] \in V
    <3>. HIDE DEF V
    <3>. QED
      OBVIOUS
  <2>1. CASE k = Null
    BY <2>1, <1>3, <1>8
  <2>2. CASE k # Null
    <3>1. tree[h[k].chld] \in V /\ tree[h[k].sibl] \in V /\ tree[h[k].attr] \in V
      <4>. HIDE DEF V
      <4>. QED
        BY <1>2, <2>2
    <3>2. {k} \cup tree[h[k].chld] \cup tree[h[k].sibl] \cup tree[h[k].attr] \in V
      <4>. HIDE DEF V
      <4>. QED
        BY <3>1, <1>3, <2>2
    <3>. HIDE DEF V
    <3>. QED
      BY <3>2, <2>2, <1>8
  <2>. QED
    BY <2>1, <2>2
<1>10. Ptr \subseteq T
  <2>. HIDE DEF T
  <2>. QED
    BY <1>9, FiniteFounds, Induction
<1>11. \A m \in Addr : m # Null /\ m \in Ptr
  BY PtrIs
<1>. QED
  BY <1>1, <1>8, <1>10, <1>11, PtrIs

\* From a node to its children.
Descents(h) == {e \in Addr \X Addr : e[2] \in Members(h, h[e[1]].chld)}

LEMMA DescentsFounded ==
    ASSUME NEW h, Finite(h)
    PROVE  WellFounded(Addr, Descents(h))
<1>1. SUFFICES ASSUME NEW T \in SUBSET Addr, T # {},
                      \A a \in T : \E b \in T : <<a, b>> \in Descents(h)
               PROVE  FALSE
  BY DEF WellFounded
<1>. DEFINE U == {x \in Addr : Members(h, x) \cap T # {}}
<1>2. T \subseteq U
  BY <1>1, MembersIs
<1>3. PICK x \in U : \A y \in U : <<x, y>> \notin Edges(h)
  <2>1. U \in SUBSET Addr /\ U # {}
    BY <1>1, <1>2
  <2>. HIDE DEF U
  <2>. QED
    BY <2>1, FiniteFounds DEF WellFounded
<1>4. x \in Addr /\ h[x].chld \in Ptr /\ h[x].sibl \in Ptr
  BY NodeFields DEF Finite
<1>5. CASE x \in T
  <2>1. PICK b \in T : b \in Members(h, h[x].chld)
    BY <1>1, <1>5 DEF Descents
  <2>2. h[x].chld \in Addr
    BY <1>4, <2>1, MembersIs, PtrIs
  <2>3. h[x].chld \in U
    BY <2>1, <2>2
  <2>. QED
    BY <1>3, <1>4, <2>2, <2>3, EdgeIs
<1>6. CASE x \notin T
  <2>1. PICK b \in T : b \in Members(h, h[x].sibl)
    BY <1>4, <1>6, MembersIs
  <2>2. h[x].sibl \in Addr
    BY <1>4, <2>1, MembersIs, PtrIs
  <2>3. h[x].sibl \in U
    BY <2>1, <2>2
  <2>. QED
    BY <1>3, <1>4, <2>2, <2>3, EdgeIs
<1>. QED
  BY <1>5, <1>6

LEMMA BelowIs ==
    ASSUME NEW h, Finite(h), NEW n \in Addr
    PROVE  Below(h, n) = {n} \cup UNION {Below(h, c) : c \in Members(h, h[n].chld)}
<1>. DEFINE below[k \in Addr] == {k} \cup UNION {below[c] : c \in ToSet(Children(h, k))}
            V == SUBSET Addr
            F == [k \in Addr |-> [f \in [Addr -> V] |->
                    {k} \cup UNION {f[c] : c \in Members(h, h[k].chld)}]]
<1>1. \A k : Below(h, k) = below[k]
  BY DEF Below
<1>2. \A k \in Addr : /\ ToSet(Children(h, k)) = Members(h, h[k].chld)
                      /\ Members(h, h[k].chld) \subseteq Addr
  <2>1. \A k \in Addr : h[k].chld \in Ptr
    BY NodeFields DEF Finite
  <2>. QED
    BY <2>1, MembersIs DEF Children, Members
<1>3. \A k, c \in Addr : c \in Members(h, h[k].chld) => <<k, c>> \in Descents(h)
  BY DEF Descents
<1>4. Follows(Addr, V, Descents(h), F)
  <2>1. \A k \in Addr : \A f \in [Addr -> V] :
           {k} \cup UNION {f[c] : c \in Members(h, h[k].chld)} \in V
    BY <1>2
  <2>2. F \in [Addr -> [[Addr -> V] -> V]]
    <3>. HIDE DEF V
    <3>. QED
      BY <2>1
  <2>. HIDE DEF V
  <2>3. \A a \in Addr : \A f, g \in [Addr -> V] :
           (\A b \in Addr : <<a, b>> \in Descents(h) => f[b] = g[b]) => F[a][f] = F[a][g]
    <3>. SUFFICES ASSUME NEW a \in Addr, NEW f \in [Addr -> V], NEW g \in [Addr -> V],
                         \A b \in Addr : <<a, b>> \in Descents(h) => f[b] = g[b]
                  PROVE  F[a][f] = F[a][g]
      <4>. HIDE DEF F
      <4>. QED
        OBVIOUS
    <3>1. \A c \in Members(h, h[a].chld) : f[c] = g[c]
      BY <1>2, <1>3
    <3>2. {f[c] : c \in Members(h, h[a].chld)} = {g[c] : c \in Members(h, h[a].chld)}
      BY <3>1
    <3>. QED
      BY <3>2
  <2>. HIDE DEF F
  <2>. QED
    BY <2>2, <2>3 DEF Follows
<1>5. PICK f \in [Addr -> V] : \A k \in Addr : f[k] = F[k][f]
  <2>1. V # {}
    OBVIOUS
  <2>. HIDE DEF F, V
  <2>. QED
    BY <1>4, <2>1, DescentsFounded, Recursion
<1>6. f = [k \in Addr |-> {k} \cup UNION {f[c] : c \in ToSet(Children(h, k))}]
  <2>. HIDE DEF V
  <2>1. \A k \in Addr : f[k] = {k} \cup UNION {f[c] : c \in ToSet(Children(h, k))}
    BY <1>2, <1>5
  <2>. QED
    BY <2>1
<1>7. below = [k \in Addr |-> {k} \cup UNION {below[c] : c \in ToSet(Children(h, k))}]
  BY <1>6
<1>. HIDE DEF below
<1>8. below[n] = {n} \cup UNION {below[c] : c \in Members(h, h[n].chld)}
  BY <1>2, <1>7
<1>. QED
  BY <1>1, <1>8
-----------------------------------------------------------------------------
(* Lists of nodes of the same parent.                                      *)

Siblings(h) ==
    \A a \in Live(h) : h[a].sibl # Null =>
        /\ h[a].sibl \in Live(h) /\ h[h[a].sibl].prnt = h[a].prnt
        /\ IsAttr(h, h[a].sibl) <=> IsAttr(h, a)

LEMMA LiveAddr == \A h : Live(h) \subseteq Addr /\ Null \notin Live(h)
  BY AddrAssumption DEF Live

LEMMA ListSame ==
    ASSUME NEW h, Finite(h), Siblings(h), NEW k \in Live(h)
    PROVE  \A c \in Members(h, k) :
              /\ c \in Live(h) /\ h[c].prnt = h[k].prnt
              /\ IsAttr(h, c) <=> IsAttr(h, k)
<1>. DEFINE Same(a) == \A c \in Members(h, a) :
                          /\ c \in Live(h) /\ h[c].prnt = h[a].prnt
                          /\ IsAttr(h, c) <=> IsAttr(h, a)
            T == {a \in Addr : a \in Live(h) => Same(a)}
<1>1. ASSUME NEW a \in Addr, \A b \in Addr : <<a, b>> \in Edges(h) => b \in T
      PROVE  a \in T
  <2>1. SUFFICES ASSUME a \in Live(h)
                 PROVE  Same(a)
    OBVIOUS
  <2>2. h[a].sibl \in Ptr /\ Members(h, a) = {a} \cup Members(h, h[a].sibl)
    BY NodeFields, MembersIs DEF Finite
  <2>3. CASE h[a].sibl = Null
    BY <2>1, <2>2, <2>3, MembersIs
  <2>4. CASE h[a].sibl # Null
    <3>1. h[a].sibl \in Live(h) /\ h[a].sibl \in Addr
      BY <2>1, <2>4, LiveAddr DEF Siblings
    <3>2. Same(h[a].sibl)
      <4>. HIDE DEF Same
      <4>. QED
        BY <1>1, <3>1, EdgeIs
    <3>. QED
      BY <2>1, <2>2, <2>4, <3>1, <3>2 DEF Siblings
  <2>. QED
    BY <2>3, <2>4
<1>2. Addr \subseteq T
  <2>. HIDE DEF T
  <2>. QED
    BY <1>1, FiniteFounds, Induction
<1>. QED
  BY <1>2, LiveAddr

\* What roxml_append_attr finds at the end of a list is the one node without
\* a next.
LEMMA LastMember ==
    ASSUME NEW h, Finite(h), NEW k \in Addr
    PROVE  /\ LastOf(h, k) \in Members(h, k) /\ h[LastOf(h, k)].sibl = Null
           /\ \A c \in Members(h, k) : h[c].sibl = Null => c = LastOf(h, k)
<1>. DEFINE P(a) == /\ LastOf(h, a) \in Members(h, a) /\ h[LastOf(h, a)].sibl = Null
                    /\ \A c \in Members(h, a) : h[c].sibl = Null => c = LastOf(h, a)
            T == {a \in Addr : P(a)}
<1>1. ASSUME NEW a \in Addr, \A b \in Addr : <<a, b>> \in Edges(h) => b \in T
      PROVE  a \in T
  <2>1. /\ h[a].sibl \in Ptr /\ Members(h, a) = {a} \cup Members(h, h[a].sibl)
        /\ LastOf(h, a) = IF h[a].sibl = Null THEN a ELSE LastOf(h, h[a].sibl)
    BY NodeFields, MembersIs, LastOfIs DEF Finite
  <2>2. CASE h[a].sibl = Null
    BY <2>1, <2>2, MembersIs
  <2>3. CASE h[a].sibl # Null
    <3>1. h[a].sibl \in Addr
      BY <2>1, <2>3, PtrIs
    <3>2. P(h[a].sibl)
      <4>. HIDE DEF P
      <4>. QED
        BY <1>1, <3>1, EdgeIs
    <3>. QED
      BY <2>1, <2>3, <3>2
  <2>. QED
    BY <2>2, <2>3
<1>2. Addr \subseteq T
  <2>. HIDE DEF T
  <2>. QED
    BY <1>1, FiniteFounds, Induction
<1>. QED
  BY <1>2

\* What the loop over current->sibl != n finds in a list is what leads to n.
LEMMA BeforeFinds ==
    ASSUME NEW h, Finite(h), NEW k \in Addr, NEW n \in Addr,
           NEW b \in Members(h, k), h[b].sibl = n,
           \A c \in Addr : h[c].sibl = n => c = b
    PROVE  Before(h, k, n) = b
<1>. DEFINE T == {a \in Addr : b \in Members(h, a) => Before(h, a, n) = b}
<1>1. ASSUME NEW a \in Addr, \A c \in Addr : <<a, c>> \in Edges(h) => c \in T
      PROVE  a \in T
  <2>1. SUFFICES ASSUME b \in Members(h, a)
                 PROVE  Before(h, a, n) = b
    OBVIOUS
  <2>2. /\ h[a].sibl \in Ptr /\ Members(h, a) = {a} \cup Members(h, h[a].sibl)
        /\ Before(h, a, n) = IF h[a].sibl \in {Null, n} THEN a ELSE Before(h, h[a].sibl, n)
    BY NodeFields, MembersIs, BeforeIs DEF Finite
  <2>3. CASE h[a].sibl = n
    BY <2>2, <2>3
  <2>4. CASE h[a].sibl = Null
    BY <2>1, <2>2, <2>4, MembersIs, AddrAssumption
  <2>5. CASE h[a].sibl \notin {Null, n}
    <3>1. h[a].sibl \in Addr
      BY <2>2, <2>5, PtrIs
    <3>2. b \in Members(h, h[a].sibl)
      BY <2>1, <2>2, <2>5
    <3>3. Before(h, h[a].sibl, n) = b
      BY <1>1, <3>1, <3>2, EdgeIs
    <3>. QED
      BY <2>2, <2>5, <3>3
  <2>. QED
    BY <2>3, <2>4, <2>5
<1>2. Addr \subseteq T
  <2>. HIDE DEF T
  <2>. QED
    BY <1>1, FiniteFounds, Induction
<1>. QED
  BY <1>2

LEMMA ListSteps ==
    ASSUME NEW h, Finite(h), NEW k \in Addr
    PROVE  /\ Len(ListFrom(h, k)) \in Nat \ {0} /\ ListFrom(h, k)[1] = k
           /\ \A i \in 1..Len(ListFrom(h, k)) - 1 :
                 ListFrom(h, k)[i + 1] = h[ListFrom(h, k)[i]].sibl
<1>. DEFINE P(L, a) == /\ Len(L) \in Nat \ {0} /\ L[1] = a
                       /\ \A i \in 1..Len(L) - 1 : L[i + 1] = h[L[i]].sibl
            T == {a \in Addr : P(ListFrom(h, a), a)}
<1>1. ASSUME NEW a \in Addr, \A b \in Addr : <<a, b>> \in Edges(h) => b \in T
      PROVE  a \in T
  <2>. DEFINE L == ListFrom(h, a)
              M == ListFrom(h, h[a].sibl)
  <2>1. h[a].sibl \in Ptr /\ L = <<a>> \o M /\ M \in Seq(Addr) /\ Len(M) \in Nat
    BY NodeFields, ListFromIs DEF Finite
  <2>2. /\ Len(L) = Len(M) + 1 /\ L[1] = a
        /\ \A i \in 1..Len(M) : L[i + 1] = M[i]
    <3>. HIDE DEF L, M
    <3>. QED
      BY <2>1
  <2>3. CASE h[a].sibl = Null
    <3>1. Len(M) = 0
      BY <2>3, ListFromIs
    <3>. HIDE DEF L, M
    <3>2. P(L, a)
      BY <2>2, <3>1
    <3>. QED
      BY <3>2 DEF L
  <2>4. CASE h[a].sibl # Null
    <3>1. h[a].sibl \in Addr
      BY <2>1, <2>4, PtrIs
    <3>2. P(M, h[a].sibl)
      <4>1. h[a].sibl \in T
        BY <1>1, <3>1, EdgeIs
      <4>. HIDE DEF P
      <4>. QED
        BY <4>1
    <3>. HIDE DEF L, M
    <3>3. ASSUME NEW i \in 1..Len(L) - 1
          PROVE  L[i + 1] = h[L[i]].sibl
      <4>1. i \in 1..Len(M) /\ L[i + 1] = M[i]
        BY <2>1, <2>2
      <4>2. CASE i = 1
        BY <2>2, <3>2, <4>1, <4>2
      <4>3. CASE i # 1
        <5>1. i - 1 \in 1..Len(M) - 1 /\ i - 1 + 1 = i /\ i - 1 \in 1..Len(M)
          BY <2>1, <4>1, <4>3
        <5>2. L[i] = M[i - 1] /\ M[i] = h[M[i - 1]].sibl
          BY <2>2, <3>2, <5>1
        <5>. QED
          BY <4>1, <5>2
      <4>. QED
        BY <4>2, <4>3
    <3>4. P(L, a)
      BY <2>1, <2>2, <3>3
    <3>. QED
      BY <3>4 DEF L
  <2>. QED
    BY <2>3, <2>4
<1>2. Addr \subseteq T
  <2>. HIDE DEF T
  <2>. QED
    BY <1>1, FiniteFounds, Induction
<1>. QED
  BY <1>2

\* The loop over positions stays in the list as long as there are nodes.
LEMMA AlongFinds ==
    ASSUME NEW h, Finite(h), NEW k \in Addr, NEW j \in Nat, j < Len(ListFrom(h, k))
    PROVE  Along(h, k, j) \in Members(h, k) /\ Along(h, k, j) = ListFrom(h, k)[j + 1]
<1>. DEFINE at[i \in 0..j] == IF i = 0 THEN k ELSE h[at[i - 1]].sibl
            L == ListFrom(h, k)
            f == [i \in 0..j |-> L[i + 1]]
<1>1. Along(h, k, j) = at[j]
  BY DEF Along
<1>2. /\ Len(L) \in Nat /\ j < Len(L) /\ L[1] = k
      /\ \A i \in 1..Len(L) - 1 : L[i + 1] = h[L[i]].sibl
  BY ListSteps
<1>. HIDE DEF L
<1>3. \A i \in 0..j : f[i] = IF i = 0 THEN k ELSE h[f[i - 1]].sibl
  <2>. SUFFICES ASSUME NEW i \in 0..j
                PROVE  f[i] = IF i = 0 THEN k ELSE h[f[i - 1]].sibl
    OBVIOUS
  <2>1. CASE i = 0
    BY <1>2, <2>1
  <2>2. CASE i # 0
    <3>1. i - 1 \in 0..j /\ i - 1 + 1 = i /\ i \in 1..Len(L) - 1
      BY <1>2, <2>2
    <3>2. f[i - 1] = L[i] /\ f[i] = L[i + 1]
      BY <3>1
    <3>3. L[i + 1] = h[L[i]].sibl
      BY <1>2, <3>1
    <3>. QED
      BY <2>2, <3>2, <3>3
  <2>. QED
    BY <2>1, <2>2
<1>4. f = [i \in 0..j |-> IF i = 0 THEN k ELSE h[f[i - 1]].sibl]
  BY <1>3
<1>5. at = [i \in 0..j |-> IF i = 0 THEN k ELSE h[at[i - 1]].sibl]
  BY <1>4
<1>. HIDE DEF at
<1>6. \A i \in 0..j : at[i] = IF i = 0 THEN k ELSE h[at[i - 1]].sibl
  BY <1>5
<1>. DEFINE S == {i \in Nat : i <= j => at[i] = L[i + 1]}
<1>7. 0 \in S
  BY <1>2, <1>6
<1>8. ASSUME NEW i \in Nat, i \in S
      PROVE  i + 1 \in S
  <2>1. SUFFICES ASSUME i + 1 <= j
                 PROVE  at[i + 1] = L[i + 1 + 1]
    OBVIOUS
  <2>2. at[i] = L[i + 1]
    BY <1>8, <2>1
  <2>3. i + 1 \in 0..j /\ i + 1 # 0 /\ i + 1 - 1 = i /\ i + 1 \in 1..Len(L) - 1
    BY <1>2, <2>1
  <2>4. at[i + 1] = h[at[i]].sibl
    BY <1>6, <2>3
  <2>. QED
    BY <1>2, <2>2, <2>3, <2>4
<1>9. Nat \subseteq S
  <2>. HIDE DEF S
  <2>. QED
    BY <1>7, <1>8, SetInduction
<1>10. at[j] = L[j + 1]
  BY <1>9
<1>11. L \in Seq(Addr)
  BY ListFromIs, PtrIs DEF L
<1>12. L[j + 1] \in ToSet(L)
  <2>1. j + 1 \in DOMAIN L
    BY <1>2, <1>11
  <2>. QED
    BY <2>1 DEF ToSet
<1>. QED
  BY <1>1, <1>10, <1>12 DEF Members, L

\* Both directions of a grounded heap.
LEMMA UpFounded ==
    ASSUME NEW h, Grounded(Upwards(h))
    PROVE  WellFounded(Addr, Upwards(h))
  BY DEF Grounded, WellFounded

LEMMA LinkedFinite == \A h : Linked(h) => Finite(h) /\ Siblings(h)
  BY LiveAddr DEF Linked, Finite, Siblings, Typed, Closed, Families

\* The list of n's parent that n is in.
ListOf(h, n) == IF IsAttr(h, n) THEN h[h[n].prnt].attr ELSE h[h[n].prnt].chld

\* Each node is in the list of its parent.
LEMMA Listed ==
    ASSUME NEW h, Linked(h), NEW n \in Hanging(h)
    PROVE  h[n].prnt \in Live(h) /\ ListOf(h, n) \in Live(h) /\ n \in Members(h, ListOf(h, n))
<1>. DEFINE P(a) == /\ h[a].prnt \in Live(h) /\ ListOf(h, a) \in Live(h)
                    /\ a \in Members(h, ListOf(h, a))
            T == {a \in Addr : a \in Hanging(h) => P(a)}
<1>0. Finite(h) /\ Siblings(h) /\ Hanging(h) \subseteq Live(h)
  BY LinkedFinite DEF Hanging
<1>1. ASSUME NEW a \in Addr, \A b \in Addr : <<a, b>> \in Upwards(h) => b \in T
      PROVE  a \in T
  <2>1. SUFFICES ASSUME a \in Hanging(h)
                 PROVE  P(a)
    OBVIOUS
  <2>2. PICK b \in Live(h) : <<b, a>> \in Edges(h)
    BY <2>1 DEF Linked, Reached
  <2>3. b \in T /\ b \in Addr /\ b \in Ptr
    BY <1>1, <2>2, UpwardIs, LiveAddr, PtrIs
  <2>4. a \in {h[b].sibl, h[b].chld, h[b].attr} /\ a # Null /\ a \in Live(h)
    BY <2>1, <2>2, EdgeIs, AddrAssumption DEF Hanging
  <2>5. CASE h[b].sibl = a
    <3>1. b \in Hanging(h)
      BY <2>2, <2>4, <2>5 DEF Hanging, Linked, Rooted
    <3>2. P(b)
      <4>. HIDE DEF P
      <4>. QED
        BY <2>3, <3>1
    <3>3. h[a].prnt = h[b].prnt /\ ListOf(h, a) = ListOf(h, b)
      BY <1>0, <2>2, <2>4, <2>5 DEF Siblings, ListOf
    <3>4. a \in Members(h, ListOf(h, b))
      <4>. DEFINE S == {c \in Addr : b \in Members(h, c) => a \in Members(h, c)}
      <4>1. ASSUME NEW c \in Addr, \A d \in Addr : <<c, d>> \in Edges(h) => d \in S
            PROVE  c \in S
        <5>1. SUFFICES ASSUME b \in Members(h, c)
                       PROVE  a \in Members(h, c)
          OBVIOUS
        <5>2. h[c].sibl \in Ptr /\ Members(h, c) = {c} \cup Members(h, h[c].sibl)
          BY <1>0, NodeFields, MembersIs DEF Finite
        <5>3. CASE c = b
          <6>1. a \in Members(h, a)
            BY <1>0, MembersIs
          <6>. QED
            BY <5>2, <5>3, <6>1, <2>5
        <5>4. CASE c # b
          <6>1. b \in Members(h, h[c].sibl)
            BY <5>1, <5>2, <5>4
          <6>2. h[c].sibl \in Addr
            BY <1>0, <5>2, <6>1, MembersIs, PtrIs
          <6>3. a \in Members(h, h[c].sibl)
            BY <4>1, <6>1, <6>2, EdgeIs
          <6>. QED
            BY <5>2, <6>3
        <5>. QED
          BY <5>3, <5>4
      <4>2. Addr \subseteq S
        <5>. HIDE DEF S
        <5>. QED
          BY <1>0, <4>1, FiniteFounds, Induction
      <4>3. ListOf(h, b) \in Addr
        BY <3>2, LiveAddr
      <4>. QED
        BY <3>2, <4>2, <4>3
    <3>. QED
      BY <3>2, <3>3, <3>4
  <2>6. CASE h[b].chld = a
    <3>1. h[a].prnt = b /\ ListOf(h, a) = a
      BY <2>2, <2>4, <2>6 DEF Linked, Families, ListOf
    <3>. QED
      BY <1>0, <2>2, <2>4, <3>1, MembersIs
  <2>7. CASE h[b].attr = a
    <3>1. h[a].prnt = b /\ ListOf(h, a) = a
      BY <2>2, <2>4, <2>7 DEF Linked, Families, ListOf
    <3>. QED
      BY <1>0, <2>2, <2>4, <3>1, MembersIs
  <2>. QED
    BY <2>4, <2>5, <2>6, <2>7
<1>2. Addr \subseteq T
  <2>. HIDE DEF T
  <2>. QED
    BY <1>1, UpFounded, Induction DEF Linked
<1>. QED
  BY <1>0, <1>2, LiveAddr

\* s is the list of nodes that starts with m.
Chain(h, m, s) ==
    /\ s \in Seq(Addr)
    /\ IF Len(s) = 0 THEN m = Null ELSE s[1] = m
    /\ \A i \in 1..Len(s) : h[s[i]].sibl = IF i = Len(s) THEN Null ELSE s[i + 1]

\* What is read along sibl is a list.
LEMMA ListChain ==
    ASSUME NEW h, Finite(h), NEW m \in Ptr
    PROVE  Chain(h, m, ListFrom(h, m))
<1>. DEFINE End(a) == h[ListFrom(h, a)[Len(ListFrom(h, a))]].sibl = Null
            T == {a \in Addr : End(a)}
<1>1. ASSUME NEW a \in Addr, \A b \in Addr : <<a, b>> \in Edges(h) => b \in T
      PROVE  a \in T
  <2>. DEFINE L == ListFrom(h, a)
              M == ListFrom(h, h[a].sibl)
  <2>0. h[a].sibl \in Ptr
    BY NodeFields DEF Finite
  <2>4. L = <<a>> \o M /\ M \in Seq(Addr)
    BY <2>0, ListFromIs
  <2>1. h[a].sibl \in Ptr /\ L = <<a>> \o M /\ M \in Seq(Addr) /\ Len(M) \in Nat
    BY <2>0, <2>4
  <2>2. CASE h[a].sibl = Null
    <3>1. Len(M) = 0
      BY <2>2, ListFromIs
    <3>. HIDE DEF M
    <3>2. Len(L) = 1 /\ L[1] = a
      BY <2>1, <3>1
    <3>. QED
      BY <2>2, <3>2
  <2>3. CASE h[a].sibl # Null
    <3>1. h[a].sibl \in Addr
      BY <2>1, <2>3, PtrIs
    <3>2. End(h[a].sibl) /\ Len(M) # 0
      <4>1. h[a].sibl \in T
        BY <1>1, <3>1, EdgeIs
      <4>2. Len(M) # 0
        BY <3>1, ListSteps
      <4>. QED
        BY <4>1, <4>2
    <3>3. h[M[Len(M)]].sibl = Null
      BY <3>2
    <3>. HIDE DEF M
    <3>4. Len(L) = Len(M) + 1 /\ L[Len(M) + 1] = M[Len(M)]
      BY <2>1, <3>2
    <3>. QED
      BY <3>3, <3>4
  <2>. QED
    BY <2>2, <2>3
<1>2. Addr \subseteq T
  <2>. HIDE DEF T
  <2>. QED
    BY <1>1, FiniteFounds, Induction
<1>3. CASE m = Null
  BY <1>3, ListFromIs DEF Chain
<1>4. CASE m # Null
  <2>1. m \in Addr
    BY <1>4, PtrIs
  <2>2. End(m)
    BY <1>2, <2>1
  <2>3. /\ Len(ListFrom(h, m)) \in Nat \ {0} /\ ListFrom(h, m)[1] = m
        /\ \A i \in 1..Len(ListFrom(h, m)) - 1 :
              ListFrom(h, m)[i + 1] = h[ListFrom(h, m)[i]].sibl
    BY <2>1, ListSteps
  <2>4. ListFrom(h, m) \in Seq(Addr)
    BY ListFromIs
  <2>. QED
    BY <2>2, <2>3, <2>4 DEF Chain
<1>. QED
  BY <1>3, <1>4

LEMMA ChainPrefix ==
    ASSUME NEW h, NEW m, NEW s, NEW t, Chain(h, m, s), Chain(h, m, t)
    PROVE  Len(s) <= Len(t) /\ \A i \in 1..Len(s) : s[i] = t[i]
<1>. DEFINE Q(i) == i + 1 <= Len(s) => i + 1 <= Len(t) /\ s[i + 1] = t[i + 1]
            S == {i \in Nat : Q(i)}
<1>0. Len(s) \in Nat /\ Len(t) \in Nat
  BY DEF Chain
<1>1. \A i \in 1..Len(s) : s[i] \in Addr /\ s[i] # Null
  BY AddrAssumption DEF Chain
<1>2. 0 \in S
  BY <1>0, <1>1 DEF Chain
<1>3. ASSUME NEW i \in Nat, i \in S
      PROVE  i + 1 \in S
  <2>. SUFFICES ASSUME i + 1 + 1 <= Len(s)
                PROVE  i + 1 + 1 <= Len(t) /\ s[i + 1 + 1] = t[i + 1 + 1]
    OBVIOUS
  <2>1. i + 1 <= Len(t) /\ s[i + 1] = t[i + 1]
    BY <1>0, <1>3
  <2>2. i + 1 \in 1..Len(s) /\ i + 1 # Len(s) /\ i + 1 \in 1..Len(t)
        /\ i + 1 + 1 \in 1..Len(s)
    BY <1>0, <2>1
  <2>3. h[s[i + 1]].sibl = s[i + 1 + 1]
    BY <2>2 DEF Chain
  <2>4. h[t[i + 1]].sibl = IF i + 1 = Len(t) THEN Null ELSE t[i + 1 + 1]
    BY <2>2 DEF Chain
  <2>5. s[i + 1 + 1] # Null
    BY <1>1, <2>2
  <2>. QED
    BY <1>0, <2>1, <2>3, <2>4, <2>5
<1>4. Nat \subseteq S
  <2>. HIDE DEF S
  <2>. QED
    BY <1>2, <1>3, SetInduction
<1>5. ASSUME NEW i \in 1..Len(s)
      PROVE  i <= Len(t) /\ s[i] = t[i]
  <2>1. i - 1 \in Nat /\ i - 1 + 1 = i
    BY <1>0
  <2>2. Q(i - 1)
    BY <1>4, <2>1
  <2>. QED
    BY <1>0, <2>1, <2>2
<1>6. Len(s) <= Len(t)
  BY <1>0, <1>5
<1>. QED
  BY <1>5, <1>6

\* There is one.
LEMMA ChainIs ==
    ASSUME NEW h, Finite(h), NEW m \in Ptr, NEW s, Chain(h, m, s)
    PROVE  ListFrom(h, m) = s
<1>. DEFINE t == ListFrom(h, m)
<1>1. Chain(h, m, t)
  BY ListChain
<1>. HIDE DEF t
<1>2. /\ Len(s) <= Len(t) /\ \A i \in 1..Len(s) : s[i] = t[i]
      /\ Len(t) <= Len(s)
  BY <1>1, ChainPrefix
<1>3. s \in Seq(Addr) /\ t \in Seq(Addr)
  BY <1>1 DEF Chain
<1>4. t = s
  BY <1>2, <1>3
<1>. QED
  BY <1>4 DEF t

\* A node is in it once.
LEMMA ChainOnce ==
    ASSUME NEW h, Finite(h), NEW m, NEW s, Chain(h, m, s),
           NEW i \in 1..Len(s), NEW j \in 1..Len(s), s[i] = s[j]
    PROVE  i = j
<1>0. Len(s) \in Nat /\ i \in Nat /\ j \in Nat /\ \A k \in 1..Len(s) : s[k] \in Addr
  BY DEF Chain
<1>1. ASSUME NEW x \in 1..Len(s), NEW y \in 1..Len(s), x < y, s[x] = s[y]
      PROVE  FALSE
  <2>. DEFINE S == {s[k] : k \in x..(y - 1)}
  <2>1. S \in SUBSET Addr /\ s[x] \in S
    BY <1>0, <1>1
  <2>2. PICK a \in S : \A b \in S : <<a, b>> \notin Edges(h)
    <3>. HIDE DEF S
    <3>. QED
      BY <2>1 DEF Finite, Grounded
  <2>3. PICK k \in x..(y - 1) : a = s[k]
    BY <2>2
  <2>4. k \in 1..Len(s) /\ k # Len(s) /\ k + 1 \in 1..Len(s) /\ k + 1 \in x..y
    BY <1>0, <2>3
  <2>5. h[a].sibl = s[k + 1] /\ s[k + 1] \in Addr
    BY <1>0, <2>3, <2>4 DEF Chain
  <2>6. s[k + 1] \in S
    <3>1. CASE k + 1 = y
      BY <1>1, <2>1, <3>1
    <3>2. CASE k + 1 # y
      BY <1>0, <2>4, <3>2
    <3>. QED
      BY <3>1, <3>2
  <2>7. <<a, s[k + 1]>> \in Edges(h)
    <3>1. a \in Addr
      BY <2>1, <2>2
    <3>. QED
      BY <2>5, <3>1, EdgeIs
  <2>. QED
    BY <2>2, <2>6, <2>7
<1>. QED
  BY <1>0, <1>1

LEMMA ChainMembers ==
    ASSUME NEW h, Finite(h), NEW m \in Ptr
    PROVE  Members(h, m) = {ListFrom(h, m)[i] : i \in 1..Len(ListFrom(h, m))}
<1>1. ListFrom(h, m) \in Seq(Addr)
  BY ListFromIs
<1>. QED
  BY <1>1 DEF Members, ToSet

\* A list none of whose nodes goes on otherwise is the same.
LEMMA ChainKept ==
    ASSUME NEW h, NEW g, Finite(h), Finite(g), NEW m \in Ptr,
           \A c \in Members(h, m) : g[c].sibl = h[c].sibl
    PROVE  ListFrom(g, m) = ListFrom(h, m)
<1>. DEFINE L == ListFrom(h, m)
<1>1. Chain(h, m, L)
  BY ListChain
<1>2. Members(h, m) = {L[i] : i \in 1..Len(L)}
  BY ChainMembers
<1>. HIDE DEF L
<1>3. \A i \in 1..Len(L) : g[L[i]].sibl = h[L[i]].sibl
  BY <1>2
<1>4. Chain(g, m, L)
  BY <1>1, <1>3 DEF Chain
<1>. QED
  BY <1>4, ChainIs DEF L

-----------------------------------------------------------------------------
(* What a tree of nodes gives.                                             *)

\* No two nodes of one parent are both the last of the same list.
LEMMA OneLast ==
    ASSUME NEW h, Linked(h), NEW a \in Hanging(h), NEW b \in Hanging(h),
           h[a].prnt = h[b].prnt, IsAttr(h, a) <=> IsAttr(h, b),
           h[a].sibl = Null, h[b].sibl = Null
    PROVE  a = b
<1>1. ListOf(h, a) = ListOf(h, b)
  BY DEF ListOf
<1>. QED
  BY <1>1, Listed, LinkedFinite, LastMember, LiveAddr

LEMMA LinkedLast ==
    ASSUME Linked(heap)
    PROVE  LastChild
<1>1. SUFFICES ASSUME NEW n \in Live(heap), heap[n].kind # "nsd", heap[n].chld # Null
               PROVE  heap[n].next = LastOf(heap, heap[n].chld)
  BY DEF LastChild, Linked, Ends
<1>. DEFINE l == heap[n].next
            c == heap[n].chld
<1>2. /\ l \in Live(heap) /\ heap[l].prnt = n /\ ~IsAttr(heap, l) /\ heap[l].sibl = Null
  BY <1>1 DEF Linked, Ends
<1>3. l \in Hanging(heap)
  BY <1>1, <1>2, LiveAddr DEF Hanging, Linked, Rooted
<1>4. l \in Members(heap, c)
  BY <1>2, <1>3, Listed DEF ListOf
<1>5. c \in Addr
  BY <1>1, LiveAddr DEF Linked, Closed
<1>. QED
  BY <1>2, <1>4, <1>5, LastMember, LinkedFinite

LEMMA LinkedParents ==
    ASSUME Linked(heap)
    PROVE  ParentsAgree
<1>1. ASSUME NEW p \in Live(heap), NEW m \in {heap[p].chld, heap[p].attr}, NEW c \in Members(heap, m)
      PROVE  /\ heap[c].prnt = p
             /\ m = heap[p].chld => ~IsAttr(heap, c)
             /\ m = heap[p].attr => IsAttr(heap, c)
  <2>1. m # Null /\ m \in Live(heap)
    BY <1>1, MembersIs, LinkedFinite DEF Linked, Closed
  <2>2. heap[c].prnt = heap[m].prnt /\ (IsAttr(heap, c) <=> IsAttr(heap, m))
    BY <1>1, <2>1, ListSame, LinkedFinite
  <2>. QED
    BY <2>1, <2>2 DEF Linked, Families
<1>. QED
  BY <1>1 DEF ParentsAgree, Members, Children, Attributes

LEMMA LinkedLinks ==
    ASSUME Linked(heap)
    PROVE  NoDanglingLink
  BY DEF NoDanglingLink, Links, Linked, Closed
-----------------------------------------------------------------------------
(* Adding a node.                                                          *)

\* The link f of b.
Link(h, b, f) ==
    IF f = "sibl" THEN h[b].sibl ELSE IF f = "chld" THEN h[b].chld ELSE h[b].attr

AttrKinds == {"att", "nsd"}

\* The link f of b is one of the list of p that a node of that kind is in.
InList(h, p, kind, b, f) ==
    \/ f = "chld" /\ b = p /\ kind \notin AttrKinds
    \/ f = "attr" /\ b = p /\ kind \in AttrKinds
    \/ /\ f = "sibl" /\ b \in Live(h) /\ h[b].prnt = p
       /\ h[b].kind \in AttrKinds <=> kind \in AttrKinds

\* g is h with the link f of b, that is one of p's, set to the new node n,
\* which goes on as that link did and has the value v, or v = n and none.
Attached(h, g, p, n, v, b, f) ==
    /\ g \in [Addr -> Node] /\ n \in Addr \ Live(h) /\ v \in Addr \ Live(h)
    /\ p \in Live(h) /\ InList(h, p, g[n].kind, b, f)
    /\ \A a \in Addr \ (Live(h) \cup {n, v}) : g[a] = h[a]
    /\ g[n].kind \in Kinds /\ g[n].prnt = p /\ g[n].sibl = Link(h, b, f)
    /\ g[n].attr = Null
    /\ v = n => g[n].chld = Null /\ g[n].next = Null /\ g[n].kind # "nsd"
    /\ v # n => /\ g[n].chld = v /\ g[n].next = v
                /\ g[v].kind = "txt" /\ g[v].prnt = n /\ g[v].sibl = Null
                /\ g[v].chld = Null /\ g[v].attr = Null /\ g[v].next = Null
    /\ h[p].kind = "elm" \/ (h[p].kind = "att" /\ g[n].kind = "txt")
    /\ p = Root => ~IsAttr(g, n)
    /\ g[n].ns \in {Null, h[p].ns} /\ (v # n => g[v].ns = Null)
    /\ \A a \in Live(h) :
          /\ g[a].kind = h[a].kind /\ g[a].prnt = h[a].prnt /\ g[a].ns = h[a].ns
          /\ g[a].sibl = IF f = "sibl" /\ a = b THEN n ELSE h[a].sibl
          /\ g[a].chld = IF f = "chld" /\ a = b THEN n ELSE h[a].chld
          /\ g[a].attr = IF f = "attr" /\ a = b THEN n ELSE h[a].attr
          /\ g[a].next = IF a = p /\ ~IsAttr(g, n) /\ Link(h, b, f) = Null THEN n
                         ELSE h[a].next

\* Who is alive, and where the links lead.
LEMMA AttachedLive ==
    ASSUME NEW h, NEW g, NEW p, NEW n, NEW v, NEW b, NEW f, Linked(h),
           Attached(h, g, p, n, v, b, f)
    PROVE  /\ Live(g) = Live(h) \cup {n, v} /\ b \in Live(h) /\ f \in {"sibl", "chld", "attr"}
           /\ n # Null /\ v # Null /\ n # Root /\ v # Root
           /\ \A a \in Live(h) : a # n /\ a # v /\ (IsAttr(g, a) <=> IsAttr(h, a))
           /\ Link(h, b, f) \in Live(h) \cup {Null}
<1>1. \A a \in Addr : a \in Live(g) <=> a \in Live(h) \cup {n, v}
  <2>. SUFFICES ASSUME NEW a \in Addr
                PROVE  a \in Live(g) <=> a \in Live(h) \cup {n, v}
    OBVIOUS
  <2>1. CASE a \in Live(h)
    BY <2>1 DEF Attached, Live
  <2>2. CASE a \in {n, v}
    BY <2>2 DEF Attached, Live, Kinds
  <2>3. CASE a \notin Live(h) \cup {n, v}
    BY <2>3 DEF Attached, Live
  <2>. QED
    BY <2>1, <2>2, <2>3
<1>2. Live(g) = Live(h) \cup {n, v}
  BY <1>1, LiveAddr DEF Attached
<1>3. b \in Live(h) /\ f \in {"sibl", "chld", "attr"}
  BY DEF Attached, InList, IsAttr, AttrKinds
<1>4. n # Null /\ v # Null /\ n # Root /\ v # Root
  BY AddrAssumption DEF Attached, Linked, Rooted
<1>5. \A a \in Live(h) : a # n /\ a # v /\ (IsAttr(g, a) <=> IsAttr(h, a))
  BY DEF Attached, IsAttr
<1>6. Link(h, b, f) \in Live(h) \cup {Null}
  BY <1>3 DEF Linked, Closed, Link
<1>. QED
  BY <1>2, <1>3, <1>4, <1>5, <1>6

LEMMA LiveEdges ==
    ASSUME NEW h, Linked(h), NEW a, NEW c, <<a, c>> \in Edges(h)
    PROVE  a \in Live(h) /\ c \in Live(h)
<1>1. a \in Addr /\ c \in Addr /\ c # Null /\ c \in {h[a].sibl, h[a].chld, h[a].attr}
  BY EdgeIs, AddrAssumption
<1>2. a \in Live(h)
  BY <1>1 DEF Linked, Typed, Blank
<1>. QED
  BY <1>1, <1>2 DEF Linked, Closed

LEMMA AttachedEdges ==
    ASSUME NEW h, NEW g, NEW p, NEW n, NEW v, NEW b, NEW f, Linked(h),
           Attached(h, g, p, n, v, b, f), NEW a, NEW c, <<a, c>> \in Edges(g)
    PROVE  \/ a \in Live(h) /\ c \in Live(h) /\ <<a, c>> \in Edges(h)
           \/ a = b /\ c = n
           \/ a = n /\ c = Link(h, b, f) /\ c \in Live(h)
           \/ a = n /\ c = v /\ v # n
<1>1. a \in Addr /\ c \in Addr /\ c # Null /\ c \in {g[a].sibl, g[a].chld, g[a].attr}
  BY EdgeIs, AddrAssumption
<1>2. CASE a \in Live(h)
  <2>1. (c = n /\ a = b) \/ c \in {h[a].sibl, h[a].chld, h[a].attr}
    BY <1>1, <1>2 DEF Attached
  <2>. QED
    BY <1>1, <2>1, LiveEdges, EdgeIs
<1>3. CASE a = n
  <2>1. /\ g[n].sibl = Link(h, b, f) /\ g[n].attr = Null
        /\ g[n].chld = Null \/ (g[n].chld = v /\ v # n)
    BY DEF Attached
  <2>2. Link(h, b, f) \in Live(h) \cup {Null}
    BY AttachedLive
  <2>. QED
    BY <1>1, <1>3, <2>1, <2>2
<1>4. CASE a = v /\ v # n
  BY <1>1, <1>4 DEF Attached
<1>5. CASE a \notin Live(h) \cup {n, v}
  BY <1>1, <1>5, LiveEdges, EdgeIs DEF Attached
<1>. QED
  BY <1>2, <1>3, <1>4, <1>5

LEMMA AttachedGrounded ==
    ASSUME NEW h, NEW g, NEW p, NEW n, NEW v, NEW b, NEW f, Linked(h),
           Attached(h, g, p, n, v, b, f)
    PROVE  Grounded(Edges(g)) /\ Grounded(Upwards(g))
<1>. DEFINE m == Link(h, b, f)
<1>1. /\ b \in Live(h) /\ n \notin Live(h) /\ v \notin Live(h) /\ Null \notin Live(h)
      /\ Live(h) \subseteq Addr
  BY AttachedLive, LiveAddr
<1>2. \A a, c : <<a, c>> \in Edges(g) =>
         \/ a \in Live(h) /\ c \in Live(h) /\ <<a, c>> \in Edges(h)
         \/ a = b /\ c = n
         \/ a = n /\ c = m /\ c \in Live(h)
         \/ a = n /\ c = v /\ v # n
  <2>. SUFFICES ASSUME NEW a, NEW c, <<a, c>> \in Edges(g)
                PROVE  \/ a \in Live(h) /\ c \in Live(h) /\ <<a, c>> \in Edges(h)
                       \/ a = b /\ c = n
                       \/ a = n /\ c = m /\ c \in Live(h)
                       \/ a = n /\ c = v /\ v # n
    OBVIOUS
  <2>. QED
    BY AttachedEdges
<1>3. /\ m \in Live(h) => <<b, m>> \in Edges(h)
      /\ m \in Live(h) \cup {Null}
  BY <1>1, AttachedLive, EdgeIs DEF Link
<1>. HIDE DEF m
<1>4. ASSUME NEW S \in SUBSET Addr, S # {}
      PROVE  \E a \in S : \A c \in S : <<a, c>> \notin Edges(g)
  <2>1. CASE v \in S /\ v # n
    BY <1>1, <1>2, <2>1
  <2>2. CASE v \notin S \/ v = n
    <3>. DEFINE T == S \ {n}
    <3>1. CASE T = {}
      <4>1. n \in S /\ \A c \in S : c = n
        BY <1>4, <3>1
      <4>. QED
        BY <1>1, <1>2, <4>1, <2>2
    <3>2. CASE T # {}
      <4>1. PICK a \in T : \A c \in T : <<a, c>> \notin Edges(h)
        <5>1. T \in SUBSET Addr
          OBVIOUS
        <5>. HIDE DEF T
        <5>. QED
          BY <3>2, <5>1 DEF Linked, Grounded
      <4>2. CASE a = b /\ n \in S
        <5>1. m \notin S \/ m \notin Live(h)
          BY <1>1, <1>3, <4>1, <4>2
        <5>2. \A c \in S : <<n, c>> \notin Edges(g)
          BY <1>1, <1>2, <2>2, <5>1
        <5>. QED
          BY <4>2, <5>2
      <4>3. CASE a # b \/ n \notin S
        <5>1. \A c \in S : <<a, c>> \notin Edges(g)
          BY <1>1, <1>2, <4>1, <4>3
        <5>. QED
          BY <4>1, <5>1
      <4>. QED
        BY <4>2, <4>3
    <3>. QED
      BY <3>1, <3>2
  <2>. QED
    BY <2>1, <2>2
<1>5. ASSUME NEW S \in SUBSET Addr, S # {}
      PROVE  \E a \in S : \A c \in S : <<c, a>> \notin Edges(g)
  <2>. DEFINE T == S \ {n, v}
  <2>1. CASE T = {}
    <3>1. CASE n \in S
      BY <1>1, <1>2, <2>1, <3>1
    <3>2. CASE n \notin S
      <4>1. v \in S /\ v # n /\ \A c \in S : c = v
        BY <1>5, <2>1, <3>2
      <4>. QED
        BY <1>1, <1>2, <4>1
    <3>. QED
      BY <3>1, <3>2
  <2>2. CASE T # {}
    <3>1. PICK a \in T : \A c \in T : <<c, a>> \notin Edges(h)
      <4>1. T \in SUBSET Addr
        OBVIOUS
      <4>. HIDE DEF T
      <4>2. PICK a \in T : \A c \in T : <<a, c>> \notin Upwards(h)
        BY <2>2, <4>1 DEF Linked, Grounded
      <4>3. \A c : <<c, a>> \in Edges(h) => <<a, c>> \in Upwards(h)
        BY UpwardIs
      <4>. QED
        BY <4>2, <4>3
    <3>2. CASE a = m /\ n \in S
      <4>1. b \notin S
        BY <1>1, <1>3, <3>1, <3>2, AddrAssumption
      <4>2. \A c \in S : <<c, n>> \notin Edges(g)
        BY <1>1, <1>2, <4>1
      <4>. QED
        BY <3>2, <4>2
    <3>3. CASE a # m \/ n \notin S
      <4>1. \A c \in S : <<c, a>> \notin Edges(g)
        BY <1>1, <1>2, <3>1, <3>3
      <4>. QED
        BY <3>1, <4>1
    <3>. QED
      BY <3>2, <3>3
  <2>. QED
    BY <2>1, <2>2
<1>. QED
  BY <1>4, <1>5, UpwardIs DEF Grounded
LEMMA AttachedFamilies ==
    ASSUME NEW h, NEW g, NEW p, NEW n, NEW v, NEW b, NEW f, Linked(h),
           Attached(h, g, p, n, v, b, f)
    PROVE  Closed(g) /\ Families(g)
<1>. DEFINE m == Link(h, b, f)
<1>1. /\ Live(g) = Live(h) \cup {n, v} /\ b \in Live(h) /\ p \in Live(h)
      /\ f \in {"sibl", "chld", "attr"}
      /\ n # Null /\ v # Null /\ n # Root /\ v # Root
      /\ \A a \in Live(h) : a # n /\ a # v /\ (IsAttr(g, a) <=> IsAttr(h, a))
      /\ m \in Live(h) \cup {Null}
  <2>1. p \in Live(h)
    BY DEF Attached
  <2>. QED
    BY <2>1, AttachedLive
<1>2. \A a \in Live(h) :
         /\ h[a].sibl # Null => /\ h[h[a].sibl].prnt = h[a].prnt
                                /\ IsAttr(h, h[a].sibl) <=> IsAttr(h, a)
         /\ h[a].chld # Null => h[h[a].chld].prnt = a /\ ~IsAttr(h, h[a].chld)
         /\ h[a].attr # Null => h[h[a].attr].prnt = a /\ IsAttr(h, h[a].attr)
         /\ {h[a].prnt, h[a].sibl, h[a].chld, h[a].attr} \subseteq Live(h) \cup {Null}
  BY DEF Linked, Families, Closed
<1>3. m # Null => h[m].prnt = p /\ (IsAttr(h, m) <=> IsAttr(g, n))
  BY <1>1, <1>2 DEF Attached, InList, IsAttr, AttrKinds, Link
<1>4. v # n => ~IsAttr(g, v)
  BY DEF Attached, IsAttr
<1>. HIDE DEF m
<1>5. /\ g[n].prnt = p /\ g[n].sibl = m /\ g[n].attr = Null
      /\ g[n].chld = IF v = n THEN Null ELSE v
      /\ v # n => g[v].prnt = n /\ g[v].sibl = Null /\ g[v].chld = Null /\ g[v].attr = Null
  BY DEF Attached, m
<1>6. ASSUME NEW a \in Live(h)
      PROVE  /\ g[a].prnt = h[a].prnt
             /\ g[a].sibl = IF f = "sibl" /\ a = b THEN n ELSE h[a].sibl
             /\ g[a].chld = IF f = "chld" /\ a = b THEN n ELSE h[a].chld
             /\ g[a].attr = IF f = "attr" /\ a = b THEN n ELSE h[a].attr
  BY DEF Attached
<1>7. InList(h, p, g[n].kind, b, f)
  BY DEF Attached
<1>8. Closed(g)
  <2>. SUFFICES ASSUME NEW a \in Live(g)
                PROVE  {g[a].prnt, g[a].sibl, g[a].chld, g[a].attr} \subseteq Live(g) \cup {Null}
    BY DEF Closed
  <2>1. CASE a \in Live(h)
    BY <1>1, <1>2, <1>6, <2>1
  <2>2. CASE a \in {n, v}
    BY <1>1, <1>5, <2>2
  <2>. QED
    BY <1>1, <2>1, <2>2
<1>9. \A a \in Hanging(g) : g[a].prnt # Null
  BY <1>1, <1>5, <1>6, LiveAddr DEF Hanging, Linked, Families
<1>10. ASSUME NEW a \in Live(g)
       PROVE  /\ g[a].sibl # Null => /\ g[g[a].sibl].prnt = g[a].prnt
                                     /\ IsAttr(g, g[a].sibl) <=> IsAttr(g, a)
              /\ g[a].chld # Null => g[g[a].chld].prnt = a /\ ~IsAttr(g, g[a].chld)
              /\ g[a].attr # Null => g[g[a].attr].prnt = a /\ IsAttr(g, g[a].attr)
  <2>1. CASE a \in Live(h)
    <3>1. g[a].sibl # Null => /\ g[g[a].sibl].prnt = g[a].prnt
                              /\ IsAttr(g, g[a].sibl) <=> IsAttr(g, a)
      BY <1>1, <1>2, <1>5, <1>6, <1>7, <2>1 DEF InList, IsAttr, AttrKinds
    <3>2. g[a].chld # Null => g[g[a].chld].prnt = a /\ ~IsAttr(g, g[a].chld)
      BY <1>1, <1>2, <1>5, <1>6, <1>7, <2>1 DEF InList, IsAttr, AttrKinds
    <3>3. g[a].attr # Null => g[g[a].attr].prnt = a /\ IsAttr(g, g[a].attr)
      BY <1>1, <1>2, <1>5, <1>6, <1>7, <2>1 DEF InList, IsAttr, AttrKinds
    <3>. QED
      BY <3>1, <3>2, <3>3
  <2>2. CASE a = n
    BY <1>1, <1>3, <1>4, <1>5, <1>6, <2>2
  <2>3. CASE a = v /\ v # n
    BY <1>5, <2>3
  <2>. QED
    BY <1>1, <2>1, <2>2, <2>3
<1>. QED
  BY <1>8, <1>9, <1>10 DEF Families

LEMMA AttachedReached ==
    ASSUME NEW h, NEW g, NEW p, NEW n, NEW v, NEW b, NEW f, Linked(h),
           Attached(h, g, p, n, v, b, f)
    PROVE  Reached(g)
<1>. DEFINE m == Link(h, b, f)
<1>1. /\ Live(g) = Live(h) \cup {n, v} /\ b \in Live(h) /\ Live(g) \subseteq Addr
      /\ f \in {"sibl", "chld", "attr"}
      /\ n # Null /\ v # Null /\ \A a \in Live(h) : a # n /\ a # v
      /\ m \in Live(h) \cup {Null} /\ Null \notin Live(h)
  BY AttachedLive, LiveAddr
<1>2. /\ \A a \in Hanging(h) : \E c \in Live(h) : <<c, a>> \in Edges(h)
      /\ \A a, c \in Live(h) :
            /\ h[a].sibl = h[c].sibl /\ h[a].sibl # Null => a = c
            /\ h[a].sibl # Null => h[a].sibl \notin {h[c].chld, h[c].attr}
      /\ \A a, c \in Live(h) :
            /\ h[a].chld = h[c].chld /\ h[a].chld # Null => a = c
            /\ h[a].attr = h[c].attr /\ h[a].attr # Null => a = c
            /\ h[a].chld # Null => h[a].chld # h[c].attr
            /\ {h[a].sibl, h[a].chld, h[a].attr} \subseteq Live(h) \cup {Null}
  BY DEF Linked, Reached, Families, Closed
<1>3. /\ g[n].sibl = m /\ g[n].attr = Null
      /\ g[n].chld = IF v = n THEN Null ELSE v
      /\ v # n => g[v].sibl = Null /\ g[v].chld = Null /\ g[v].attr = Null
  BY DEF Attached
<1>4. ASSUME NEW a \in Live(h)
      PROVE  /\ g[a].sibl = IF f = "sibl" /\ a = b THEN n ELSE h[a].sibl
             /\ g[a].chld = IF f = "chld" /\ a = b THEN n ELSE h[a].chld
             /\ g[a].attr = IF f = "attr" /\ a = b THEN n ELSE h[a].attr
  BY DEF Attached
<1>5. m = IF f = "sibl" THEN h[b].sibl ELSE IF f = "chld" THEN h[b].chld ELSE h[b].attr
  BY DEF Link
<1>. HIDE DEF m
<1>6. ASSUME NEW a \in Hanging(g)
      PROVE  \E c \in Live(g) : <<c, a>> \in Edges(g)
  <2>1. CASE a = n
    <3>1. n \in {g[b].sibl, g[b].chld, g[b].attr}
      BY <1>1, <1>4
    <3>. QED
      BY <1>1, <2>1, <3>1, EdgeIs
  <2>2. CASE a = v /\ v # n
    BY <1>1, <1>3, <2>2, EdgeIs
  <2>3. CASE a \in Live(h)
    <3>1. a \in Hanging(h)
      BY <2>3 DEF Hanging
    <3>2. PICK c \in Live(h) : <<c, a>> \in Edges(h)
      BY <1>2, <3>1
    <3>3. a \in {h[c].sibl, h[c].chld, h[c].attr}
      BY <3>2, EdgeIs
    <3>4. a \in {g[c].sibl, g[c].chld, g[c].attr} \/ (c = b /\ a = m)
      BY <1>1, <1>4, <1>5, <3>3
    <3>5. CASE a \in {g[c].sibl, g[c].chld, g[c].attr}
      BY <1>1, <2>3, <3>5, EdgeIs
    <3>6. CASE a = m
      <4>1. a \in {g[n].sibl, g[n].chld, g[n].attr}
        BY <1>3, <3>6
      <4>. QED
        BY <1>1, <2>3, <4>1, EdgeIs
    <3>. QED
      BY <3>4, <3>5, <3>6
  <2>. QED
    BY <1>1, <2>1, <2>2, <2>3 DEF Hanging
<1>7. ASSUME NEW a \in Live(g), NEW c \in Live(g), g[a].sibl # Null
      PROVE  /\ g[a].sibl = g[c].sibl => a = c
             /\ g[a].sibl \notin {g[c].chld, g[c].attr}
  <2>1. a \in Live(h) \cup {n} /\ (c \in Live(h) \cup {n} \/ (c = v /\ v # n))
    BY <1>1, <1>3, <1>7
  <2>2. CASE c = v /\ v # n
    BY <1>3, <1>7, <2>2
  <2>3. CASE a \in Live(h) /\ c \in Live(h)
    BY <1>1, <1>2, <1>4, <1>7, <2>3
  <2>4. CASE a = n /\ c \in Live(h)
    BY <1>1, <1>2, <1>3, <1>4, <1>5, <1>7, <2>4
  <2>5. CASE a \in Live(h) /\ c = n
    BY <1>1, <1>2, <1>3, <1>4, <1>5, <1>7, <2>5
  <2>6. CASE a = n /\ c = n
    BY <1>1, <1>3, <1>7, <2>6
  <2>. QED
    BY <2>1, <2>2, <2>3, <2>4, <2>5, <2>6
<1>. QED
  BY <1>6, <1>7 DEF Reached

\* The last child is the new node when it is put at the end.
LEMMA AttachedEnds ==
    ASSUME NEW h, NEW g, NEW p, NEW n, NEW v, NEW b, NEW f, Linked(h),
           Attached(h, g, p, n, v, b, f)
    PROVE  Ends(g)
<1>. DEFINE m == Link(h, b, f)
            LastFits(k, a) ==
                /\ k[a].next = Null <=> k[a].chld = Null
                /\ k[a].next # Null =>
                      /\ k[a].next \in Live(k) /\ k[k[a].next].prnt = a
                      /\ ~IsAttr(k, k[a].next) /\ k[k[a].next].sibl = Null
<1>1. /\ Live(g) = Live(h) \cup {n, v} /\ b \in Live(h) /\ p \in Live(h)
      /\ f \in {"sibl", "chld", "attr"} /\ Null \notin Live(h)
      /\ n # Null /\ v # Null
      /\ \A a \in Live(h) : a # n /\ a # v /\ (IsAttr(g, a) <=> IsAttr(h, a))
  <2>1. p \in Live(h)
    BY DEF Attached
  <2>. QED
    BY <2>1, AttachedLive, LiveAddr
<1>2. \A a \in Live(h) : IF h[a].kind = "nsd" THEN h[a].chld # Null ELSE LastFits(h, a)
  BY DEF Linked, Ends
<1>3. ASSUME NEW a \in Live(h)
      PROVE  /\ g[a].kind = h[a].kind /\ g[a].prnt = h[a].prnt
             /\ g[a].sibl = IF f = "sibl" /\ a = b THEN n ELSE h[a].sibl
             /\ g[a].chld = IF f = "chld" /\ a = b THEN n ELSE h[a].chld
             /\ g[a].next = IF a = p /\ ~IsAttr(g, n) /\ m = Null THEN n ELSE h[a].next
  BY DEF Attached
<1>4. ASSUME NEW a \in Live(g)
      PROVE  IF g[a].kind = "nsd" THEN g[a].chld # Null ELSE LastFits(g, a)
  <2>1. CASE a = n
    <3>1. CASE v = n
      BY <2>1, <3>1 DEF Attached
    <3>2. CASE v # n
      <4>1. ~IsAttr(g, v)
        BY <3>2 DEF Attached, IsAttr
      <4>. QED
        BY <1>1, <2>1, <3>2, <4>1 DEF Attached
    <3>. QED
      BY <3>1, <3>2
  <2>2. CASE a = v /\ v # n
    BY <2>2 DEF Attached
  <2>3. CASE a \in Live(h) /\ g[a].kind = "nsd"
    BY <1>1, <1>2, <1>3, <2>3
  <2>4. CASE a \in Live(h) /\ g[a].kind # "nsd"
    <3>1. LastFits(h, a) /\ a # n /\ a # v
      BY <1>1, <1>2, <1>3, <2>4
    <3>2. CASE a = p /\ ~IsAttr(g, n) /\ m = Null
      <4>1. g[a].next = n /\ g[n].prnt = a /\ g[n].sibl = Null
        BY <1>3, <2>4, <3>2 DEF Attached
      <4>2. g[a].chld # Null
        <5>1. CASE f = "chld"
          BY <1>1, <1>3, <2>4, <3>2, <5>1 DEF Attached, InList, IsAttr, AttrKinds
        <5>2. CASE f = "sibl"
          <6>1. b \in Hanging(h) /\ ~IsAttr(h, b) /\ h[b].prnt = a
            BY <1>1, <3>2, <5>2 DEF Attached, InList, IsAttr, AttrKinds, Hanging, Linked, Rooted
          <6>2. h[a].chld \in Live(h)
            BY <6>1, Listed DEF ListOf
          <6>. QED
            BY <1>1, <1>3, <2>4, <6>2
        <5>3. f # "attr"
          BY <3>2 DEF Attached, InList, IsAttr, AttrKinds
        <5>. QED
          BY <1>1, <5>1, <5>2, <5>3
      <4>. QED
        BY <1>1, <3>2, <4>1, <4>2
    <3>3. CASE ~(a = p /\ ~IsAttr(g, n) /\ m = Null)
      <4>. DEFINE l == h[a].next
      <4>1. g[a].next = l
        BY <1>3, <2>4, <3>3
      <4>2. g[a].chld = Null <=> h[a].chld = Null
        <5>1. CASE f = "chld" /\ a = b
          <6>1. a = p /\ ~IsAttr(g, n) /\ h[a].chld = m
            BY <5>1 DEF Attached, InList, IsAttr, AttrKinds, Link
          <6>. QED
            BY <1>1, <1>3, <2>4, <3>3, <5>1, <6>1
        <5>2. CASE ~(f = "chld" /\ a = b)
          BY <1>3, <2>4, <5>2
        <5>. QED
          BY <5>1, <5>2
      <4>3. CASE l = Null
        BY <2>4, <3>1, <4>1, <4>2, <4>3
      <4>4. CASE l # Null
        <5>1. l \in Live(h) /\ h[l].prnt = a /\ ~IsAttr(h, l) /\ h[l].sibl = Null
          BY <3>1, <4>4
        <5>2. ~(f = "sibl" /\ l = b)
          <6>1. SUFFICES ASSUME f = "sibl", l = b
                         PROVE  FALSE
            OBVIOUS
          <6>2. a = p /\ ~IsAttr(g, n) /\ m = Null
            BY <5>1, <6>1 DEF Attached, InList, IsAttr, AttrKinds, Link
          <6>. QED
            BY <3>3, <6>2
        <5>3. g[l].sibl = Null /\ g[l].prnt = a /\ ~IsAttr(g, l) /\ l \in Live(g)
          BY <1>1, <1>3, <5>1, <5>2
        <5>. QED
          BY <3>1, <4>1, <4>2, <4>4, <5>3
      <4>. QED
        BY <4>3, <4>4
    <3>. QED
      BY <2>4, <3>2, <3>3
  <2>. QED
    BY <1>1, <2>1, <2>2, <2>3, <2>4
<1>. QED
  BY <1>4 DEF Ends

LEMMA AttachedKeeps ==
    ASSUME NEW h, NEW g, NEW p, NEW n, NEW v, NEW b, NEW f, Linked(h),
           Attached(h, g, p, n, v, b, f)
    PROVE  Linked(g)
<1>1. /\ Live(g) = Live(h) \cup {n, v} /\ b \in Live(h) /\ n # Root /\ v # Root
      /\ \A a \in Live(h) : a # n /\ a # v
  BY AttachedLive
<1>2. Typed(g)
  <2>1. \A a \in Addr \ Live(g) : g[a] = h[a]
    BY <1>1 DEF Attached
  <2>. QED
    BY <1>1, <2>1 DEF Attached, Linked, Typed
<1>3. Rooted(g)
  <2>1. Root \in Live(h) /\ h[Root].kind = "elm" /\ h[Root].prnt = Null
        /\ h[Root].sibl = Null /\ h[Root].attr = Null
    BY DEF Linked, Rooted
  <2>2. ~(f = "sibl" /\ b = Root)
    BY <2>1, LiveAddr DEF Attached, InList, IsAttr, AttrKinds
  <2>3. ~(f = "attr" /\ b = Root)
    BY DEF Attached, InList, IsAttr, AttrKinds
  <2>. QED
    BY <1>1, <2>1, <2>2, <2>3 DEF Attached, Rooted
<1>4. KindsFit(g)
  <2>. SUFFICES ASSUME NEW a \in Hanging(g)
                PROVE  g[g[a].prnt].kind = "elm" \/ g[a].kind = "txt"
    BY DEF KindsFit
  <2>1. CASE a = n
    BY <2>1 DEF Attached
  <2>2. CASE a = v /\ v # n
    BY <2>2 DEF Attached
  <2>3. CASE a \in Live(h)
    <3>1. a \in Hanging(h) /\ h[a].prnt \in Live(h)
      BY <2>3, Listed DEF Hanging
    <3>. QED
      BY <2>3, <3>1 DEF Attached, Linked, KindsFit
  <2>. QED
    BY <1>1, <2>1, <2>2, <2>3 DEF Hanging
<1>. QED
  BY <1>2, <1>3, <1>4, AttachedFamilies, AttachedReached, AttachedGrounded, AttachedEnds
     DEF Linked

\* calloc gives nodes that are not in use, two different ones if asked for two.
LEMMA FreshIs ==
    ASSUME NEW h, NEW k \in {1, 2}, k <= Cardinality(Unused(h))
    PROVE  /\ Fresh(h, k) \in [1..k -> Unused(h)]
           /\ k = 2 => Fresh(h, k)[1] # Fresh(h, k)[2]
<1>. DEFINE U == Unused(h)
            Good(s) == /\ \A i, j \in 1..k : i < j => s[i] < s[j]
                       /\ \A a \in U : a < s[k] => \E i \in 1..k : s[i] = a
<1>1. U \subseteq Nat
  BY AddrAssumption DEF Unused
<1>2. U # {}
  BY FS_EmptySet
<1>3. PICK a \in U : \A c \in U : a <= c
  <2>. HIDE DEF U
  <2>. QED
    BY <1>1, <1>2, LeastNumber
<1>4. \E s \in [1..k -> U] : Good(s)
  <2>1. CASE k = 1
    <3>. DEFINE s == [i \in 1..1 |-> a]
    <3>1. s \in [1..1 -> U] /\ s[1] = a
      OBVIOUS
    <3>. HIDE DEF U, s
    <3>2. Good(s)
      BY <1>1, <1>3, <2>1, <3>1
    <3>. QED
      BY <2>1, <3>1, <3>2
  <2>2. CASE k = 2
    <3>. DEFINE T == U \ {a}
    <3>1. T # {}
      <4>1. SUFFICES ASSUME T = {}
                     PROVE  FALSE
        OBVIOUS
      <4>2. U = {a}
        BY <4>1
      <4>. QED
        BY <2>2, <4>2, FS_Singleton
    <3>2. PICK b \in T : \A c \in T : b <= c
      <4>1. T \subseteq Nat
        BY <1>1
      <4>. HIDE DEF T
      <4>. QED
        BY <3>1, <4>1, LeastNumber
    <3>. DEFINE s == [i \in 1..2 |-> IF i = 1 THEN a ELSE b]
    <3>3. s \in [1..2 -> U] /\ s[1] = a /\ s[2] = b
      OBVIOUS
    <3>4. a < b /\ \A c \in U : c < b => c = a
      BY <1>1, <1>3, <3>2
    <3>5. \A i \in 1..2 : i = 1 \/ i = 2
      OBVIOUS
    <3>. HIDE DEF U, s
    <3>6. \A i, j \in 1..2 : i < j => s[i] < s[j]
      <4>1. \A i, j \in 1..2 : i < j => i = 1 /\ j = 2
        OBVIOUS
      <4>. QED
        BY <4>1, <3>3, <3>4
    <3>7. Good(s)
      BY <2>2, <3>3, <3>4, <3>6
    <3>. QED
      BY <2>2, <3>3, <3>7
  <2>. QED
    BY <2>1, <2>2
<1>. DEFINE x == CHOOSE s \in [1..k -> U] : Good(s)
<1>5. x \in [1..k -> U] /\ Good(x)
  <2>. HIDE DEF Good, U
  <2>. QED
    BY <1>4
<1>6. Fresh(h, k) = x
  BY DEF Fresh
<1>7. k = 2 => x[1] # x[2]
  <2>. SUFFICES ASSUME k = 2
                PROVE  x[1] < x[2]
    <3>1. k = 2 => x[1] \in Nat
      BY <1>1, <1>5
    <3>. QED
      BY <3>1
  <2>1. \A i, j \in 1..2 : i < j => x[i] < x[j]
    BY <1>5
  <2>. HIDE DEF x
  <2>. QED
    BY <2>1
<1>. QED
  BY <1>5, <1>6, <1>7

\* G has, beside what h has, the node n with the value v, or n = v without.
Sprouted(h, G, n, v, kind) ==
    /\ G \in [Addr -> Node] /\ n \in Unused(h) /\ v \in Unused(h)
    /\ \A a \in Addr \ {n, v} : G[a] = h[a]
    /\ G[n].kind = kind /\ G[n].sibl = Null /\ G[n].attr = Null
    /\ G[n].ns = Null /\ G[v].ns = Null
    /\ v = n => G[n].chld = Null /\ G[n].next = Null
    /\ v # n => /\ G[n].chld = v /\ G[n].next = v
                /\ G[v].kind = "txt" /\ G[v].prnt = n /\ G[v].sibl = Null
                /\ G[v].chld = Null /\ G[v].attr = Null /\ G[v].next = Null

LEMMA GeneratedIs ==
    ASSUME Linked(heap), NEW kind \in Kinds, NEW alias \in Aliases, NEW k \in {1, 2},
           k <= Cardinality(Unused(heap))
    PROVE  \E n, v \in Addr :
              /\ Fresh(heap, k)[1] = n /\ (v = n <=> k = 1)
              /\ Sprouted(heap, Generated(Fresh(heap, k), kind, alias), n, v, kind)
<1>. DEFINE new == Fresh(heap, k)
            n == new[1]
            g == [heap EXCEPT ![n] = [Blank(kind) EXCEPT !.alias = alias]]
<1>1. new \in [1..k -> Unused(heap)] /\ (k = 2 => new[1] # new[2])
  BY FreshIs
<1>2. n \in Unused(heap) /\ Unused(heap) \subseteq Addr /\ heap \in [Addr -> Node]
  BY <1>1 DEF Unused, Linked, Typed
<1>3. Len(new) = k
  <2>1. k \in Nat
    OBVIOUS
  <2>. HIDE DEF new
  <2>. QED
    BY <1>1, <2>1
<1>. HIDE DEF new
<1>4. [Blank(kind) EXCEPT !.alias = alias] \in Node /\ Blank("txt") \in Node
  BY PtrIs DEF Blank, Node, Kinds, Aliases
<1>5. /\ g \in [Addr -> Node] /\ \A a \in Addr \ {n} : g[a] = heap[a]
      /\ g[n].kind = kind /\ g[n].sibl = Null /\ g[n].attr = Null /\ g[n].prnt = Null
      /\ g[n].chld = Null /\ g[n].next = Null /\ g[n].ns = Null
  BY <1>2, <1>4 DEF Blank
<1>6. CASE k = 1
  <2>1. Generated(new, kind, alias) = g
    BY <1>3, <1>6 DEF Generated
  <2>2. Sprouted(heap, g, n, n, kind)
    <3>. HIDE DEF g
    <3>. QED
      BY <1>2, <1>5 DEF Sprouted
  <2>. QED
    BY <1>2, <1>6, <2>1, <2>2 DEF new
<1>7. CASE k = 2
  <2>. DEFINE v == new[2]
              f == [g EXCEPT ![v] = Blank("txt")]
  <2>1. v \in Unused(heap) /\ v # n /\ v \in Addr
    BY <1>1, <1>2, <1>7
  <2>2. Generated(new, kind, alias) = AppendNode(f, n, v)
    BY <1>3, <1>7 DEF Generated
  <2>. HIDE DEF g, n, v
  <2>3. /\ f \in [Addr -> Node] /\ f[v] = Blank("txt") /\ f[n] = g[n]
        /\ \A a \in Addr \ {n, v} : f[a] = heap[a]
    BY <1>2, <1>4, <1>5, <2>1
  <2>. HIDE DEF f
  <2>. DEFINE u == SetParent(f, n, v)
  <2>4. /\ u[n] = f[n] /\ \A a \in Addr \ {v} : u[a] = f[a]
        /\ u[v].prnt = n /\ u[v].kind = "txt" /\ u[v].sibl = Null /\ u[v].chld = Null
        /\ u[v].attr = Null /\ u[v].next = Null /\ u[v].ns = Null
        /\ u \in [Addr -> Node]
    <3>1. f[n].ns = Null
      BY <1>5, <2>3
    <3>2. u = [f EXCEPT ![v].prnt = n]
      BY <2>1, <2>3, <3>1 DEF SetParent, Blank
    <3>3. n \in Ptr
      BY <1>2, PtrIs
    <3>. HIDE DEF u
    <3>4. u \in [Addr -> Node]
      BY <2>1, <2>3, <3>2, <3>3 DEF Node
    <3>. QED
      BY <1>2, <2>1, <2>3, <3>2, <3>4 DEF Blank
  <2>5. AppendNode(f, n, v) = [u EXCEPT ![n].chld = v, ![n].next = v]
    <3>1. ~IsAttr(u, v) /\ u[n].next = Null
      BY <1>5, <2>3, <2>4 DEF IsAttr
    <3>. QED
      BY <3>1 DEF AppendNode, AppendOther
  <2>. HIDE DEF u
  <2>. DEFINE w == [u EXCEPT ![n].chld = v, ![n].next = v]
  <2>6. /\ \A a \in Addr \ {n} : w[a] = u[a]
        /\ w[n].chld = v /\ w[n].next = v /\ w[n].kind = u[n].kind
        /\ w[n].sibl = u[n].sibl /\ w[n].attr = u[n].attr /\ w[n].ns = u[n].ns
        /\ w \in [Addr -> Node]
    <3>1. v \in Ptr
      BY <2>1, PtrIs
    <3>2. w \in [Addr -> Node]
      BY <1>2, <2>4, <3>1 DEF Node
    <3>. QED
      BY <1>2, <2>4, <3>2
  <2>. HIDE DEF w
  <2>7. /\ n \in Addr /\ \A a \in Addr \ {n, v} : w[a] = heap[a]
        /\ w[v] = u[v] /\ w[n].kind = kind /\ w[n].sibl = Null /\ w[n].attr = Null
        /\ w[n].ns = Null
    BY <1>2, <1>5, <2>1, <2>3, <2>4, <2>6
  <2>8. Sprouted(heap, w, n, v, kind)
    BY <1>2, <2>1, <2>4, <2>6, <2>7 DEF Sprouted
  <2>. QED
    BY <1>2, <1>7, <2>1, <2>2, <2>5, <2>8 DEF n, new, v, w
<1>. QED
  BY <1>6, <1>7

LEMMA SameLists ==
    ASSUME NEW h, NEW g, Finite(h), Finite(g), Siblings(h),
           \A a \in Live(h) : g[a].sibl = h[a].sibl
    PROVE  \A k \in Live(h) : /\ ListFrom(g, k) = ListFrom(h, k)
                              /\ LastOf(g, k) = LastOf(h, k)
<1>. DEFINE T == {k \in Addr : k \in Live(h) => /\ ListFrom(g, k) = ListFrom(h, k)
                                                /\ LastOf(g, k) = LastOf(h, k)}
<1>1. ASSUME NEW a \in Addr, \A b \in Addr : <<a, b>> \in Edges(h) => b \in T
      PROVE  a \in T
  <2>1. SUFFICES ASSUME a \in Live(h)
                 PROVE  /\ ListFrom(g, a) = ListFrom(h, a)
                        /\ LastOf(g, a) = LastOf(h, a)
    OBVIOUS
  <2>2. g[a].sibl = h[a].sibl
    BY <2>1
  <2>3. ListFrom(h, a) = <<a>> \o ListFrom(h, h[a].sibl)
    BY ListFromIs
  <2>4. ListFrom(g, a) = <<a>> \o ListFrom(g, h[a].sibl)
    BY <2>2, ListFromIs
  <2>5. LastOf(h, a) = IF h[a].sibl = Null THEN a ELSE LastOf(h, h[a].sibl)
    BY LastOfIs
  <2>6. LastOf(g, a) = IF h[a].sibl = Null THEN a ELSE LastOf(g, h[a].sibl)
    BY <2>2, LastOfIs
  <2>7. CASE h[a].sibl = Null
    <3>1. ListFrom(h, Null) = <<>> /\ ListFrom(g, Null) = <<>>
      BY ListFromIs
    <3>. QED
      BY <2>3, <2>4, <2>5, <2>6, <2>7, <3>1
  <2>8. CASE h[a].sibl # Null
    <3>1. h[a].sibl \in Live(h) /\ h[a].sibl \in Addr
      BY <2>1, <2>8, LiveAddr DEF Siblings
    <3>2. h[a].sibl \in T
      BY <1>1, <3>1, EdgeIs
    <3>. QED
      BY <2>3, <2>4, <2>5, <2>6, <2>8, <3>1, <3>2
  <2>. QED
    BY <2>7, <2>8
<1>2. Addr \subseteq T
  <2>. HIDE DEF T
  <2>. QED
    BY <1>1, FiniteFounds, Induction
<1>. QED
  BY <1>2, LiveAddr

\* The node that is not linked yet leaves the lists alone.
LEMMA SproutedLists ==
    ASSUME NEW h, NEW G, NEW g, NEW n, NEW v, NEW kind, Linked(h),
           Sprouted(h, G, n, v, kind), g \in [Addr -> Node],
           \A a \in Addr : g[a].sibl = G[a].sibl /\ g[a].chld = G[a].chld
                           /\ g[a].attr = G[a].attr
    PROVE  /\ Finite(g)
           /\ \A k \in Live(h) : /\ ListFrom(g, k) = ListFrom(h, k)
                                 /\ LastOf(g, k) = LastOf(h, k)
<1>1. n \in Addr /\ v \in Addr /\ n \notin Live(h) /\ v \notin Live(h)
  BY DEF Sprouted, Unused, Live, Kinds
<1>2. \A a, c : <<a, c>> \in Edges(g) =>
         \/ a \in Live(h) /\ c \in Live(h) /\ <<a, c>> \in Edges(h)
         \/ a = n /\ c = v /\ v # n
  <2>. SUFFICES ASSUME NEW a, NEW c, <<a, c>> \in Edges(g)
                PROVE  \/ a \in Live(h) /\ c \in Live(h) /\ <<a, c>> \in Edges(h)
                       \/ a = n /\ c = v /\ v # n
    OBVIOUS
  <2>1. a \in Addr /\ c \in Addr /\ c # Null /\ c \in {G[a].sibl, G[a].chld, G[a].attr}
    BY EdgeIs, AddrAssumption
  <2>2. CASE a \notin {n, v}
    BY <2>1, <2>2, EdgeIs, LiveEdges DEF Sprouted
  <2>3. CASE a \in {n, v}
    BY <2>1, <2>3 DEF Sprouted
  <2>. QED
    BY <2>2, <2>3
<1>3. ASSUME NEW S \in SUBSET Addr, S # {}
      PROVE  \E a \in S : \A c \in S : <<a, c>> \notin Edges(g)
  <2>1. CASE v \in S /\ v # n
    BY <1>1, <1>2, <2>1
  <2>2. CASE n \in S /\ ~(v \in S /\ v # n)
    BY <1>1, <1>2, <2>2
  <2>3. CASE n \notin S /\ v \notin S
    <3>1. PICK a \in S : \A c \in S : <<a, c>> \notin Edges(h)
      BY <1>3 DEF Linked, Grounded
    <3>. QED
      BY <1>1, <1>2, <2>3, <3>1
  <2>. QED
    BY <2>1, <2>2, <2>3
<1>4. Finite(g)
  BY <1>3 DEF Finite, Grounded
<1>5. \A a \in Live(h) : g[a].sibl = h[a].sibl
  BY <1>1, LiveAddr DEF Sprouted
<1>. QED
  BY <1>4, <1>5, LinkedFinite, SameLists

\* g is G with the parent of n set to p, and perhaps a namespace.
Parented(G, g, p, n) ==
    /\ g \in [Addr -> Node]
    /\ \A a \in Addr : /\ g[a].kind = G[a].kind /\ g[a].sibl = G[a].sibl
                       /\ g[a].chld = G[a].chld /\ g[a].attr = G[a].attr
                       /\ g[a].next = G[a].next
                       /\ g[a].prnt = IF a = n THEN p ELSE G[a].prnt
                       /\ a # n => g[a] = G[a]
    /\ g[n].ns \in {G[n].ns, G[p].ns}

LEMMA SetParentIs ==
    ASSUME NEW G \in [Addr -> Node], NEW p \in Addr, NEW n \in Addr
    PROVE  Parented(G, SetParent(G, p, n), p, n)
<1>. DEFINE d == G[p].ns
            w == IF G[n].ns = Null /\ d # Null /\ G[d].alias = "" THEN d ELSE G[n].ns
            u == [G EXCEPT ![n].prnt = p]
            g == [u EXCEPT ![n].ns = w]
<1>1. SetParent(G, p, n) = g
  BY DEF SetParent
<1>2. w \in Ptr /\ p \in Ptr /\ w \in {G[n].ns, G[p].ns}
  BY NodeFields, PtrIs
<1>. HIDE DEF w
<1>3. u \in [Addr -> Node]
  BY <1>2 DEF Node
<1>4. /\ u[n].kind = G[n].kind /\ u[n].sibl = G[n].sibl /\ u[n].chld = G[n].chld
      /\ u[n].attr = G[n].attr /\ u[n].next = G[n].next /\ u[n].prnt = p
      /\ \A a \in Addr : a # n => u[a] = G[a]
  BY DEF Node
<1>. HIDE DEF u
<1>5. g \in [Addr -> Node]
  BY <1>2, <1>3 DEF Node
<1>6. /\ g[n].kind = u[n].kind /\ g[n].sibl = u[n].sibl /\ g[n].chld = u[n].chld
      /\ g[n].attr = u[n].attr /\ g[n].next = u[n].next /\ g[n].prnt = u[n].prnt
      /\ g[n].ns = w
      /\ \A a \in Addr : a # n => g[a] = u[a]
  BY <1>3 DEF Node
<1>. HIDE DEF g
<1>. QED
  BY <1>1, <1>2, <1>4, <1>5, <1>6 DEF Parented

LEMMA SetParentTwice ==
    ASSUME NEW G \in [Addr -> Node], NEW p \in Addr, NEW n \in Addr,
           NEW f, Parented(G, f, p, n)
    PROVE  Parented(G, SetParent(f, p, n), p, n)
<1>1. Parented(f, SetParent(f, p, n), p, n)
  <2>1. f \in [Addr -> Node]
    BY DEF Parented
  <2>. QED
    BY <2>1, SetParentIs
<1>. QED
  BY <1>1 DEF Parented

\* w is g with the field f of a set to x.
Sets(g, w, a, f, x) ==
    /\ w \in [Addr -> Node]
    /\ \A c \in Addr :
          /\ w[c].kind = g[c].kind /\ w[c].prnt = g[c].prnt /\ w[c].ns = g[c].ns
          /\ w[c].sibl = IF f = "sibl" /\ c = a THEN x ELSE g[c].sibl
          /\ w[c].chld = IF f = "chld" /\ c = a THEN x ELSE g[c].chld
          /\ w[c].attr = IF f = "attr" /\ c = a THEN x ELSE g[c].attr
          /\ w[c].next = IF f = "next" /\ c = a THEN x ELSE g[c].next
          /\ c # a => w[c] = g[c]

LEMMA SetsIs ==
    ASSUME NEW g \in [Addr -> Node], NEW a \in Addr, NEW x \in Ptr
    PROVE  /\ Sets(g, [g EXCEPT ![a].sibl = x], a, "sibl", x)
           /\ Sets(g, [g EXCEPT ![a].chld = x], a, "chld", x)
           /\ Sets(g, [g EXCEPT ![a].attr = x], a, "attr", x)
           /\ Sets(g, [g EXCEPT ![a].next = x], a, "next", x)
<1>1. Sets(g, [g EXCEPT ![a].sibl = x], a, "sibl", x)
  <2>. DEFINE w == [g EXCEPT ![a].sibl = x]
  <2>1. w \in [Addr -> Node]
    BY DEF Node
  <2>2. \A c \in Addr : c # a => w[c] = g[c]
    OBVIOUS
  <2>3. /\ w[a].kind = g[a].kind /\ w[a].prnt = g[a].prnt /\ w[a].sibl = x
        /\ w[a].chld = g[a].chld /\ w[a].attr = g[a].attr /\ w[a].next = g[a].next
        /\ w[a].ns = g[a].ns
    BY DEF Node
  <2>. HIDE DEF w
  <2>4. Sets(g, w, a, "sibl", x)
    BY <2>1, <2>2, <2>3 DEF Sets
  <2>. QED
    BY <2>4 DEF w
<1>2. Sets(g, [g EXCEPT ![a].chld = x], a, "chld", x)
  <2>. DEFINE w == [g EXCEPT ![a].chld = x]
  <2>1. w \in [Addr -> Node]
    BY DEF Node
  <2>2. \A c \in Addr : c # a => w[c] = g[c]
    OBVIOUS
  <2>3. /\ w[a].kind = g[a].kind /\ w[a].prnt = g[a].prnt /\ w[a].sibl = g[a].sibl
        /\ w[a].chld = x /\ w[a].attr = g[a].attr /\ w[a].next = g[a].next
        /\ w[a].ns = g[a].ns
    BY DEF Node
  <2>. HIDE DEF w
  <2>4. Sets(g, w, a, "chld", x)
    BY <2>1, <2>2, <2>3 DEF Sets
  <2>. QED
    BY <2>4 DEF w
<1>3. Sets(g, [g EXCEPT ![a].attr = x], a, "attr", x)
  <2>. DEFINE w == [g EXCEPT ![a].attr = x]
  <2>1. w \in [Addr -> Node]
    BY DEF Node
  <2>2. \A c \in Addr : c # a => w[c] = g[c]
    OBVIOUS
  <2>3. /\ w[a].kind = g[a].kind /\ w[a].prnt = g[a].prnt /\ w[a].sibl = g[a].sibl
        /\ w[a].chld = g[a].chld /\ w[a].attr = x /\ w[a].next = g[a].next
        /\ w[a].ns = g[a].ns
    BY DEF Node
  <2>. HIDE DEF w
  <2>4. Sets(g, w, a, "attr", x)
    BY <2>1, <2>2, <2>3 DEF Sets
  <2>. QED
    BY <2>4 DEF w
<1>4. Sets(g, [g EXCEPT ![a].next = x], a, "next", x)
  <2>. DEFINE w == [g EXCEPT ![a].next = x]
  <2>1. w \in [Addr -> Node]
    BY DEF Node
  <2>2. \A c \in Addr : c # a => w[c] = g[c]
    OBVIOUS
  <2>3. /\ w[a].kind = g[a].kind /\ w[a].prnt = g[a].prnt /\ w[a].sibl = g[a].sibl
        /\ w[a].chld = g[a].chld /\ w[a].attr = g[a].attr /\ w[a].next = x
        /\ w[a].ns = g[a].ns
    BY DEF Node
  <2>. HIDE DEF w
  <2>4. Sets(g, w, a, "next", x)
    BY <2>1, <2>2, <2>3 DEF Sets
  <2>. QED
    BY <2>4 DEF w
<1>. QED
  BY <1>1, <1>2, <1>3, <1>4

\* w is g with the link f of b set to n, whose sibl becomes m; n becomes the last
\* child of l, if any.
Placed(g, w, n, m, b, f, l) ==
    /\ w \in [Addr -> Node]
    /\ \A a \in Addr :
          /\ w[a].kind = g[a].kind /\ w[a].prnt = g[a].prnt /\ w[a].ns = g[a].ns
          /\ w[a].sibl = IF f = "sibl" /\ a = b THEN n ELSE IF a = n THEN m ELSE g[a].sibl
          /\ w[a].chld = IF f = "chld" /\ a = b THEN n ELSE g[a].chld
          /\ w[a].attr = IF f = "attr" /\ a = b THEN n ELSE g[a].attr
          /\ w[a].next = IF a = l THEN n ELSE g[a].next
          /\ a \notin {b, n, l} => w[a] = g[a]

LEMMA PlacedAttached ==
    ASSUME NEW h, NEW G, NEW g, NEW w, NEW n, NEW v, NEW b, NEW f, NEW p, NEW l,
           NEW kind \in Kinds,
           Linked(h), Sprouted(h, G, n, v, kind), Parented(G, g, p, n),
           Placed(g, w, n, Link(h, b, f), b, f, l),
           p \in Live(h), h[p].kind = "elm" \/ (h[p].kind = "att" /\ kind = "txt"),
           p = Root => kind \notin {"att", "nsd"}, v = n => kind # "nsd",
           InList(h, p, kind, b, f),
           l = IF kind \notin AttrKinds /\ Link(h, b, f) = Null THEN p ELSE Null
    PROVE  Attached(h, w, p, n, v, b, f)
<1>. DEFINE m == Link(h, b, f)
<1>1. /\ n \in Addr \ Live(h) /\ v \in Addr \ Live(h) /\ b \in Live(h)
      /\ Live(h) \subseteq Addr
  BY LiveAddr DEF Sprouted, Unused, Live, Kinds, InList
<1>2. b # n /\ b # v /\ p # n /\ p # v /\ l # n /\ l # v
  BY <1>1, AddrAssumption
<1>3. f \in {"sibl", "chld", "attr"}
  BY DEF InList
<1>. HIDE DEF m
<1>4. \A a \in Addr :
         /\ w[a].kind = G[a].kind /\ w[a].prnt = IF a = n THEN p ELSE G[a].prnt
         /\ w[a].sibl = IF f = "sibl" /\ a = b THEN n ELSE IF a = n THEN m ELSE G[a].sibl
         /\ w[a].chld = IF f = "chld" /\ a = b THEN n ELSE G[a].chld
         /\ w[a].attr = IF f = "attr" /\ a = b THEN n ELSE G[a].attr
         /\ w[a].next = IF a = l THEN n ELSE G[a].next
         /\ a \notin {b, n, l} => w[a] = G[a]
         /\ a # n => w[a].ns = G[a].ns
  BY DEF Placed, Parented, m
<1>5. /\ w[n].kind = kind /\ w[n].prnt = p /\ w[n].sibl = m /\ w[n].attr = Null
      /\ v = n => w[n].chld = Null /\ w[n].next = Null
      /\ v # n => /\ w[n].chld = v /\ w[n].next = v
                  /\ w[v].kind = "txt" /\ w[v].prnt = n /\ w[v].sibl = Null
                  /\ w[v].chld = Null /\ w[v].attr = Null /\ w[v].next = Null
  BY <1>1, <1>2, <1>4 DEF Sprouted
<1>14. w[n].ns \in {Null, h[p].ns} /\ (v # n => w[v].ns = Null)
  <2>1. w[n].ns = g[n].ns /\ g[n].ns \in {G[n].ns, G[p].ns}
    BY <1>1 DEF Placed, Parented
  <2>2. G[n].ns = Null /\ G[v].ns = Null /\ G[p] = h[p]
    BY <1>1, <1>2 DEF Sprouted
  <2>. QED
    BY <1>1, <1>4, <2>1, <2>2
<1>6. IsAttr(w, n) <=> kind \in AttrKinds
  BY <1>5 DEF IsAttr, AttrKinds
<1>7. ASSUME NEW a \in Live(h)
      PROVE  /\ w[a].kind = h[a].kind /\ w[a].prnt = h[a].prnt /\ w[a].ns = h[a].ns
             /\ w[a].sibl = IF f = "sibl" /\ a = b THEN n ELSE h[a].sibl
             /\ w[a].chld = IF f = "chld" /\ a = b THEN n ELSE h[a].chld
             /\ w[a].attr = IF f = "attr" /\ a = b THEN n ELSE h[a].attr
             /\ w[a].next = IF a = p /\ ~IsAttr(w, n) /\ m = Null THEN n ELSE h[a].next
  <2>1. a \in Addr /\ a # n /\ a # v /\ G[a] = h[a]
    BY <1>1 DEF Sprouted
  <2>2. a # Null /\ l = IF ~IsAttr(w, n) /\ m = Null THEN p ELSE Null
    BY <1>6, LiveAddr DEF m
  <2>. QED
    BY <1>4, <2>1, <2>2
<1>8. \A a \in Addr \ (Live(h) \cup {n, v}) : w[a] = h[a]
  BY <1>1, AddrAssumption, <1>4 DEF Sprouted
<1>9. InList(h, p, w[n].kind, b, f)
  BY <1>5
<1>10. w \in [Addr -> Node]
  BY DEF Placed
<1>11. p = Root => ~IsAttr(w, n)
  BY <1>5 DEF IsAttr
<1>12. w[n].kind \in Kinds /\ (v = n => w[n].kind # "nsd")
  BY <1>5
<1>13. h[p].kind = "elm" \/ (h[p].kind = "att" /\ w[n].kind = "txt")
  BY <1>5
<1>. QED
  BY <1>1, <1>5, <1>7, <1>8, <1>9, <1>10, <1>11, <1>12, <1>13, <1>14 DEF Attached, m

\* The head of the list of p the new node goes to.
HeadOf(h, p, kind) == IF kind \in AttrKinds THEN h[p].attr ELSE h[p].chld

\* The place in a list of l nodes that roxml_parent_node puts the new one at.
Slot(l, position) == IF position = 0 \/ position > l THEN l + 1 ELSE position

\* The link f of b is the one before that place in the list of p.
Stands(h, p, kind, b, f, position) ==
    LET s == ListFrom(h, HeadOf(h, p, kind))
        i == Slot(Len(s), position)
    IN IF i = 1 THEN f # "sibl" ELSE f = "sibl" /\ b = s[i - 1]

\* w is g with the new node n at that place in the list of children, or
\* attributes, of p.
Settled(h, g, w, n, p, kind, position) ==
    \E b, f : /\ InList(h, p, kind, b, f) /\ Stands(h, p, kind, b, f, position)
              /\ Placed(g, w, n, Link(h, b, f), b, f,
                        IF kind \notin AttrKinds /\ Link(h, b, f) = Null THEN p ELSE Null)

LEMMA HeadList ==
    ASSUME NEW h, Linked(h), NEW p \in Live(h), NEW kind, HeadOf(h, p, kind) # Null
    PROVE  /\ HeadOf(h, p, kind) \in Live(h)
           /\ \A c \in Members(h, HeadOf(h, p, kind)) : InList(h, p, kind, c, "sibl")
<1>. DEFINE k == HeadOf(h, p, kind)
<1>1. k \in Live(h) /\ h[k].prnt = p /\ (h[k].kind \in AttrKinds <=> kind \in AttrKinds)
  BY DEF HeadOf, Linked, Closed, Families, IsAttr, AttrKinds
<1>. HIDE DEF k
<1>2. \A c \in Members(h, k) : /\ c \in Live(h) /\ h[c].prnt = p
                               /\ h[c].kind \in AttrKinds <=> kind \in AttrKinds
  BY <1>1, LinkedFinite, ListSame DEF IsAttr, AttrKinds
<1>. QED
  BY <1>1, <1>2 DEF k, InList

LEMMA StandsIs ==
    ASSUME NEW h, Linked(h), NEW p \in Live(h), NEW kind, NEW position \in Nat
    PROVE  LET k == HeadOf(h, p, kind)
               s == ListFrom(h, k)
           IN /\ s \in Seq(Addr) /\ Len(s) \in Nat /\ (Len(s) = 0 <=> k = Null)
              /\ k = Null => \A b, f : f # "sibl" => Stands(h, p, kind, b, f, position)
              /\ position = 1 => \A b, f : f # "sibl" => Stands(h, p, kind, b, f, position)
              /\ k # Null /\ (position = 0 \/ position > Len(s)) =>
                    \A b \in Members(h, k) : h[b].sibl = Null =>
                       Stands(h, p, kind, b, "sibl", position)
              /\ position >= 2 /\ position <= Len(s) =>
                    Stands(h, p, kind, s[position - 1], "sibl", position)
<1>. DEFINE k == HeadOf(h, p, kind)
            s == ListFrom(h, k)
<1>1. k \in Ptr /\ Finite(h)
  <2>1. k = Null \/ k \in Live(h)
    BY HeadList
  <2>. QED
    BY <2>1, LinkedFinite, LiveAddr, PtrIs
<1>2. Chain(h, k, s)
  BY <1>1, ListChain
<1>3. Members(h, k) = {s[i] : i \in 1..Len(s)}
  BY <1>1, ChainMembers
<1>. HIDE DEF k
<1>4. \A b, f : Stands(h, p, kind, b, f, position) <=>
         IF Slot(Len(s), position) = 1 THEN f # "sibl"
         ELSE f = "sibl" /\ b = s[Slot(Len(s), position) - 1]
  BY DEF Stands, k
<1>. HIDE DEF s
<1>5. s \in Seq(Addr) /\ Len(s) \in Nat /\ (Len(s) = 0 <=> k = Null)
  <2>1. s \in Seq(Addr) /\ (IF Len(s) = 0 THEN k = Null ELSE s[1] = k)
    BY <1>2 DEF Chain
  <2>2. Len(s) # 0 => s[1] \in Addr
    BY <2>1
  <2>. QED
    BY <2>1, <2>2, PtrIs
<1>6. k = Null \/ position = 1 => \A b, f : f # "sibl" => Stands(h, p, kind, b, f, position)
  <2>1. k = Null \/ position = 1 => Slot(Len(s), position) = 1
    BY <1>5 DEF Slot
  <2>. QED
    BY <1>4, <2>1
<1>7. ASSUME k # Null, position = 0 \/ position > Len(s),
             NEW b \in Members(h, k), h[b].sibl = Null
      PROVE  Stands(h, p, kind, b, "sibl", position)
  <2>1. PICK i \in 1..Len(s) : b = s[i]
    BY <1>3, <1>7
  <2>2. h[s[i]].sibl = IF i = Len(s) THEN Null ELSE s[i + 1]
    BY <1>2 DEF Chain
  <2>3. i # Len(s) => s[i + 1] \in Addr
    BY <1>5
  <2>4. i = Len(s)
    BY <1>7, <2>1, <2>2, <2>3, PtrIs
  <2>5. Slot(Len(s), position) = Len(s) + 1 /\ Len(s) + 1 # 1 /\ Len(s) + 1 - 1 = Len(s)
    BY <1>5, <1>7 DEF Slot
  <2>. QED
    BY <1>4, <2>1, <2>4, <2>5
<1>8. ASSUME position >= 2, position <= Len(s)
      PROVE  Stands(h, p, kind, s[position - 1], "sibl", position)
  <2>1. Slot(Len(s), position) = position /\ position # 1
    BY <1>5, <1>8 DEF Slot
  <2>. QED
    BY <1>4, <2>1
<1>. QED
  BY <1>5, <1>6, <1>7, <1>8 DEF s, k

LEMMA Grown ==
    ASSUME NEW h, NEW G, NEW g, NEW n, NEW v, NEW p, NEW kind,
           Linked(h), Sprouted(h, G, n, v, kind), Parented(G, g, p, n)
    PROVE  /\ n \in Addr \ Live(h) /\ n \in Ptr /\ g \in [Addr -> Node]
           /\ g[n].sibl = Null /\ g[n].kind = kind
           /\ \A a \in Live(h) : a \in Addr /\ a # n /\ g[a] = h[a]
           /\ Finite(g)
           /\ \A k \in Live(h) : /\ ListFrom(g, k) = ListFrom(h, k)
                                 /\ LastOf(g, k) = LastOf(h, k)
<1>1. n \in Addr \ Live(h) /\ v \in Addr \ Live(h)
  BY DEF Sprouted, Unused, Live, Kinds
<1>2. g \in [Addr -> Node] /\ g[n].sibl = Null /\ g[n].kind = kind
  BY <1>1 DEF Sprouted, Parented
<1>3. \A a \in Addr : /\ g[a].sibl = G[a].sibl /\ g[a].chld = G[a].chld
                      /\ g[a].attr = G[a].attr
  BY DEF Parented
<1>4. \A a \in Live(h) : a \in Addr /\ a # n /\ g[a] = h[a]
  BY <1>1, LiveAddr DEF Sprouted, Parented
<1>5. /\ Finite(g)
      /\ \A k \in Live(h) : /\ ListFrom(g, k) = ListFrom(h, k)
                            /\ LastOf(g, k) = LastOf(h, k)
  BY <1>2, <1>3, SproutedLists
<1>. QED
  BY <1>1, <1>2, <1>4, <1>5, PtrIs

LEMMA AppendAttrSettles ==
    ASSUME NEW h, NEW G, NEW g, NEW n, NEW v, NEW p \in Live(h), NEW kind,
           Linked(h), Sprouted(h, G, n, v, kind), Parented(G, g, p, n),
           kind \in AttrKinds, NEW position \in Nat,
           position = 0 \/ position > Len(ListFrom(h, HeadOf(h, p, kind)))
    PROVE  Settled(h, g, AppendAttr(g, p, n), n, p, kind, position)
<1>1. /\ n \in Addr \ Live(h) /\ n \in Ptr /\ g \in [Addr -> Node] /\ g[n].sibl = Null
      /\ \A a \in Live(h) : a \in Addr /\ a # n /\ g[a] = h[a]
      /\ \A k \in Live(h) : LastOf(g, k) = LastOf(h, k)
  BY Grown
<1>2. CASE h[p].attr = Null
  <2>. DEFINE w == [g EXCEPT ![p].attr = n]
  <2>1. AppendAttr(g, p, n) = w
    BY <1>1, <1>2 DEF AppendAttr
  <2>2. Sets(g, w, p, "attr", n)
    BY <1>1, SetsIs
  <2>. HIDE DEF w
  <2>3. InList(h, p, kind, p, "attr") /\ Link(h, p, "attr") = Null
    BY <1>2 DEF InList, Link
  <2>4. Placed(g, w, n, Null, p, "attr", Null)
    BY <1>1, <2>2, AddrAssumption DEF Sets, Placed
  <2>5. Stands(h, p, kind, p, "attr", position)
    <3>1. HeadOf(h, p, kind) = Null
      BY <1>2 DEF HeadOf
    <3>. QED
      BY <3>1, StandsIs
  <2>. QED
    BY <2>1, <2>3, <2>4, <2>5 DEF Settled
<1>3. CASE h[p].attr # Null
  <2>. DEFINE k == h[p].attr
              l == LastOf(g, k)
              w == [g EXCEPT ![l].sibl = n]
  <2>1. AppendAttr(g, p, n) = w
    BY <1>1, <1>3 DEF AppendAttr
  <2>2. k \in Live(h) /\ \A c \in Members(h, k) : InList(h, p, kind, c, "sibl")
    BY <1>3, HeadList DEF HeadOf
  <2>3. l \in Members(h, k) /\ h[l].sibl = Null
    BY <1>1, <2>2, LastMember, LinkedFinite
  <2>4. l \in Live(h) /\ InList(h, p, kind, l, "sibl") /\ Link(h, l, "sibl") = Null
    BY <2>2, <2>3 DEF InList, Link
  <2>5. Sets(g, w, l, "sibl", n)
    BY <1>1, <2>4, SetsIs
  <2>. HIDE DEF w, l
  <2>6. Placed(g, w, n, Null, l, "sibl", Null)
    BY <1>1, <2>4, <2>5, AddrAssumption DEF Sets, Placed
  <2>7. Stands(h, p, kind, l, "sibl", position)
    <3>1. HeadOf(h, p, kind) = k /\ k # Null
      BY <1>3 DEF HeadOf
    <3>. HIDE DEF k
    <3>. QED
      BY <2>3, <3>1, StandsIs
  <2>. QED
    BY <2>1, <2>4, <2>6, <2>7 DEF Settled
<1>. QED
  BY <1>2, <1>3

LEMMA AppendOtherSettles ==
    ASSUME NEW h, NEW G, NEW g, NEW n, NEW v, NEW p \in Live(h), NEW kind,
           Linked(h), Sprouted(h, G, n, v, kind), Parented(G, g, p, n),
           h[p].kind # "nsd", kind \notin AttrKinds, NEW position \in Nat,
           position = 0 \/ position > Len(ListFrom(h, HeadOf(h, p, kind)))
    PROVE  Settled(h, g, AppendOther(g, p, n), n, p, kind, position)
<1>1. /\ n \in Addr \ Live(h) /\ n \in Ptr /\ g \in [Addr -> Node] /\ g[n].sibl = Null
      /\ \A a \in Live(h) : a \in Addr /\ a # n /\ g[a] = h[a]
  BY Grown
<1>2. /\ h[p].next = Null <=> h[p].chld = Null
      /\ h[p].next # Null => /\ h[p].next \in Live(h) /\ h[h[p].next].prnt = p
                             /\ h[h[p].next].kind \notin AttrKinds
                             /\ h[h[p].next].sibl = Null
  BY DEF Linked, Ends, IsAttr, AttrKinds
<1>3. CASE h[p].next = Null
  <2>. DEFINE u == [g EXCEPT ![p].chld = n]
              w == [u EXCEPT ![p].next = n]
  <2>1. AppendOther(g, p, n) = w
    BY <1>1, <1>3 DEF AppendOther
  <2>2. Sets(g, u, p, "chld", n)
    BY <1>1, SetsIs
  <2>. HIDE DEF u
  <2>3. Sets(u, w, p, "next", n)
    <3>1. u \in [Addr -> Node]
      BY <2>2 DEF Sets
    <3>. QED
      BY <1>1, <3>1, SetsIs
  <2>. HIDE DEF w
  <2>4. InList(h, p, kind, p, "chld") /\ Link(h, p, "chld") = Null
    BY <1>2, <1>3 DEF InList, Link
  <2>5. Placed(g, w, n, Null, p, "chld", p)
    BY <1>1, <2>2, <2>3, AddrAssumption DEF Sets, Placed
  <2>6. Stands(h, p, kind, p, "chld", position)
    <3>1. HeadOf(h, p, kind) = Null
      BY <1>2, <1>3 DEF HeadOf
    <3>. QED
      BY <3>1, StandsIs
  <2>. QED
    BY <2>1, <2>4, <2>5, <2>6 DEF Settled
<1>4. CASE h[p].next # Null
  <2>. DEFINE l == h[p].next
              u == [g EXCEPT ![l].sibl = n]
              w == [u EXCEPT ![p].next = n]
  <2>1. AppendOther(g, p, n) = w
    BY <1>1, <1>4 DEF AppendOther
  <2>2. l \in Live(h) /\ InList(h, p, kind, l, "sibl") /\ Link(h, l, "sibl") = Null
    BY <1>2, <1>4 DEF InList, Link
  <2>6. Stands(h, p, kind, l, "sibl", position)
    <3>1. l \in Hanging(h)
      BY <1>2, <1>4, LiveAddr DEF Linked, Rooted, Hanging
    <3>2. ListOf(h, l) = HeadOf(h, p, kind)
      BY <1>2, <1>4 DEF ListOf, HeadOf, IsAttr, AttrKinds
    <3>3. l \in Members(h, HeadOf(h, p, kind)) /\ HeadOf(h, p, kind) # Null
      BY <3>1, <3>2, Listed, LiveAddr
    <3>4. h[l].sibl = Null
      BY <1>2, <1>4
    <3>. HIDE DEF l
    <3>. QED
      BY <3>3, <3>4, StandsIs
  <2>. HIDE DEF l
  <2>3. Sets(g, u, l, "sibl", n)
    BY <1>1, <2>2, SetsIs
  <2>. HIDE DEF u
  <2>4. Sets(u, w, p, "next", n)
    <3>1. u \in [Addr -> Node]
      BY <2>3 DEF Sets
    <3>. QED
      BY <1>1, <3>1, SetsIs
  <2>. HIDE DEF w
  <2>5. Placed(g, w, n, Null, l, "sibl", p)
    BY <1>1, <2>2, <2>3, <2>4, AddrAssumption DEF Sets, Placed
  <2>. QED
    BY <2>1, <2>2, <2>5, <2>6 DEF Settled
<1>. QED
  BY <1>3, <1>4

LEMMA PrependSettles ==
    ASSUME NEW h, NEW G, NEW g, NEW n, NEW v, NEW p \in Live(h), NEW kind,
           Linked(h), Sprouted(h, G, n, v, kind), Parented(G, g, p, n),
           HeadOf(h, p, kind) # Null
    PROVE  Settled(h, g, PrependNode(g, p, n), n, p, kind, 1)
<1>. DEFINE m == HeadOf(h, p, kind)
            u == [g EXCEPT ![n].sibl = m]
<1>1. /\ n \in Addr \ Live(h) /\ n \in Ptr /\ g \in [Addr -> Node] /\ g[n].sibl = Null
      /\ \A a \in Live(h) : a \in Addr /\ a # n /\ g[a] = h[a]
      /\ IsAttr(g, n) <=> kind \in AttrKinds
  BY Grown DEF IsAttr, AttrKinds
<1>2. m \in Live(h) /\ m \in Ptr /\ m # Null
  BY HeadList, LiveAddr, PtrIs
<1>3. Sets(g, u, n, "sibl", m)
  <2>. HIDE DEF m
  <2>. QED
    BY <1>1, <1>2, SetsIs
<1>4. CASE kind \in AttrKinds
  <2>. DEFINE w == [u EXCEPT ![p].attr = n]
  <2>1. PrependNode(g, p, n) = w
    BY <1>1, <1>4 DEF PrependNode, HeadOf
  <2>. HIDE DEF u
  <2>2. Sets(u, w, p, "attr", n)
    <3>1. u \in [Addr -> Node]
      BY <1>3 DEF Sets
    <3>. QED
      BY <1>1, <3>1, SetsIs
  <2>. HIDE DEF w
  <2>3. InList(h, p, kind, p, "attr") /\ Link(h, p, "attr") = m
    BY <1>4 DEF InList, Link, HeadOf
  <2>. HIDE DEF m
  <2>4. Placed(g, w, n, m, p, "attr", Null)
    <3>1. Null \notin Addr /\ p \in Addr /\ n \in Addr /\ n # p
      BY <1>1, AddrAssumption
    <3>. QED
      BY <1>3, <2>2, <3>1 DEF Sets, Placed
  <2>5. Stands(h, p, kind, p, "attr", 1)
    BY StandsIs
  <2>. QED
    BY <1>2, <1>4, <2>1, <2>3, <2>4, <2>5 DEF Settled
<1>5. CASE kind \notin AttrKinds
  <2>. DEFINE w == [u EXCEPT ![p].chld = n]
  <2>1. PrependNode(g, p, n) = w
    BY <1>1, <1>5 DEF PrependNode, HeadOf
  <2>. HIDE DEF u
  <2>2. Sets(u, w, p, "chld", n)
    <3>1. u \in [Addr -> Node]
      BY <1>3 DEF Sets
    <3>. QED
      BY <1>1, <3>1, SetsIs
  <2>. HIDE DEF w
  <2>3. InList(h, p, kind, p, "chld") /\ Link(h, p, "chld") = m
    BY <1>5 DEF InList, Link, HeadOf
  <2>. HIDE DEF m
  <2>4. Placed(g, w, n, m, p, "chld", Null)
    <3>1. Null \notin Addr /\ p \in Addr /\ n \in Addr /\ n # p
      BY <1>1, AddrAssumption
    <3>. QED
      BY <1>3, <2>2, <3>1 DEF Sets, Placed
  <2>5. Stands(h, p, kind, p, "chld", 1)
    BY StandsIs
  <2>. QED
    BY <1>2, <1>5, <2>1, <2>3, <2>4, <2>5 DEF Settled
<1>. QED
  BY <1>4, <1>5

LEMMA InsertSettles ==
    ASSUME NEW h, NEW G, NEW g, NEW n, NEW v, NEW p \in Live(h), NEW kind, NEW position \in Nat,
           Linked(h), Sprouted(h, G, n, v, kind), Parented(G, g, p, n),
           HeadOf(h, p, kind) # Null, position >= 2,
           position <= Len(ListFrom(h, HeadOf(h, p, kind)))
    PROVE  Settled(h, g, InsertNode(g, p, n, position), n, p, kind, position)
<1>. DEFINE k == HeadOf(h, p, kind)
            j == position - 2
            L == ListFrom(h, k)
            b == Along(g, k, j)
            m == h[b].sibl
            u == [g EXCEPT ![n].sibl = m]
            w == [u EXCEPT ![b].sibl = n]
<1>1. /\ n \in Addr \ Live(h) /\ n \in Ptr /\ g \in [Addr -> Node] /\ g[n].sibl = Null
      /\ \A a \in Live(h) : a \in Addr /\ a # n /\ g[a] = h[a]
      /\ Finite(g) /\ \A a \in Live(h) : ListFrom(g, a) = ListFrom(h, a)
      /\ IsAttr(g, n) <=> kind \in AttrKinds
  BY Grown DEF IsAttr, AttrKinds
<1>2. k \in Live(h) /\ \A c \in Members(h, k) : InList(h, p, kind, c, "sibl")
  BY HeadList
<1>3. /\ L \in Seq(Addr) /\ Len(L) \in Nat
      /\ \A i \in 1..Len(L) - 1 : L[i + 1] = h[L[i]].sibl
  <2>1. k \in Addr /\ k \in Ptr
    BY <1>2, LiveAddr, PtrIs
  <2>. QED
    BY <2>1, ListFromIs, ListSteps, LinkedFinite
<1>4. j \in Nat /\ j < Len(L) /\ j + 1 \in 1..Len(L) - 1 /\ j + 1 + 1 \in 1..Len(L)
  BY <1>3
<1>5. b \in Members(g, k) /\ b = ListFrom(g, k)[j + 1]
  <2>1. k \in Addr /\ ListFrom(g, k) = L
    BY <1>1, <1>2
  <2>. HIDE DEF k, L, j
  <2>. QED
    BY <1>1, <1>4, <2>1, AlongFinds
<1>6. b \in Members(h, k) /\ b = L[j + 1]
  BY <1>1, <1>2, <1>5 DEF Members
<1>7. InList(h, p, kind, b, "sibl") /\ b \in Live(h)
  BY <1>2, <1>6 DEF InList
<1>8. m \in Addr /\ m # Null /\ m \in Ptr
  <2>1. m = L[j + 1 + 1]
    BY <1>3, <1>4, <1>6
  <2>. HIDE DEF m, L, j
  <2>. QED
    BY <1>3, <1>4, <2>1, PtrIs
<1>9. InsertNode(g, p, n, position) = w
  <2>1. k = IF IsAttr(g, n) THEN g[p].attr ELSE g[p].chld
    BY <1>1 DEF HeadOf
  <2>2. g[b].sibl = m
    BY <1>1, <1>7
  <2>. HIDE DEF k
  <2>. QED
    BY <2>1, <2>2 DEF InsertNode
<1>. HIDE DEF b
<1>10. Sets(g, u, n, "sibl", m)
  <2>. HIDE DEF m
  <2>. QED
    BY <1>1, <1>8, SetsIs
<1>. HIDE DEF u
<1>11. Sets(u, w, b, "sibl", n)
  <2>1. u \in [Addr -> Node]
    BY <1>10 DEF Sets
  <2>. QED
    BY <1>1, <1>7, <2>1, SetsIs
<1>12. Link(h, b, "sibl") = m
  BY DEF Link
<1>14. Stands(h, p, kind, b, "sibl", position)
  <2>1. b = L[position - 1]
    BY <1>6
  <2>. HIDE DEF L, k
  <2>2. Stands(h, p, kind, L[position - 1], "sibl", position)
    BY StandsIs DEF L, k
  <2>. QED
    BY <2>1, <2>2
<1>. HIDE DEF w, m, k
<1>13. Placed(g, w, n, m, b, "sibl", Null)
  BY <1>1, <1>7, <1>10, <1>11, AddrAssumption DEF Sets, Placed
<1>. QED
  BY <1>7, <1>8, <1>9, <1>12, <1>13, <1>14 DEF Settled

\* Wherever roxml_parent_node puts it.
LEMMA ParentNodeSettles ==
    ASSUME NEW h, NEW G, NEW n, NEW v, NEW p \in Live(h), NEW kind, NEW position \in Nat,
           Linked(h), Sprouted(h, G, n, v, kind),
           h[p].kind # "nsd"
    PROVE  \E g : /\ Parented(G, g, p, n)
                  /\ Settled(h, g, ParentNode(G, p, n, position), n, p, kind, position)
<1>. DEFINE g == SetParent(G, p, n)
            u == SetParent(g, p, n)
            k == HeadOf(h, p, kind)
            L == ListFrom(h, k)
            nb == Len(IF IsAttr(G, n) THEN Attributes(G, p) ELSE Children(G, p))
<1>1. G \in [Addr -> Node] /\ n \in Addr /\ p \in Addr
  BY LiveAddr DEF Sprouted, Unused
<1>2. Parented(G, g, p, n)
  BY <1>1, SetParentIs
<1>3. Parented(G, u, p, n)
  BY <1>1, <1>2, SetParentTwice
<1>4. /\ IsAttr(G, n) <=> kind \in AttrKinds
      /\ IsAttr(g, n) <=> kind \in AttrKinds
      /\ IsAttr(u, n) <=> kind \in AttrKinds
  BY <1>1, <1>2, <1>3 DEF Parented, Sprouted, IsAttr, AttrKinds
<1>5. nb = Len(L) /\ nb \in Nat /\ (nb # 0 => k # Null)
  <2>1. \A a \in Live(h) : G[a] = h[a]
    BY LiveAddr DEF Sprouted, Unused, Live, Kinds
  <2>2. /\ Finite(G)
        /\ \A a \in Live(h) : ListFrom(G, a) = ListFrom(h, a)
    BY <1>1, SproutedLists
  <2>3. ListFrom(G, Null) = <<>> /\ ListFrom(h, Null) = <<>>
    BY <2>2, ListFromIs, LinkedFinite
  <2>4. k \in Live(h) \/ k = Null
    BY HeadList
  <2>5. ListFrom(G, k) = L
    BY <2>2, <2>3, <2>4
  <2>6. nb = Len(L)
    BY <1>4, <2>1, <2>5 DEF Attributes, Children, HeadOf
  <2>7. L \in Seq(Addr)
    BY <2>4, ListFromIs, LinkedFinite, LiveAddr, PtrIs
  <2>8. Len(L) \in Nat
    BY <2>7
  <2>9. k = Null => Len(L) = 0
    BY <2>3
  <2>. QED
    BY <2>6, <2>8, <2>9
<1>6. ParentNode(G, p, n, position) =
         CASE position = 0 \/ position > nb -> AppendNode(g, p, n)
           [] position = 1 /\ position <= nb -> PrependNode(g, p, n)
           [] OTHER -> InsertNode(g, p, n, position)
  BY DEF ParentNode
<1>7. AppendNode(g, p, n) = IF IsAttr(u, n) THEN AppendAttr(u, p, n) ELSE AppendOther(u, p, n)
  BY DEF AppendNode
<1>. HIDE DEF g, u, nb
<1>8. CASE position = 0 \/ position > nb
  <2>1. ParentNode(G, p, n, position) = AppendNode(g, p, n)
    BY <1>5, <1>6, <1>8
  <2>2. CASE kind \in AttrKinds
    BY <1>3, <1>4, <1>5, <1>7, <1>8, <2>1, <2>2, AppendAttrSettles
  <2>3. CASE kind \notin AttrKinds
    BY <1>3, <1>4, <1>5, <1>7, <1>8, <2>1, <2>3, AppendOtherSettles
  <2>. QED
    BY <2>2, <2>3
<1>9. CASE position = 1 /\ position <= nb
  <2>1. ParentNode(G, p, n, position) = PrependNode(g, p, n)
    BY <1>5, <1>6, <1>9
  <2>2. HeadOf(h, p, kind) # Null
    BY <1>4, <1>5, <1>9
  <2>3. Settled(h, g, PrependNode(g, p, n), n, p, kind, position)
    BY <1>2, <1>9, <2>2, PrependSettles
  <2>. QED
    BY <1>2, <1>4, <2>1, <2>3
<1>10. CASE position >= 2 /\ position <= nb
  <2>1. ParentNode(G, p, n, position) = InsertNode(g, p, n, position)
    BY <1>5, <1>6, <1>10
  <2>2. /\ HeadOf(h, p, kind) # Null
        /\ position <= Len(ListFrom(h, HeadOf(h, p, kind)))
    BY <1>4, <1>5, <1>10
  <2>3. Settled(h, g, InsertNode(g, p, n, position), n, p, kind, position)
    BY <1>2, <1>10, <2>2, InsertSettles
  <2>. QED
    BY <1>2, <1>4, <2>1, <2>3
<1>. QED
  BY <1>5, <1>8, <1>9, <1>10

LEMMA TargetIs ==
    ASSUME Linked(heap), NEW parent \in Live(heap), NEW kind, Target(parent, kind) # Null
    PROVE  LET p == Target(parent, kind)
           IN /\ p \in Live(heap)
              /\ heap[p].kind = "elm" \/ (heap[p].kind = "att" /\ kind = "txt")
<1>1. CASE IsAttr(heap, parent)
  <2>1. Target(parent, kind) = parent /\ kind = "txt" /\ heap[parent].chld = Null
    <3>. DEFINE x == IF kind = "txt" /\ heap[parent].chld = Null THEN parent ELSE Null
                up == heap[parent].prnt
                y == IF up # Null /\ heap[up].kind = "elm" THEN up ELSE Null
    <3>1. Target(parent, kind) = CASE IsAttr(heap, parent) -> x
                                   [] heap[parent].kind = "elm" -> parent
                                   [] OTHER -> y
      BY DEF Target
    <3>2. heap[parent].kind # "elm"
      BY <1>1 DEF IsAttr
    <3>. HIDE DEF x, y
    <3>3. Target(parent, kind) = x
      BY <1>1, <3>1, <3>2
    <3>. QED
      BY <3>3 DEF x
  <2>2. heap[parent].kind # "nsd"
    BY <2>1 DEF Linked, Ends
  <2>. QED
    BY <1>1, <2>1, <2>2 DEF IsAttr
<1>2. CASE ~IsAttr(heap, parent) /\ heap[parent].kind = "elm"
  BY <1>2 DEF Target
<1>3. CASE ~IsAttr(heap, parent) /\ heap[parent].kind # "elm"
  BY <1>3 DEF Target, Linked, Closed
<1>. QED
  BY <1>1, <1>2, <1>3

\* g is h with a node n of that kind, valued or not, at that position of p.
AddedAt(h, g, p, n, v, b, f, kind, position, size) ==
    /\ Attached(h, g, p, n, v, b, f)
    /\ Stands(h, p, g[n].kind, b, f, position)
    /\ g[n].kind = kind
    /\ v = n <=> size = 1

LEMMA NewNodeIs ==
    ASSUME Linked(heap), NEW p \in Live(heap), NEW kind \in Kinds, NEW alias \in Aliases,
           NEW size \in {1, 2}, NEW position \in Nat, size <= Cardinality(Unused(heap)),
           heap[p].kind = "elm" \/ (heap[p].kind = "att" /\ kind = "txt"),
           p = Root => kind \notin {"att", "nsd"}, size = 1 => kind # "nsd",
           NEW w, w = ParentNode(Generated(Fresh(heap, size), kind, alias), p,
                                 Fresh(heap, size)[1], position)
    PROVE  \E n, v, b, f : AddedAt(heap, w, p, n, v, b, f, kind, position, size)
<1>. DEFINE new == Fresh(heap, size)
            G == Generated(new, kind, alias)
<1>8. w = ParentNode(G, p, new[1], position)
  OBVIOUS
<1>1. PICK n, v \in Addr : new[1] = n /\ (v = n <=> size = 1) /\ Sprouted(heap, G, n, v, kind)
  BY GeneratedIs
<1>. HIDE DEF G, new
<1>2. PICK g : Parented(G, g, p, n) /\ Settled(heap, g, w, n, p, kind, position)
  <2>1. heap[p].kind # "nsd"
    OBVIOUS
  <2>. QED
    BY <1>1, <1>8, <2>1, ParentNodeSettles
<1>3. PICK b, f : /\ InList(heap, p, kind, b, f) /\ Stands(heap, p, kind, b, f, position)
                  /\ Placed(g, w, n, Link(heap, b, f), b, f,
                            IF kind \notin AttrKinds /\ Link(heap, b, f) = Null THEN p ELSE Null)
  BY <1>2 DEF Settled
<1>4. v = n => kind # "nsd"
  BY <1>1
<1>5. Attached(heap, w, p, n, v, b, f)
  BY <1>1, <1>2, <1>3, <1>4, PlacedAttached
<1>6. w[n].kind = kind
  <2>1. n \in Addr /\ G[n].kind = kind
    BY <1>1 DEF Sprouted
  <2>. QED
    BY <1>2, <1>3, <2>1 DEF Parented, Placed
<1>7. Stands(heap, p, w[n].kind, b, f, position)
  BY <1>3, <1>6
<1>. QED
  BY <1>1, <1>5, <1>6, <1>7 DEF AddedAt

LEMMA Positions == (\A i \in 0..MaxPosition : i \in Nat) /\ 1 # 2
<1>1. MaxPosition \in Nat
  BY CallersAssumption
<1>. QED
  BY <1>1

\* roxml_add_node attaches one node of the kind asked for, with its value if one
\* is given, to the node that takes it.
LEMMA AddNodeIs ==
    ASSUME Linked(heap), "root attr" \notin Callers
    PROVE  \A parent \in Addr, position \in 0..MaxPosition, kind \in Added,
              alias \in Aliases, size \in {1, 2} :
                 AddNode(parent, position, kind, alias, size) =>
                    /\ \E n, v, b, f : AddedAt(heap, heap', Target(parent, kind), n, v, b, f,
                                             kind, position, size)
                    /\ open' = open
<1>1. ASSUME NEW parent \in Addr, NEW position \in 0..MaxPosition, NEW kind \in Added,
             NEW alias \in Aliases, NEW size \in {1, 2},
             AddNode(parent, position, kind, alias, size)
      PROVE  /\ \E n, v, b, f : AddedAt(heap, heap', Target(parent, kind), n, v, b, f,
                                      kind, position, size)
             /\ open' = open
  <2>. DEFINE p == Target(parent, kind)
              new == Fresh(heap, size)
  <2>1. /\ parent \in Live(heap) /\ p # Null
        /\ size <= Cardinality(Unused(heap))
        /\ kind \in {"att", "nsd"} => size = 2
        /\ p = Root => kind \notin {"att", "nsd"}
        /\ heap' = ParentNode(Generated(new, kind, alias), p, new[1], position)
        /\ open' = open
    BY <1>1 DEF AddNode
  <2>2. kind \in Kinds
    BY CallersAssumption
  <2>3. position \in Nat
    BY Positions, Zenon
  <2>4. p \in Live(heap) /\ (heap[p].kind = "elm" \/ (heap[p].kind = "att" /\ kind = "txt"))
    BY <2>1, TargetIs
  <2>5. size = 1 => kind # "nsd"
    BY <2>1, Positions, Zenon
  <2>. DEFINE w == ParentNode(Generated(new, kind, alias), p, new[1], position)
  <2>6. p = Root => kind \notin {"att", "nsd"}
    BY <2>1
  <2>7. size <= Cardinality(Unused(heap))
    BY <2>1
  <2>. HIDE DEF p
  <2>8. \E n, v, b, f : AddedAt(heap, w, p, n, v, b, f, kind, position, size)
    BY <2>2, <2>3, <2>4, <2>5, <2>6, <2>7, NewNodeIs
  <2>. HIDE DEF w
  <2>9. heap' = w /\ open' = open
    BY <2>1 DEF w
  <2>10. p = Target(parent, kind)
    BY DEF p
  <2>. QED
    BY <2>8, <2>9, <2>10
<1>. QED
  BY <1>1

-----------------------------------------------------------------------------
(* Deleting a node.                                                        *)

\* From a node to its parent.
Parents(h) == {e \in Addr \X Addr : h[e[1]].prnt = e[2]}

\* Who leads to a node is its parent or has the same parent.
LEMMA LeadingTo ==
    ASSUME NEW h, Linked(h), NEW a \in Hanging(h)
    PROVE  \E b \in Live(h) :
              /\ <<b, a>> \in Edges(h)
              /\ \/ h[b].sibl = a /\ h[b].prnt = h[a].prnt /\ b \in Hanging(h)
                 \/ h[b].chld = a /\ h[a].prnt = b
                 \/ h[b].attr = a /\ h[a].prnt = b
<1>1. PICK b \in Live(h) : <<b, a>> \in Edges(h)
  BY DEF Linked, Reached
<1>2. a \in {h[b].sibl, h[b].chld, h[b].attr} /\ a # Null
  BY <1>1, EdgeIs, AddrAssumption
<1>3. h[b].sibl = a => b \in Hanging(h)
  BY <1>2 DEF Hanging, Linked, Rooted
<1>. QED
  BY <1>1, <1>2, <1>3 DEF Linked, Families

LEMMA ParentsFounded ==
    ASSUME NEW h, Linked(h)
    PROVE  WellFounded(Addr, Parents(h))
<1>1. SUFFICES ASSUME NEW T \in SUBSET Addr, T # {},
                      \A a \in T : \E c \in T : <<a, c>> \in Parents(h)
               PROVE  FALSE
  BY DEF WellFounded
<1>2. \A a \in T : h[a].prnt \in T
  BY <1>1 DEF Parents
<1>. DEFINE U == {x \in Addr : h[x].prnt \in T}
<1>3. PICK x \in U : \A y \in U : <<x, y>> \notin Upwards(h)
  <2>1. U \in SUBSET Addr /\ U # {}
    BY <1>1, <1>2
  <2>. HIDE DEF U
  <2>. QED
    BY <2>1 DEF Linked, Grounded
<1>4. x \in Hanging(h)
  <2>1. h[x].prnt # Null
    BY AddrAssumption
  <2>. QED
    BY <2>1 DEF Hanging, Linked, Rooted, Typed, Blank
<1>5. PICK b \in Live(h) : /\ <<b, x>> \in Edges(h)
                           /\ h[b].prnt = h[x].prnt \/ h[x].prnt = b
  BY <1>4, LeadingTo
<1>6. b \in U /\ <<x, b>> \in Upwards(h)
  BY <1>2, <1>5, UpwardIs, LiveAddr
<1>. QED
  BY <1>3, <1>6

\* What roxml_del_tree visits is closed under the links.
LEMMA TreeClosed ==
    ASSUME NEW h, Finite(h), NEW m \in Ptr
    PROVE  \A y \in TreeFrom(h, m) :
              {h[y].sibl, h[y].chld, h[y].attr} \subseteq TreeFrom(h, m) \cup {Null}
<1>. DEFINE P(k) == \A y \in TreeFrom(h, k) :
                       {h[y].sibl, h[y].chld, h[y].attr} \subseteq TreeFrom(h, k) \cup {Null}
            T == {k \in Ptr : P(k)}
<1>1. ASSUME NEW k \in Ptr, \A b \in Ptr : <<k, b>> \in Pointers(h) => b \in T
      PROVE  k \in T
  <2>1. CASE k = Null
    BY <2>1, TreeFromIs
  <2>2. CASE k # Null
    <3>1. k \in Addr
      BY <2>2, PtrIs
    <3>2. h[k].sibl \in Ptr /\ h[k].chld \in Ptr /\ h[k].attr \in Ptr
      BY <3>1, NodeFields DEF Finite
    <3>3. TreeFrom(h, k) = {k} \cup TreeFrom(h, h[k].chld) \cup TreeFrom(h, h[k].sibl)
                              \cup TreeFrom(h, h[k].attr)
      BY <3>1, TreeFromIs
    <3>4. h[k].sibl \in T /\ h[k].chld \in T /\ h[k].attr \in T
      <4>. HIDE DEF T
      <4>. QED
        BY <1>1, <3>1, <3>2, PointerIs DEF Finite
    <3>5. P(h[k].sibl) /\ P(h[k].chld) /\ P(h[k].attr)
      <4>. HIDE DEF P
      <4>. QED
        BY <3>4
    <3>6. \A b \in Ptr : b = Null \/ b \in TreeFrom(h, b)
      BY TreeFromIs, PtrIs
    <3>. QED
      BY <3>2, <3>3, <3>5, <3>6
  <2>. QED
    BY <2>1, <2>2
<1>2. Ptr \subseteq T
  <2>. HIDE DEF T
  <2>. QED
    BY <1>1, FiniteFounds, Induction
<1>. QED
  BY <1>2

\* It is the least set that is: it has no other node.
LEMMA TreeLeast ==
    ASSUME NEW h, Finite(h), NEW m \in Ptr, NEW X, m \in X \cup {Null},
           \A y \in X : y \in Addr /\ {h[y].sibl, h[y].chld, h[y].attr} \subseteq X \cup {Null}
    PROVE  TreeFrom(h, m) \subseteq X
<1>. DEFINE T == {k \in Ptr : k \in X \cup {Null} => TreeFrom(h, k) \subseteq X}
<1>1. ASSUME NEW k \in Ptr, \A b \in Ptr : <<k, b>> \in Pointers(h) => b \in T
      PROVE  k \in T
  <2>1. CASE k = Null
    BY <2>1, TreeFromIs
  <2>2. CASE k # Null /\ k \in X
    <3>1. k \in Addr
      BY <2>2
    <3>2. h[k].sibl \in Ptr /\ h[k].chld \in Ptr /\ h[k].attr \in Ptr
      BY <3>1, NodeFields DEF Finite
    <3>3. TreeFrom(h, k) = {k} \cup TreeFrom(h, h[k].chld) \cup TreeFrom(h, h[k].sibl)
                              \cup TreeFrom(h, h[k].attr)
      BY <3>1, TreeFromIs
    <3>4. h[k].sibl \in T /\ h[k].chld \in T /\ h[k].attr \in T
      <4>. HIDE DEF T
      <4>. QED
        BY <1>1, <3>1, <3>2, PointerIs DEF Finite
    <3>. QED
      BY <2>2, <3>3, <3>4
  <2>. QED
    BY <2>1, <2>2
<1>2. Ptr \subseteq T
  <2>. HIDE DEF T
  <2>. QED
    BY <1>1, FiniteFounds, Induction
<1>. QED
  BY <1>2

\* A link that skips one node makes no cycle.
LEMMA Shortcut ==
    ASSUME NEW E, NEW b, NEW n, NEW c, NEW F, Grounded(E), n \in Addr,
           <<b, n>> \in E, <<n, c>> \in E, \A e \in F : e \in E \/ e = <<b, c>>
    PROVE  Grounded(F)
<1>1. ASSUME NEW S \in SUBSET Addr, S # {}
      PROVE  \E a \in S : \A d \in S : <<a, d>> \notin F
  <2>. DEFINE T == IF b \in S /\ c \in S THEN S \cup {n} ELSE S
  <2>1. PICK a \in T : \A d \in T : <<a, d>> \notin E
    <3>1. T \in SUBSET Addr /\ T # {}
      BY <1>1
    <3>. HIDE DEF T
    <3>. QED
      BY <3>1 DEF Grounded
  <2>2. CASE b \in S /\ c \in S
    <3>1. a # n /\ a # b
      BY <2>1, <2>2
    <3>2. a \in S /\ \A d \in S : <<a, d>> \notin F
      BY <2>1, <2>2, <3>1
    <3>. QED
      BY <3>2
  <2>3. CASE ~(b \in S /\ c \in S)
    <3>1. a \in S /\ \A d \in S : <<a, d>> \notin E
      BY <2>1, <2>3
    <3>2. \A d \in S : <<a, d>> # <<b, c>>
      BY <2>3, <3>1
    <3>. QED
      BY <3>1, <3>2
  <2>. QED
    BY <2>2, <2>3
<1>. QED
  BY <1>1 DEF Grounded

LEMMA Fewer ==
    ASSUME NEW E, NEW F, Grounded(E), F \subseteq E
    PROVE  Grounded(F)
  BY DEF Grounded

\* u is h with the link f of b, that led to n, going on as n does; the last
\* child of n's parent is still known.
Detached(h, u, n, b, f) ==
    /\ u \in [Addr -> Node] /\ n \in Hanging(h) /\ b \in Live(h)
    /\ f \in {"sibl", "chld", "attr"} /\ Link(h, b, f) = n
    /\ h[h[n].prnt].kind # "nsd"
    /\ \A a \in Addr \ Live(h) : u[a] = h[a]
    /\ \A a \in Addr :
          /\ u[a].kind = h[a].kind /\ u[a].prnt = h[a].prnt /\ u[a].ns = h[a].ns
          /\ u[a].sibl = IF f = "sibl" /\ a = b THEN h[n].sibl ELSE h[a].sibl
          /\ u[a].chld = IF f = "chld" /\ a = b THEN h[n].sibl ELSE h[a].chld
          /\ u[a].attr = IF f = "attr" /\ a = b THEN h[n].sibl ELSE h[a].attr
          /\ u[a].next = IF a = h[n].prnt /\ h[a].next = n
                         THEN IF f = "sibl" THEN b ELSE Null
                         ELSE h[a].next

LEMMA NoLoop ==
    ASSUME NEW h, Linked(h), NEW a \in Addr
    PROVE  a \notin {h[a].sibl, h[a].chld, h[a].attr}
<1>1. <<a, a>> \notin Edges(h)
  <2>1. {a} \in SUBSET Addr /\ {a} # {}
    OBVIOUS
  <2>2. \E x \in {a} : \A c \in {a} : <<x, c>> \notin Edges(h)
    BY <2>1 DEF Linked, Grounded
  <2>. QED
    BY <2>2
<1>. QED
  BY <1>1, EdgeIs

LEMMA DetachedLinks ==
    ASSUME NEW h, NEW u, NEW n, NEW b, NEW f, Linked(h), Detached(h, u, n, b, f)
    PROVE  /\ Live(u) = Live(h) /\ \A a \in Addr : IsAttr(u, a) <=> IsAttr(h, a)
           /\ <<b, n>> \in Edges(h) /\ b # n /\ n \in Live(h) /\ n # Null
           /\ h[n].sibl \in (Live(h) \ {n}) \cup {Null}
           /\ u[n].sibl = h[n].sibl /\ u[n].chld = h[n].chld /\ u[n].attr = h[n].attr
           /\ \A a \in Live(h) : n \notin {u[a].sibl, u[a].chld, u[a].attr}
<1>1. Live(u) = Live(h) /\ \A a \in Addr : IsAttr(u, a) <=> IsAttr(h, a)
  BY DEF Detached, Live, IsAttr
<1>2. n \in Live(h) /\ n \in Addr /\ n # Null /\ b \in Addr
  BY LiveAddr DEF Detached, Hanging
<1>3. <<b, n>> \in Edges(h)
  BY <1>2, EdgeIs DEF Detached, Link
<1>4. b # n
  BY <1>2, <1>3, EdgeIs, NoLoop
<1>5. h[n].sibl \in (Live(h) \ {n}) \cup {Null}
  BY <1>2, NoLoop DEF Linked, Closed
<1>6. u[n].sibl = h[n].sibl /\ u[n].chld = h[n].chld /\ u[n].attr = h[n].attr
  BY <1>2, <1>4 DEF Detached
<1>7. ASSUME NEW a \in Live(h)
      PROVE  n \notin {u[a].sibl, u[a].chld, u[a].attr}
  <2>1. a \in Addr /\ b \in Live(h)
    BY LiveAddr DEF Detached
  <2>2. /\ u[a].sibl = IF f = "sibl" /\ a = b THEN h[n].sibl ELSE h[a].sibl
        /\ u[a].chld = IF f = "chld" /\ a = b THEN h[n].sibl ELSE h[a].chld
        /\ u[a].attr = IF f = "attr" /\ a = b THEN h[n].sibl ELSE h[a].attr
    BY <2>1 DEF Detached
  <2>3. \/ f = "sibl" /\ h[b].sibl = n
        \/ f = "chld" /\ h[b].chld = n
        \/ f = "attr" /\ h[b].attr = n
    BY DEF Detached, Link
  <2>4. \A c, d \in Live(h) :
           /\ h[c].sibl = h[d].sibl /\ h[c].sibl # Null => c = d
           /\ h[c].sibl # Null => h[c].sibl \notin {h[d].chld, h[d].attr}
    BY DEF Linked, Reached
  <2>5. \A c \in Live(h) :
           /\ h[c].chld # Null => h[h[c].chld].prnt = c /\ ~IsAttr(h, h[c].chld)
           /\ h[c].attr # Null => h[h[c].attr].prnt = c /\ IsAttr(h, h[c].attr)
    BY DEF Linked, Families
  <2>6. u[a].sibl # n
    BY <1>2, <1>5, <2>1, <2>2, <2>3, <2>4
  <2>7. u[a].chld # n
    BY <1>2, <1>5, <2>1, <2>2, <2>3, <2>4, <2>5
  <2>8. u[a].attr # n
    BY <1>2, <1>5, <2>1, <2>2, <2>3, <2>4, <2>5
  <2>. QED
    BY <2>6, <2>7, <2>8
<1>. QED
  BY <1>1, <1>2, <1>3, <1>4, <1>5, <1>6, <1>7

LEMMA DetachedEdges ==
    ASSUME NEW h, NEW u, NEW n, NEW b, NEW f, Linked(h), Detached(h, u, n, b, f)
    PROVE  \A a, c : <<a, c>> \in Edges(u) =>
              \/ <<a, c>> \in Edges(h)
              \/ a = b /\ c = h[n].sibl /\ <<n, c>> \in Edges(h)
<1>. SUFFICES ASSUME NEW a, NEW c, <<a, c>> \in Edges(u)
              PROVE  \/ <<a, c>> \in Edges(h)
                     \/ a = b /\ c = h[n].sibl /\ <<n, c>> \in Edges(h)
  OBVIOUS
<1>1. a \in Addr /\ c \in Addr /\ c \in {u[a].sibl, u[a].chld, u[a].attr} /\ n \in Addr
  BY EdgeIs, LiveAddr DEF Detached, Hanging
<1>2. c \in {h[a].sibl, h[a].chld, h[a].attr} \/ (a = b /\ c = h[n].sibl)
  BY <1>1 DEF Detached
<1>. QED
  BY <1>1, <1>2, EdgeIs

LEMMA DetachedGrounded ==
    ASSUME NEW h, NEW u, NEW n, NEW b, NEW f, Linked(h), Detached(h, u, n, b, f)
    PROVE  Grounded(Edges(u)) /\ Grounded(Upwards(u))
<1>. DEFINE c == h[n].sibl
<1>1. <<b, n>> \in Edges(h) /\ n \in Addr
  BY DetachedLinks, LiveAddr
<1>2. \A e \in Edges(u) : \E x, y : e = <<x, y>>
  BY DEF Edges
<1>3. ASSUME NEW x, NEW y, <<x, y>> \in Edges(u)
      PROVE  <<x, y>> \in Edges(h) \/ (x = b /\ y = c /\ <<n, c>> \in Edges(h))
  <2>1. \A x1, y1 : <<x1, y1>> \in Edges(u) =>
           \/ <<x1, y1>> \in Edges(h)
           \/ x1 = b /\ y1 = h[n].sibl /\ <<n, y1>> \in Edges(h)
    BY DetachedEdges
  <2>2. <<x, y>> \in Edges(h) \/ (x = b /\ y = h[n].sibl /\ <<n, y>> \in Edges(h))
    BY <1>3, <2>1
  <2>. QED
    BY <2>2
<1>4. \A e \in Upwards(u) : \E x, y : e = <<x, y>>
  BY DEF Upwards
<1>. HIDE DEF c
<1>5. \A x, y : <<x, y>> \in Upwards(u) =>
         <<x, y>> \in Upwards(h) \/ (x = c /\ y = b /\ <<n, c>> \in Edges(h))
  BY <1>3, UpwardIs
<1>6. CASE <<n, c>> \in Edges(h)
  <2>1. Grounded(Edges(u))
    <3>1. \A e \in Edges(u) : e \in Edges(h) \/ e = <<b, c>>
      BY <1>2, <1>3
    <3>2. Grounded(Edges(h))
      BY DEF Linked
    <3>. QED
      BY <1>1, <1>6, <3>1, <3>2, Shortcut
  <2>2. Grounded(Upwards(u))
    <3>1. \A e \in Upwards(u) : e \in Upwards(h) \/ e = <<c, b>>
      BY <1>4, <1>5
    <3>2. Grounded(Upwards(h))
      BY DEF Linked
    <3>3. <<c, n>> \in Upwards(h) /\ <<n, b>> \in Upwards(h)
      BY <1>1, <1>6, UpwardIs
    <3>. QED
      BY <1>1, <3>1, <3>2, <3>3, Shortcut
  <2>. QED
    BY <2>1, <2>2
<1>7. CASE <<n, c>> \notin Edges(h)
  <2>1. Edges(u) \subseteq Edges(h) /\ Upwards(u) \subseteq Upwards(h)
    BY <1>2, <1>3, <1>4, <1>5, <1>7
  <2>. QED
    BY <2>1, Fewer DEF Linked
<1>. QED
  BY <1>6, <1>7

\* The lists and the parents still agree.
LEMMA DetachedFamilies ==
    ASSUME NEW h, NEW u, NEW n, NEW b, NEW f, Linked(h), Detached(h, u, n, b, f)
    PROVE  Closed(u) /\ Families(u)
<1>1. /\ Live(u) = Live(h) /\ b \in Live(h) /\ n \in Live(h) /\ Live(h) \subseteq Addr
      /\ \A a \in Addr : IsAttr(u, a) <=> IsAttr(h, a)
      /\ h[n].sibl \in Live(h) \cup {Null}
  <2>1. b \in Live(h)
    BY DEF Detached
  <2>2. h[n].sibl \in (Live(h) \ {n}) \cup {Null} /\ n \in Live(h)
    BY DetachedLinks
  <2>3. Live(u) = Live(h) /\ \A a \in Addr : IsAttr(u, a) <=> IsAttr(h, a)
    BY DetachedLinks
  <2>. QED
    BY <2>1, <2>2, <2>3, LiveAddr
<1>2. ASSUME NEW a \in Addr
      PROVE  /\ u[a].prnt = h[a].prnt
             /\ u[a].sibl = IF f = "sibl" /\ a = b THEN h[n].sibl ELSE h[a].sibl
             /\ u[a].chld = IF f = "chld" /\ a = b THEN h[n].sibl ELSE h[a].chld
             /\ u[a].attr = IF f = "attr" /\ a = b THEN h[n].sibl ELSE h[a].attr
  BY DEF Detached
<1>3. \A a \in Live(h) :
         /\ h[a].sibl # Null => /\ h[h[a].sibl].prnt = h[a].prnt
                                /\ IsAttr(h, h[a].sibl) <=> IsAttr(h, a)
         /\ h[a].chld # Null => h[h[a].chld].prnt = a /\ ~IsAttr(h, h[a].chld)
         /\ h[a].attr # Null => h[h[a].attr].prnt = a /\ IsAttr(h, h[a].attr)
         /\ {h[a].prnt, h[a].sibl, h[a].chld, h[a].attr} \subseteq Live(h) \cup {Null}
  BY DEF Linked, Families, Closed
<1>4. \/ f = "sibl" /\ h[b].sibl = n
      \/ f = "chld" /\ h[b].chld = n
      \/ f = "attr" /\ h[b].attr = n
  BY DEF Detached, Link
<1>5. n # Null
  BY LiveAddr, <1>1
<1>6. Closed(u)
  BY <1>1, <1>2, <1>3 DEF Closed
<1>7. \A a \in Hanging(u) : u[a].prnt # Null
  BY <1>1, <1>2 DEF Linked, Families, Hanging
<1>8. ASSUME NEW a \in Live(h)
      PROVE  /\ u[a].sibl # Null => /\ u[u[a].sibl].prnt = u[a].prnt
                                    /\ IsAttr(u, u[a].sibl) <=> IsAttr(u, a)
             /\ u[a].chld # Null => u[u[a].chld].prnt = a /\ ~IsAttr(u, u[a].chld)
             /\ u[a].attr # Null => u[u[a].attr].prnt = a /\ IsAttr(u, u[a].attr)
  <2>1. a \in Addr /\ u[a].sibl \in Addr \cup {Null} /\ u[a].chld \in Addr \cup {Null}
        /\ u[a].attr \in Addr \cup {Null}
    BY <1>1, <1>2, <1>3
  <2>2. u[a].sibl # Null => /\ u[u[a].sibl].prnt = u[a].prnt
                            /\ IsAttr(u, u[a].sibl) <=> IsAttr(u, a)
    BY <1>1, <1>2, <1>3, <1>4, <1>5, <2>1
  <2>3. u[a].chld # Null => u[u[a].chld].prnt = a /\ ~IsAttr(u, u[a].chld)
    BY <1>1, <1>2, <1>3, <1>4, <1>5, <2>1
  <2>4. u[a].attr # Null => u[u[a].attr].prnt = a /\ IsAttr(u, u[a].attr)
    BY <1>1, <1>2, <1>3, <1>4, <1>5, <2>1
  <2>. QED
    BY <2>2, <2>3, <2>4
<1>. QED
  BY <1>1, <1>6, <1>7, <1>8 DEF Families

\* What is freed with n.
Subtree(u, n) == {n} \cup TreeFrom(u, u[n].chld) \cup TreeFrom(u, u[n].attr)

LEMMA DetachedFinite ==
    ASSUME NEW h, NEW u, NEW n, NEW b, NEW f, Linked(h), Detached(h, u, n, b, f)
    PROVE  /\ Finite(u) /\ n \in Addr
           /\ u[n].chld \in Ptr /\ u[n].attr \in Ptr
<1>1. Finite(u) /\ n \in Addr
  BY DetachedGrounded, LiveAddr DEF Finite, Detached, Hanging
<1>. QED
  BY <1>1, NodeFields DEF Finite

\* The subtree is made of n and nodes whose parent is in it ...
LEMMA SubtreeDown ==
    ASSUME NEW h, NEW u, NEW n, NEW b, NEW f, Linked(h), Detached(h, u, n, b, f)
    PROVE  /\ Subtree(u, n) \subseteq Live(h)
           /\ \A y \in Subtree(u, n) \ {n} : h[y].prnt \in Subtree(u, n)
           /\ \A y \in TreeFrom(u, u[n].chld) \cup TreeFrom(u, u[n].attr) :
                 h[y].prnt \in Subtree(u, n)
<1>. DEFINE D1 == TreeFrom(u, u[n].chld)
            D2 == TreeFrom(u, u[n].attr)
            S == Subtree(u, n)
            X1 == {y \in D1 : y \in Live(h) /\ h[y].prnt \in S}
            X2 == {y \in D2 : y \in Live(h) /\ h[y].prnt \in S}
<1>1. /\ Finite(u) /\ n \in Addr /\ u[n].chld \in Ptr /\ u[n].attr \in Ptr
      /\ Live(u) = Live(h) /\ n \in Live(h) /\ Closed(u) /\ Families(u)
  BY DetachedFinite, DetachedLinks, DetachedFamilies
<1>2. \A y \in Addr : u[y].prnt = h[y].prnt
  BY DEF Detached
<1>3. D1 \subseteq S /\ D2 \subseteq S /\ n \in S
  BY DEF Subtree
<1>4. ASSUME NEW y \in Live(h), h[y].prnt \in S, y \in S,
             NEW z \in {u[y].sibl, u[y].chld, u[y].attr}, z # Null
      PROVE  z \in Live(h) /\ h[z].prnt \in S
  <2>1. z \in Live(h)
    BY <1>1, <1>4 DEF Closed
  <2>2. h[z].prnt = h[y].prnt \/ h[z].prnt = y
    <3>1. u[z].prnt = u[y].prnt \/ u[z].prnt = y
      BY <1>1, <1>4 DEF Families
    <3>2. y \in Addr /\ z \in Addr
      BY <2>1, LiveAddr
    <3>. QED
      BY <1>2, <3>1, <3>2
  <2>. QED
    BY <1>4, <2>1, <2>2
<1>5. \A y \in D1 : {u[y].sibl, u[y].chld, u[y].attr} \subseteq D1 \cup {Null}
  BY <1>1, TreeClosed
<1>6. \A y \in D2 : {u[y].sibl, u[y].chld, u[y].attr} \subseteq D2 \cup {Null}
  BY <1>1, TreeClosed
<1>7. \A m \in Ptr : m = Null \/ m \in TreeFrom(u, m)
  BY <1>1, TreeFromIs, PtrIs
<1>8. /\ u[n].chld # Null => u[n].chld \in Live(h) /\ h[u[n].chld].prnt = n
      /\ u[n].attr # Null => u[n].attr \in Live(h) /\ h[u[n].attr].prnt = n
  <2>1. /\ u[n].chld # Null => u[n].chld \in Live(h) /\ u[u[n].chld].prnt = n
        /\ u[n].attr # Null => u[n].attr \in Live(h) /\ u[u[n].attr].prnt = n
    BY <1>1 DEF Closed, Families
  <2>. QED
    BY <1>2, <2>1, LiveAddr
<1>. HIDE DEF S
<1>9. D1 \subseteq X1
  <2>1. u[n].chld \in X1 \cup {Null}
    BY <1>1, <1>3, <1>7, <1>8
  <2>2. \A y \in X1 : y \in Addr /\ {u[y].sibl, u[y].chld, u[y].attr} \subseteq X1 \cup {Null}
    BY <1>3, <1>4, <1>5, LiveAddr
  <2>. HIDE DEF X1
  <2>. QED
    BY <1>1, <2>1, <2>2, TreeLeast
<1>10. D2 \subseteq X2
  <2>1. u[n].attr \in X2 \cup {Null}
    BY <1>1, <1>3, <1>7, <1>8
  <2>2. \A y \in X2 : y \in Addr /\ {u[y].sibl, u[y].chld, u[y].attr} \subseteq X2 \cup {Null}
    BY <1>3, <1>4, <1>6, LiveAddr
  <2>. HIDE DEF X2
  <2>. QED
    BY <1>1, <2>1, <2>2, TreeLeast
<1>. QED
  BY <1>1, <1>9, <1>10 DEF S, Subtree

\* ... so that what is above n is not in it.
LEMMA SubtreeBelow ==
    ASSUME NEW h, NEW u, NEW n, NEW b, NEW f, Linked(h), Detached(h, u, n, b, f)
    PROVE  /\ h[n].prnt \in Live(h) \ Subtree(u, n) /\ b \notin Subtree(u, n)
           /\ Root \notin Subtree(u, n)
           /\ n \notin TreeFrom(u, u[n].chld) \cup TreeFrom(u, u[n].attr)
<1>. DEFINE S == Subtree(u, n)
            p == h[n].prnt
<1>1. /\ S \subseteq Live(h) /\ \A y \in S \ {n} : h[y].prnt \in S
      /\ \A y \in TreeFrom(u, u[n].chld) \cup TreeFrom(u, u[n].attr) : h[y].prnt \in S
      /\ n \in S /\ S \subseteq Addr
  BY SubtreeDown, LiveAddr DEF Subtree
<1>2. n \in Hanging(h) /\ n \in Live(h) /\ b \in Live(h) /\ b # n
  <2>1. n \in Hanging(h) /\ b \in Live(h)
    BY DEF Detached
  <2>2. b # n
    BY DetachedLinks
  <2>. QED
    BY <2>1, <2>2 DEF Hanging
<1>. HIDE DEF S
<1>3. p \notin S
  <2>1. SUFFICES ASSUME p \in S
                 PROVE  FALSE
    OBVIOUS
  <2>2. \A a \in S : h[a].prnt \in S
    BY <1>1, <2>1
  <2>3. \A a \in S : \E c \in S : <<a, c>> \in Parents(h)
    BY <1>1, <2>2 DEF Parents
  <2>4. S \in SUBSET Addr /\ S # {}
    BY <1>1
  <2>. QED
    BY <2>3, <2>4, ParentsFounded DEF WellFounded
<1>4. p \in Live(h)
  BY <1>2, Listed
<1>5. b = p \/ h[b].prnt = p
  <2>1. h[b].sibl = n \/ h[b].chld = n \/ h[b].attr = n
    BY DEF Detached, Link
  <2>2. n # Null
    BY <1>2, LiveAddr
  <2>. QED
    BY <1>2, <2>1, <2>2 DEF Linked, Families
<1>6. b \notin S
  BY <1>1, <1>2, <1>3, <1>5
<1>7. Root \notin S
  <2>1. Root # n /\ h[Root].prnt = Null
    BY <1>2 DEF Hanging, Linked, Rooted
  <2>. QED
    BY <1>1, <2>1, AddrAssumption
<1>8. n \notin TreeFrom(u, u[n].chld) \cup TreeFrom(u, u[n].attr)
  BY <1>1, <1>3
<1>. QED
  BY <1>3, <1>4, <1>6, <1>7, <1>8 DEF S

\* Every node below n is in it.
LEMMA SubtreeUp ==
    ASSUME NEW h, NEW u, NEW n, NEW b, NEW f, Linked(h), Detached(h, u, n, b, f)
    PROVE  \A y \in Live(h) : h[y].prnt \in Subtree(u, n) =>
              y \in Subtree(u, n) \ {n}
<1>. DEFINE D1 == TreeFrom(u, u[n].chld)
            D2 == TreeFrom(u, u[n].attr)
            S == Subtree(u, n)
            T == {y \in Addr : y \in Live(h) /\ h[y].prnt \in S => y \in S}
<1>1. /\ Finite(u) /\ n \in Addr /\ u[n].chld \in Ptr /\ u[n].attr \in Ptr
      /\ u[n].chld = h[n].chld /\ u[n].attr = h[n].attr
  BY DetachedFinite, DetachedLinks
<1>2. h[n].prnt \notin S /\ b \notin S /\ Root \notin S /\ S \subseteq Live(h)
  BY SubtreeBelow, SubtreeDown
<1>3. \A y \in Addr : y # b =>
         u[y].sibl = h[y].sibl /\ u[y].chld = h[y].chld /\ u[y].attr = h[y].attr
  BY DEF Detached
<1>4. S = {n} \cup D1 \cup D2
  BY DEF Subtree
<1>5. \A m \in Ptr : m = Null \/ m \in TreeFrom(u, m)
  BY <1>1, TreeFromIs, PtrIs
<1>6. /\ \A y \in D1 : {u[y].sibl, u[y].chld, u[y].attr} \subseteq D1 \cup {Null}
      /\ \A y \in D2 : {u[y].sibl, u[y].chld, u[y].attr} \subseteq D2 \cup {Null}
  BY <1>1, TreeClosed
<1>. HIDE DEF S, D1, D2
<1>7. ASSUME NEW y \in Addr, \A c \in Addr : <<y, c>> \in Upwards(h) => c \in T
      PROVE  y \in T
  <2>1. SUFFICES ASSUME y \in Live(h), h[y].prnt \in S
                 PROVE  y \in S
    OBVIOUS
  <2>2. y \in Hanging(h) /\ y # Null
    <3>1. h[y].prnt # Null
      BY <1>2, <2>1, LiveAddr
    <3>. QED
      BY <2>1, <3>1, AddrAssumption DEF Hanging, Linked, Rooted
  <2>3. PICK c \in Live(h) :
              /\ <<c, y>> \in Edges(h)
              /\ \/ h[c].sibl = y /\ h[c].prnt = h[y].prnt /\ c \in Hanging(h)
                 \/ h[c].chld = y /\ h[y].prnt = c
                 \/ h[c].attr = y /\ h[y].prnt = c
    BY <2>2, LeadingTo
  <2>4. c \in T /\ c \in Addr
    BY <1>7, <2>3, UpwardIs, LiveAddr
  <2>5. CASE h[c].sibl = y /\ h[c].prnt = h[y].prnt
    <3>1. c \in S /\ c # n /\ c # b
      BY <1>2, <2>1, <2>3, <2>4, <2>5
    <3>2. u[c].sibl = y
      BY <1>3, <2>4, <2>5, <3>1
    <3>. QED
      BY <1>4, <1>6, <2>2, <3>1, <3>2
  <2>6. CASE (h[c].chld = y \/ h[c].attr = y) /\ h[y].prnt = c
    <3>1. c \in S /\ c # b
      BY <1>2, <2>1, <2>6
    <3>2. u[c].chld = y \/ u[c].attr = y
      BY <1>3, <2>4, <2>6, <3>1
    <3>3. CASE c = n
      <4>1. y \in D1 \/ y \in D2
        BY <1>1, <1>5, <2>2, <3>2, <3>3 DEF D1, D2
      <4>. QED
        BY <1>4, <4>1
    <3>4. CASE c # n
      BY <1>4, <1>6, <2>2, <3>1, <3>2, <3>4
    <3>. QED
      BY <3>3, <3>4
  <2>. QED
    BY <2>3, <2>5, <2>6
<1>8. Addr \subseteq T
  <2>. HIDE DEF T
  <2>. QED
    BY <1>7, UpFounded, Induction DEF Linked
<1>. QED
  BY <1>2, <1>8, LiveAddr DEF S

LEMMA ReleaseIs ==
    ASSUME NEW u \in [Addr -> Node], NEW S
    PROVE  /\ Release(u, S) \in [Addr -> Node]
           /\ \A a \in Addr \ S : Release(u, S)[a] = u[a]
           /\ \A a \in Addr \cap S : Release(u, S)[a] = Blank("freed")
           /\ Live(Release(u, S)) = Live(u) \ S
           /\ \A a \in Addr \ S : IsAttr(Release(u, S), a) <=> IsAttr(u, a)
<1>1. Blank("freed") \in Node /\ Blank("freed").kind \notin Kinds
  BY PtrIs DEF Blank, Node, Kinds, Aliases
<1>. DEFINE g == Release(u, S)
<1>2. /\ g \in [Addr -> Node]
      /\ \A a \in Addr \ S : g[a] = u[a]
      /\ \A a \in Addr \cap S : g[a] = Blank("freed")
  BY <1>1 DEF Release
<1>. HIDE DEF g
<1>3. Live(g) = Live(u) \ S
  BY <1>1, <1>2 DEF Live
<1>4. \A a \in Addr \ S : IsAttr(g, a) <=> IsAttr(u, a)
  BY <1>2 DEF IsAttr
<1>. QED
  BY <1>2, <1>3, <1>4 DEF g

LEMMA ReleasedEdges ==
    ASSUME NEW u \in [Addr -> Node], NEW S, Grounded(Edges(u)), Grounded(Upwards(u))
    PROVE  Grounded(Edges(Release(u, S))) /\ Grounded(Upwards(Release(u, S)))
<1>. DEFINE g == Release(u, S)
<1>1. /\ \A a \in Addr \ S : g[a] = u[a]
      /\ \A a \in Addr \cap S : g[a] = Blank("freed")
  BY ReleaseIs
<1>. HIDE DEF g
<1>2. \A a, c : <<a, c>> \in Edges(g) => <<a, c>> \in Edges(u)
  <2>. SUFFICES ASSUME NEW a, NEW c, <<a, c>> \in Edges(g)
                PROVE  <<a, c>> \in Edges(u)
    OBVIOUS
  <2>1. a \in Addr /\ c \in Addr /\ c # Null /\ c \in {g[a].sibl, g[a].chld, g[a].attr}
    BY EdgeIs, AddrAssumption
  <2>2. a \notin S
    BY <1>1, <2>1 DEF Blank
  <2>. QED
    BY <1>1, <2>1, <2>2, EdgeIs
<1>3. Edges(g) \subseteq Edges(u)
  <2>1. \A e \in Edges(g) : \E x, y : e = <<x, y>>
    BY DEF Edges
  <2>. QED
    BY <1>2, <2>1
<1>4. Upwards(g) \subseteq Upwards(u)
  <2>1. \A e \in Upwards(g) : \E x, y : e = <<x, y>>
    BY DEF Upwards
  <2>2. \A x, y : <<x, y>> \in Upwards(g) => <<x, y>> \in Upwards(u)
    BY <1>2, UpwardIs
  <2>. QED
    BY <2>1, <2>2
<1>. QED
  BY <1>3, <1>4, Fewer DEF g

\* The heap after n and its subtree are freed.
Freed(u, n) == Release(u, Subtree(u, n))

LEMMA FreedIs ==
    ASSUME NEW h, NEW u, NEW n, NEW b, NEW f, Linked(h), Detached(h, u, n, b, f)
    PROVE  /\ Freed(u, n) \in [Addr -> Node]
           /\ Live(Freed(u, n)) = Live(h) \ Subtree(u, n)
           /\ \A a \in Live(Freed(u, n)) :
                 /\ Freed(u, n)[a] = u[a] /\ a # n
                 /\ IsAttr(Freed(u, n), a) <=> IsAttr(h, a)
                 /\ h[a].prnt \notin Subtree(u, n)
                 /\ {u[a].sibl, u[a].chld, u[a].attr} \cap Subtree(u, n) = {}
<1>. DEFINE S == Subtree(u, n)
            g == Freed(u, n)
<1>1. /\ g \in [Addr -> Node] /\ \A a \in Addr \ S : g[a] = u[a]
      /\ Live(g) = Live(u) \ S
      /\ \A a \in Addr \ S : IsAttr(g, a) <=> IsAttr(u, a)
  BY ReleaseIs DEF Freed, Detached
<1>2. /\ Live(u) = Live(h) /\ \A a \in Addr : IsAttr(u, a) <=> IsAttr(h, a)
      /\ \A a \in Live(h) : n \notin {u[a].sibl, u[a].chld, u[a].attr}
  BY DetachedLinks
<1>3. n \in S
  BY DEF Subtree
<1>4. \A y \in Live(h) : h[y].prnt \in S => y \in S
  BY SubtreeUp
<1>5. \A y \in S \ {n} : h[y].prnt \in S
  BY SubtreeDown
<1>6. Closed(u) /\ Families(u) /\ \A a \in Addr : u[a].prnt = h[a].prnt
  BY DetachedFamilies DEF Detached
<1>. HIDE DEF S, g
<1>7. ASSUME NEW a \in Live(h), a \notin S
      PROVE  {u[a].sibl, u[a].chld, u[a].attr} \cap S = {}
  <2>. SUFFICES ASSUME NEW z \in {u[a].sibl, u[a].chld, u[a].attr}, z \in S
                PROVE  FALSE
    OBVIOUS
  <2>1. h[z].prnt \in S
    BY <1>2, <1>5
  <2>2. S \subseteq Live(h)
    BY SubtreeDown DEF S
  <2>3. z # Null /\ z \in Addr /\ a \in Addr
    BY <2>2, LiveAddr
  <2>4. u[z].prnt = u[a].prnt \/ u[z].prnt = a
    BY <1>2, <1>6, <2>3 DEF Families
  <2>5. h[a].prnt \in S \/ a \in S
    BY <1>6, <2>1, <2>3, <2>4
  <2>. QED
    BY <1>4, <1>7, <2>5
<1>8. ASSUME NEW a \in Live(h) \ S
      PROVE  /\ g[a] = u[a] /\ a # n /\ (IsAttr(g, a) <=> IsAttr(h, a))
             /\ h[a].prnt \notin S
  BY <1>1, <1>2, <1>3, <1>4, LiveAddr
<1>. QED
  BY <1>1, <1>2, <1>7, <1>8 DEF S, g

LEMMA FreedFamilies ==
    ASSUME NEW h, NEW u, NEW n, NEW b, NEW f, Linked(h), Detached(h, u, n, b, f)
    PROVE  Closed(Freed(u, n)) /\ Families(Freed(u, n))
<1>. DEFINE g == Freed(u, n)
            S == Subtree(u, n)
<1>1. /\ g \in [Addr -> Node] /\ Live(g) = Live(h) \ S
      /\ \A a \in Live(g) : /\ g[a] = u[a] /\ (IsAttr(g, a) <=> IsAttr(h, a))
                            /\ h[a].prnt \notin S
                            /\ {u[a].sibl, u[a].chld, u[a].attr} \cap S = {}
  BY FreedIs
<1>2. /\ Live(u) = Live(h) /\ \A a \in Addr : IsAttr(u, a) <=> IsAttr(h, a)
  BY DetachedLinks
<1>3. Closed(u) /\ Families(u) /\ \A a \in Addr : u[a].prnt = h[a].prnt
  BY DetachedFamilies DEF Detached
<1>. HIDE DEF g, S
<1>4. Closed(g)
  <2>. SUFFICES ASSUME NEW a \in Live(g)
                PROVE  {g[a].prnt, g[a].sibl, g[a].chld, g[a].attr} \subseteq Live(g) \cup {Null}
    BY DEF Closed
  <2>1. {u[a].prnt, u[a].sibl, u[a].chld, u[a].attr} \subseteq Live(h) \cup {Null}
    BY <1>1, <1>2, <1>3 DEF Closed
  <2>2. u[a].prnt \notin S
    BY <1>1, <1>3, LiveAddr
  <2>. QED
    BY <1>1, <2>1, <2>2
<1>5. \A a \in Hanging(g) : g[a].prnt # Null
  BY <1>1, <1>2, <1>3 DEF Hanging, Families
<1>6. ASSUME NEW a \in Live(g)
      PROVE  /\ g[a].sibl # Null => /\ g[g[a].sibl].prnt = g[a].prnt
                                    /\ IsAttr(g, g[a].sibl) <=> IsAttr(g, a)
             /\ g[a].chld # Null => g[g[a].chld].prnt = a /\ ~IsAttr(g, g[a].chld)
             /\ g[a].attr # Null => g[g[a].attr].prnt = a /\ IsAttr(g, g[a].attr)
  <2>1. a \in Live(u) /\ g[a] = u[a] /\ a \in Addr
    BY <1>1, <1>2, LiveAddr
  <2>2. /\ u[a].sibl # Null => /\ u[u[a].sibl].prnt = u[a].prnt
                               /\ IsAttr(u, u[a].sibl) <=> IsAttr(u, a)
        /\ u[a].chld # Null => u[u[a].chld].prnt = a /\ ~IsAttr(u, u[a].chld)
        /\ u[a].attr # Null => u[u[a].attr].prnt = a /\ IsAttr(u, u[a].attr)
    BY <1>3, <2>1 DEF Families
  <2>3. \A c \in {u[a].sibl, u[a].chld, u[a].attr} : c # Null => c \in Live(g) /\ c \in Addr
    BY <1>4, <2>1, LiveAddr DEF Closed
  <2>4. \A c \in Live(g) : g[c] = u[c] /\ (IsAttr(g, c) <=> IsAttr(u, c))
    BY <1>1, <1>2, LiveAddr
  <2>. QED
    BY <2>1, <2>2, <2>3, <2>4
<1>. QED
  BY <1>4, <1>5, <1>6 DEF Families, g

LEMMA FreedReached ==
    ASSUME NEW h, NEW u, NEW n, NEW b, NEW f, Linked(h), Detached(h, u, n, b, f)
    PROVE  Reached(Freed(u, n))
<1>. DEFINE g == Freed(u, n)
            S == Subtree(u, n)
            m == h[n].sibl
<1>1. /\ g \in [Addr -> Node] /\ Live(g) = Live(h) \ S
      /\ \A a \in Live(g) : g[a] = u[a] /\ a # n
      /\ Live(g) \subseteq Live(h) /\ Live(h) \subseteq Addr /\ n # Null /\ n \in Live(h)
  <2>1. /\ g \in [Addr -> Node] /\ Live(g) = Live(h) \ S
        /\ \A a \in Live(g) : g[a] = u[a] /\ a # n
    BY FreedIs
  <2>2. n # Null /\ n \in Live(h)
    BY DetachedLinks
  <2>. QED
    BY <2>1, <2>2, LiveAddr
<1>2. ASSUME NEW a \in Live(h)
      PROVE  /\ u[a].sibl = IF f = "sibl" /\ a = b THEN m ELSE h[a].sibl
             /\ u[a].chld = IF f = "chld" /\ a = b THEN m ELSE h[a].chld
             /\ u[a].attr = IF f = "attr" /\ a = b THEN m ELSE h[a].attr
  BY <1>1 DEF Detached
<1>3. \/ f = "sibl" /\ h[b].sibl = n
      \/ f = "chld" /\ h[b].chld = n
      \/ f = "attr" /\ h[b].attr = n
  BY DEF Detached, Link
<1>4. b \in Live(h) /\ b \notin S /\ Root \notin S
  BY SubtreeBelow DEF Detached
<1>5. \A y \in Live(h) : h[y].prnt \in S => y \in S
  BY SubtreeUp
<1>6. \A y \in S \ {n} : h[y].prnt \in S
  BY SubtreeDown
<1>7. \A a, c \in Live(h) :
         /\ h[a].sibl = h[c].sibl /\ h[a].sibl # Null => a = c
         /\ h[a].sibl # Null => h[a].sibl \notin {h[c].chld, h[c].attr}
  BY DEF Linked, Reached
<1>8. n \in S
  BY DEF Subtree
<1>. HIDE DEF g, S, m
<1>9. ASSUME NEW a \in Hanging(g)
      PROVE  \E c \in Live(g) : <<c, a>> \in Edges(g)
  <2>1. a \in Hanging(h) /\ a \in Live(h) /\ a \in Addr /\ a \notin S
    BY <1>1 DEF Hanging
  <2>2. PICK c \in Live(h) :
              /\ <<c, a>> \in Edges(h)
              /\ \/ h[c].sibl = a /\ h[c].prnt = h[a].prnt /\ c \in Hanging(h)
                 \/ h[c].chld = a /\ h[a].prnt = c
                 \/ h[c].attr = a /\ h[a].prnt = c
    BY <2>1, LeadingTo
  <2>3. CASE c \notin S
    <3>1. a \in {u[c].sibl, u[c].chld, u[c].attr}
      BY <1>2, <1>3, <1>8, <2>1, <2>2
    <3>2. c \in Live(g) /\ c \in Addr
      BY <1>1, <2>3
    <3>. QED
      BY <1>1, <2>1, <3>1, <3>2, EdgeIs
  <2>4. CASE c \in S
    <3>1. h[a].prnt \notin S
      BY <1>5, <2>1
    <3>2. c = n /\ h[c].sibl = a
      BY <1>6, <2>2, <2>4, <3>1
    <3>3. a \in {u[b].sibl, u[b].chld, u[b].attr}
      BY <1>2, <1>3, <1>4, <3>2 DEF m
    <3>4. b \in Live(g) /\ b \in Addr
      BY <1>1, <1>4
    <3>. QED
      BY <1>1, <2>1, <3>3, <3>4, EdgeIs
  <2>. QED
    BY <2>3, <2>4
<1>10. ASSUME NEW a \in Live(g), NEW c \in Live(g), g[a].sibl # Null
       PROVE  /\ g[a].sibl = g[c].sibl => a = c
              /\ g[a].sibl \notin {g[c].chld, g[c].attr}
  <2>1. a \in Live(h) /\ c \in Live(h) /\ a # n /\ c # n /\ g[a] = u[a] /\ g[c] = u[c]
    BY <1>1
  <2>2. m = h[n].sibl
    BY DEF m
  <2>3. /\ u[a].sibl = u[c].sibl => a = c
        /\ u[a].sibl \notin {u[c].chld, u[c].attr}
    BY <1>1, <1>2, <1>7, <1>10, <2>1, <2>2
  <2>. QED
    BY <2>1, <2>3
<1>. QED
  BY <1>9, <1>10 DEF Reached, g

\* The last child is the one before n when n was the last.
LEMMA FreedEnds ==
    ASSUME NEW h, NEW u, NEW n, NEW b, NEW f, Linked(h), Detached(h, u, n, b, f)
    PROVE  Ends(Freed(u, n))
<1>. DEFINE g == Freed(u, n)
            S == Subtree(u, n)
            p == h[n].prnt
            m == h[n].sibl
<1>1. /\ Live(g) = Live(h) \ S
      /\ \A a \in Live(g) : /\ g[a] = u[a] /\ a # n /\ (IsAttr(g, a) <=> IsAttr(h, a))
                            /\ h[a].prnt \notin S
  BY FreedIs
<1>2. n # Null /\ n \in Live(h)
  BY DetachedLinks
<1>3. p \in Live(h) \ S /\ b \in Live(h) \ S
  <2>1. b \in Live(h)
    BY DEF Detached
  <2>2. p \in Live(h) \ S /\ b \notin S
    BY SubtreeBelow
  <2>. QED
    BY <2>1, <2>2
<1>4. \A y \in S \ {n} : h[y].prnt \in S
  BY SubtreeDown
<1>5. /\ h[p].kind # "nsd" /\ f \in {"sibl", "chld", "attr"}
      /\ f = "sibl" => h[b].sibl = n
      /\ f = "chld" => h[b].chld = n
      /\ f = "attr" => h[b].attr = n
  BY DEF Detached, Link
<1>6. /\ f = "sibl" => h[b].prnt = p /\ (IsAttr(h, b) <=> IsAttr(h, n))
      /\ f = "chld" => b = p /\ ~IsAttr(h, n)
      /\ f = "attr" => b = p /\ IsAttr(h, n)
  <2>1. \A c \in Live(h) :
           /\ h[c].sibl # Null => /\ h[h[c].sibl].prnt = h[c].prnt
                                  /\ IsAttr(h, h[c].sibl) <=> IsAttr(h, c)
           /\ h[c].chld # Null => h[h[c].chld].prnt = c /\ ~IsAttr(h, h[c].chld)
           /\ h[c].attr # Null => h[h[c].attr].prnt = c /\ IsAttr(h, h[c].attr)
    BY DEF Linked, Families
  <2>. QED
    BY <1>2, <1>3, <1>5, <2>1
<1>7. ASSUME NEW a \in Live(h)
      PROVE  /\ u[a].kind = h[a].kind /\ u[a].prnt = h[a].prnt
             /\ u[a].sibl = IF f = "sibl" /\ a = b THEN m ELSE h[a].sibl
             /\ u[a].chld = IF f = "chld" /\ a = b THEN m ELSE h[a].chld
             /\ u[a].next = IF a = p /\ h[a].next = n
                            THEN IF f = "sibl" THEN b ELSE Null
                            ELSE h[a].next
  BY LiveAddr DEF Detached
<1>8. ASSUME NEW a \in Live(h)
      PROVE  IF h[a].kind = "nsd" THEN h[a].chld # Null
             ELSE /\ h[a].next = Null <=> h[a].chld = Null
                  /\ h[a].next # Null =>
                        /\ h[a].next \in Live(h) /\ h[h[a].next].prnt = a
                        /\ ~IsAttr(h, h[a].next) /\ h[h[a].next].sibl = Null
  BY DEF Linked, Ends
<1>9. n \in Hanging(h)
  BY DEF Detached
<1>. HIDE DEF g, S, p, m
<1>10. ASSUME NEW a \in Live(g)
       PROVE  IF g[a].kind = "nsd" THEN g[a].chld # Null
              ELSE /\ g[a].next = Null <=> g[a].chld = Null
                   /\ g[a].next # Null =>
                         /\ g[a].next \in Live(g) /\ g[g[a].next].prnt = a
                         /\ ~IsAttr(g, g[a].next) /\ g[g[a].next].sibl = Null
  <2>1. a \in Live(h) \ S /\ g[a] = u[a] /\ a # n
    BY <1>1
  <2>2. CASE h[a].kind = "nsd"
    <3>1. g[a].kind = "nsd" /\ ~(f = "chld" /\ a = b)
      BY <1>5, <1>6, <1>7, <2>1, <2>2
    <3>. QED
      BY <1>7, <1>8, <2>1, <2>2, <3>1
  <2>3. CASE h[a].kind # "nsd" /\ a = p /\ h[p].next = n
    <3>1. ~IsAttr(h, n) /\ m = Null /\ h[a].chld # Null /\ f # "attr" /\ g[a].kind # "nsd"
      BY <1>2, <1>6, <1>7, <1>8, <2>1, <2>3 DEF m
    <3>2. CASE f = "sibl"
      <4>1. g[a].next = b /\ g[a].chld # Null
        BY <1>7, <2>1, <2>3, <3>1, <3>2
      <4>2. b \in Live(g) /\ b # Null
        BY <1>1, <1>3, LiveAddr
      <4>3. g[b] = u[b] /\ u[b].prnt = p /\ u[b].sibl = Null /\ ~IsAttr(g, b)
        BY <1>1, <1>3, <1>6, <1>7, <3>1, <3>2, <4>2
      <4>. QED
        BY <2>3, <3>1, <4>1, <4>2, <4>3
    <3>3. CASE f = "chld"
      <4>1. g[a].next = Null /\ g[a].chld = Null
        BY <1>6, <1>7, <2>1, <2>3, <3>1, <3>3
      <4>. QED
        BY <3>1, <4>1
    <3>. QED
      BY <1>5, <3>1, <3>2, <3>3
  <2>4. CASE h[a].kind # "nsd" /\ ~(a = p /\ h[a].next = n)
    <3>. DEFINE l == h[a].next
    <3>1. g[a].next = l /\ g[a].kind # "nsd" /\ l # n
      <4>1. g[a].next = l /\ g[a].kind # "nsd"
        BY <1>7, <2>1, <2>4
      <4>2. l = n => h[n].prnt = a
        BY <1>2, <1>8, <2>1, <2>4
      <4>. QED
        BY <2>4, <4>1, <4>2 DEF p
    <3>2. l # Null => /\ l \in Live(h) /\ h[l].prnt = a
                      /\ ~IsAttr(h, l) /\ h[l].sibl = Null
      BY <1>8, <2>1, <2>4
    <3>. HIDE DEF l
    <3>3. l = Null <=> g[a].chld = Null
      <4>1. l = Null <=> h[a].chld = Null
        BY <1>8, <2>1, <2>4 DEF l
      <4>2. CASE f = "chld" /\ a = b
        <5>1. l # Null /\ a = p /\ g[a].chld = m /\ ~IsAttr(h, n)
          BY <1>2, <1>5, <1>6, <1>7, <2>1, <4>1, <4>2
        <5>2. l \in Hanging(h) /\ h[l].prnt = h[n].prnt
          <6>1. h[Root].prnt = Null /\ a # Null
            BY <2>1, LiveAddr DEF Linked, Rooted
          <6>. QED
            BY <3>2, <5>1, <6>1 DEF Hanging, p
        <5>3. m # Null
          BY <1>9, <3>1, <3>2, <5>1, <5>2, OneLast DEF m
        <5>. QED
          BY <5>1, <5>3
      <4>3. CASE ~(f = "chld" /\ a = b)
        BY <1>7, <2>1, <4>1, <4>3
      <4>. QED
        BY <4>2, <4>3
    <3>4. ASSUME l # Null
          PROVE  l \in Live(g) /\ g[l].prnt = a /\ ~IsAttr(g, l) /\ g[l].sibl = Null
      <4>1. l \in Live(h) \ S
        BY <1>4, <2>1, <3>1, <3>2, <3>4
      <4>2. l \in Live(g) /\ g[l] = u[l] /\ ~IsAttr(g, l)
        BY <1>1, <3>2, <3>4, <4>1
      <4>3. u[l].prnt = a /\ u[l].sibl = Null
        BY <1>2, <1>5, <1>7, <3>2, <3>4, <4>1
      <4>. QED
        BY <4>2, <4>3
    <3>. QED
      BY <3>1, <3>3, <3>4
  <2>. QED
    BY <2>1, <2>2, <2>3, <2>4
<1>. QED
  BY <1>10 DEF Ends, g

\* What is left when a node is taken out of its list and freed with its subtree
\* is a document.
LEMMA FreedKeeps ==
    ASSUME NEW h, NEW u, NEW n, NEW b, NEW f, Linked(h), Detached(h, u, n, b, f)
    PROVE  Linked(Freed(u, n))
<1>. DEFINE g == Freed(u, n)
            S == Subtree(u, n)
<1>1. /\ g \in [Addr -> Node] /\ Live(g) = Live(h) \ S
      /\ \A a \in Live(g) : g[a] = u[a] /\ h[a].prnt \notin S
  BY FreedIs
<1>2. /\ u \in [Addr -> Node] /\ \A a \in Addr \ Live(h) : u[a] = h[a]
      /\ \A a \in Addr : u[a].kind = h[a].kind /\ u[a].prnt = h[a].prnt
  BY DEF Detached
<1>3. /\ \A a \in Addr \ S : g[a] = u[a]
      /\ \A a \in Addr \cap S : g[a] = Blank("freed")
  BY <1>2, ReleaseIs DEF Freed
<1>4. Typed(g)
  <2>1. ASSUME NEW a \in Addr \ Live(g)
        PROVE  g[a] = Blank(g[a].kind)
    <3>1. CASE a \in S
      BY <1>3, <3>1 DEF Blank
    <3>2. CASE a \notin S
      <4>1. g[a] = h[a] /\ a \in Addr \ Live(h)
        BY <1>1, <1>2, <1>3, <2>1, <3>2
      <4>. QED
        BY <4>1 DEF Linked, Typed
    <3>. QED
      BY <3>1, <3>2
  <2>. HIDE DEF g
  <2>. QED
    BY <1>1, <2>1 DEF Typed
<1>5. Rooted(g)
  <2>1. Root \notin S
    BY SubtreeBelow
  <2>2. Root \in Live(g) /\ g[Root] = u[Root] /\ Root \in Live(h)
    BY <1>1, <2>1 DEF Linked, Rooted
  <2>3. /\ h[Root].kind = "elm" /\ h[Root].attr = Null
        /\ h[Root].prnt = Null /\ h[Root].sibl = Null
    BY DEF Linked, Rooted
  <2>4. n # Null
    BY DetachedLinks
  <2>5. u[Root].sibl = Null /\ u[Root].attr = Null
    BY <2>2, <2>3, <2>4, LiveAddr DEF Detached, Link
  <2>. HIDE DEF g
  <2>. QED
    BY <1>2, <2>2, <2>3, <2>5, LiveAddr DEF Rooted
<1>6. Closed(g) /\ Families(g)
  BY FreedFamilies
<1>7. Reached(g)
  BY FreedReached
<1>8. Ends(g)
  BY FreedEnds
<1>9. Grounded(Edges(g)) /\ Grounded(Upwards(g))
  <2>1. Grounded(Edges(u)) /\ Grounded(Upwards(u))
    BY DetachedGrounded
  <2>. QED
    BY <1>2, <2>1, ReleasedEdges DEF Freed
<1>10. KindsFit(g)
  <2>. SUFFICES ASSUME NEW a \in Hanging(g)
                PROVE  g[g[a].prnt].kind = "elm" \/ g[a].kind = "txt"
    BY DEF KindsFit
  <2>. HIDE DEF g, S
  <2>1. a \in Live(g) /\ a \in Hanging(h) /\ a \in Addr
    BY <1>1, LiveAddr DEF Hanging
  <2>2. h[h[a].prnt].kind = "elm" \/ h[a].kind = "txt"
    BY <2>1 DEF Linked, KindsFit
  <2>3. h[a].prnt \in Live(h)
    BY <2>1 DEF Linked, Families, Closed, Hanging
  <2>4. h[a].prnt \in Live(g) /\ h[a].prnt \in Addr
    BY <1>1, <2>1, <2>3, LiveAddr
  <2>5. g[a] = u[a] /\ g[h[a].prnt] = u[h[a].prnt]
    BY <1>1, <2>1, <2>4
  <2>. QED
    BY <1>2, <2>1, <2>2, <2>4, <2>5
<1>. HIDE DEF g
<1>. QED
  BY <1>4, <1>5, <1>6, <1>7, <1>8, <1>9, <1>10 DEF Linked, g

LEMMA UnlinkChld ==
    ASSUME NEW g \in [Addr -> Node], NEW p \in Addr, NEW n \in Addr, g[p].chld # Null
    PROVE  /\ g[p].chld = n => Sets(g, Unlink(g, p, n, "chld"), p, "chld", g[n].sibl)
           /\ g[p].chld # n => \A b \in Addr : Before(g, g[p].chld, n) = b =>
                 Sets(g, Unlink(g, p, n, "chld"), b, "sibl", g[n].sibl)
<1>1. g[p]["chld"] = g[p].chld
  OBVIOUS
<1>2. [g EXCEPT ![p]["chld"] = g[n].sibl] = [g EXCEPT ![p].chld = g[n].sibl]
  OBVIOUS
<1>. DEFINE x == [g EXCEPT ![p]["chld"] = g[n].sibl]
            y == [g EXCEPT ![Before(g, g[p]["chld"], n)].sibl = g[n].sibl]
<1>3. Unlink(g, p, n, "chld") = CASE g[p]["chld"] = n -> x
                                  [] g[p]["chld"] # n /\ g[p]["chld"] # Null -> y
                                  [] OTHER -> g
  BY DEF Unlink
<1>4. y = [g EXCEPT ![Before(g, g[p].chld, n)].sibl = g[n].sibl]
  BY <1>1
<1>. HIDE DEF x, y
<1>5. g[p].chld = n => Unlink(g, p, n, "chld") = x
  BY <1>1, <1>3
<1>6. g[p].chld # n => Unlink(g, p, n, "chld") = y
  BY <1>1, <1>3
<1>7. g[n].sibl \in Ptr
  BY NodeFields
<1>8. x = [g EXCEPT ![p].chld = g[n].sibl]
  BY <1>2 DEF x
<1>9. Sets(g, x, p, "chld", g[n].sibl)
  BY <1>7, <1>8, SetsIs
<1>10. ASSUME NEW b \in Addr, Before(g, g[p].chld, n) = b
       PROVE  Sets(g, y, b, "sibl", g[n].sibl)
  <2>1. y = [g EXCEPT ![b].sibl = g[n].sibl]
    BY <1>4, <1>10
  <2>. QED
    BY <1>7, <2>1, SetsIs
<1>. QED
  BY <1>5, <1>6, <1>9, <1>10
LEMMA UnlinkAttr ==
    ASSUME NEW g \in [Addr -> Node], NEW p \in Addr, NEW n \in Addr, g[p].attr # Null
    PROVE  /\ g[p].attr = n => Sets(g, Unlink(g, p, n, "attr"), p, "attr", g[n].sibl)
           /\ g[p].attr # n => \A b \in Addr : Before(g, g[p].attr, n) = b =>
                 Sets(g, Unlink(g, p, n, "attr"), b, "sibl", g[n].sibl)
<1>1. g[p]["attr"] = g[p].attr
  OBVIOUS
<1>2. [g EXCEPT ![p]["attr"] = g[n].sibl] = [g EXCEPT ![p].attr = g[n].sibl]
  OBVIOUS
<1>. DEFINE x == [g EXCEPT ![p]["attr"] = g[n].sibl]
            y == [g EXCEPT ![Before(g, g[p]["attr"], n)].sibl = g[n].sibl]
<1>3. Unlink(g, p, n, "attr") = CASE g[p]["attr"] = n -> x
                                  [] g[p]["attr"] # n /\ g[p]["attr"] # Null -> y
                                  [] OTHER -> g
  BY DEF Unlink
<1>4. y = [g EXCEPT ![Before(g, g[p].attr, n)].sibl = g[n].sibl]
  BY <1>1
<1>. HIDE DEF x, y
<1>5. g[p].attr = n => Unlink(g, p, n, "attr") = x
  BY <1>1, <1>3
<1>6. g[p].attr # n => Unlink(g, p, n, "attr") = y
  BY <1>1, <1>3
<1>7. g[n].sibl \in Ptr
  BY NodeFields
<1>8. x = [g EXCEPT ![p].attr = g[n].sibl]
  BY <1>2 DEF x
<1>9. Sets(g, x, p, "attr", g[n].sibl)
  BY <1>7, <1>8, SetsIs
<1>10. ASSUME NEW b \in Addr, Before(g, g[p].attr, n) = b
       PROVE  Sets(g, y, b, "sibl", g[n].sibl)
  <2>1. y = [g EXCEPT ![b].sibl = g[n].sibl]
    BY <1>4, <1>10
  <2>. QED
    BY <1>7, <2>1, SetsIs
<1>. QED
  BY <1>5, <1>6, <1>9, <1>10
LEMMA SameEdges ==
    ASSUME NEW h, NEW g \in [Addr -> Node],
           \A a \in Addr : g[a].sibl = h[a].sibl /\ g[a].chld = h[a].chld
                           /\ g[a].attr = h[a].attr
    PROVE  Edges(g) = Edges(h) /\ Upwards(g) = Upwards(h)
<1>1. Edges(g) = Edges(h)
  BY DEF Edges
<1>. QED
  BY <1>1 DEF Upwards

\* A node that is not the first of its list follows one other.
LEMMA Preceded ==
    ASSUME NEW h, Linked(h), NEW n \in Hanging(h), ListOf(h, n) # n
    PROVE  \E b \in Live(h) : /\ h[b].sibl = n /\ b \in Members(h, ListOf(h, n))
                              /\ \A c \in Addr : h[c].sibl = n => c = b
<1>1. PICK b \in Live(h) :
           /\ <<b, n>> \in Edges(h)
           /\ \/ h[b].sibl = n /\ h[b].prnt = h[n].prnt /\ b \in Hanging(h)
              \/ h[b].chld = n /\ h[n].prnt = b
              \/ h[b].attr = n /\ h[n].prnt = b
  BY LeadingTo, Zenon
<1>2. n # Null /\ n \in Live(h)
  BY LiveAddr DEF Hanging
<1>3. \A a \in Live(h) :
         /\ h[a].sibl # Null => (IsAttr(h, h[a].sibl) <=> IsAttr(h, a))
         /\ h[a].chld # Null => ~IsAttr(h, h[a].chld)
         /\ h[a].attr # Null => IsAttr(h, h[a].attr)
  BY DEF Linked, Families
<1>4. h[b].sibl = n /\ h[b].prnt = h[n].prnt /\ b \in Hanging(h)
  BY <1>1, <1>2, <1>3 DEF ListOf
<1>5. ListOf(h, b) = ListOf(h, n)
  BY <1>2, <1>3, <1>4 DEF ListOf
<1>6. b \in Members(h, ListOf(h, n))
  BY <1>4, <1>5, Listed
<1>7. ASSUME NEW c \in Addr, h[c].sibl = n
      PROVE  c = b
  <2>1. c \in Live(h)
    BY <1>2, <1>7 DEF Linked, Typed, Blank
  <2>. QED
    BY <1>2, <1>4, <1>7, <2>1 DEF Linked, Reached
<1>. QED
  BY <1>4, <1>6, <1>7

\* What roxml_del_std_node finds before n, in the heap whose last child it has
\* already corrected.
LEMMA PrecededIs ==
    ASSUME NEW h, NEW g \in [Addr -> Node], Linked(h), NEW n \in Hanging(h),
           ListOf(h, n) # n,
           \A a \in Addr : g[a].sibl = h[a].sibl /\ g[a].chld = h[a].chld
                           /\ g[a].attr = h[a].attr
    PROVE  \E b \in Live(h) : h[b].sibl = n /\ Before(g, ListOf(h, n), n) = b
<1>. DEFINE k == ListOf(h, n)
<1>1. PICK b \in Live(h) : /\ h[b].sibl = n /\ b \in Members(h, k)
                           /\ \A c \in Addr : h[c].sibl = n => c = b
  BY Preceded
<1>2. Finite(g)
  <2>1. Edges(g) = Edges(h)
    BY SameEdges
  <2>. QED
    BY <2>1 DEF Finite, Linked
<1>3. k \in Live(h)
  BY Listed
<1>. HIDE DEF k
<1>4. b \in Members(g, k)
  <2>1. Finite(h) /\ Siblings(h)
    BY LinkedFinite
  <2>2. \A a \in Live(h) : g[a].sibl = h[a].sibl
    BY LiveAddr
  <2>3. ListFrom(g, k) = ListFrom(h, k)
    BY <1>2, <1>3, <2>1, <2>2, SameLists
  <2>. QED
    BY <1>1, <2>3 DEF Members
<1>5. n \in Addr /\ k \in Addr /\ b \in Addr
  BY <1>3, LiveAddr DEF Hanging
<1>6. g[b].sibl = n /\ \A c \in Addr : g[c].sibl = n => c = b
  BY <1>1, <1>5
<1>7. Before(g, k, n) = b
  BY <1>2, <1>4, <1>5, <1>6, BeforeFinds
<1>. QED
  BY <1>1, <1>7 DEF k

\* g is h with another last child of p.
Relast(h, g, p, n, x) ==
    /\ g \in [Addr -> Node]
    /\ \A a \in Addr :
          /\ g[a].kind = h[a].kind /\ g[a].prnt = h[a].prnt /\ g[a].sibl = h[a].sibl
          /\ g[a].chld = h[a].chld /\ g[a].attr = h[a].attr /\ g[a].ns = h[a].ns
          /\ g[a].next = IF a = p /\ h[a].next = n THEN x ELSE h[a].next
          /\ a # p => g[a] = h[a]

LEMMA RelastIs ==
    ASSUME NEW h \in [Addr -> Node], NEW p \in Addr, NEW n, NEW x \in Ptr
    PROVE  Relast(h, IF h[p].next = n THEN [h EXCEPT ![p].next = x] ELSE h, p, n, x)
<1>. DEFINE g == [h EXCEPT ![p].next = x]
<1>1. Sets(h, g, p, "next", x)
  BY SetsIs
<1>2. h[p].next = n => Relast(h, g, p, n, x)
  <2>. HIDE DEF g
  <2>. QED
    BY <1>1 DEF Sets, Relast
<1>3. h[p].next # n => Relast(h, h, p, n, x)
  BY DEF Relast
<1>. HIDE DEF g
<1>4. CASE h[p].next = n
  BY <1>2, <1>4 DEF g
<1>5. CASE h[p].next # n
  BY <1>3, <1>5
<1>. QED
  BY <1>4, <1>5

\* roxml_del_std_node takes a child out of its list, before it frees its subtree.
LEMMA StdDetaches ==
    ASSUME NEW h, Linked(h), NEW n \in Hanging(h), ~IsAttr(h, n), h[h[n].prnt].kind # "nsd"
    PROVE  \E u, b, f : /\ Detached(h, u, n, b, f)
                        /\ DelStdNode(h, n) =
                              Release(u, TreeFrom(u, u[n].chld) \cup TreeFrom(u, u[n].attr))
<1>. DEFINE p == h[n].prnt
            k == h[p].chld
            m == h[n].sibl
            x == RealPrev(h, n)
            g == IF h[p].next = n THEN [h EXCEPT ![p].next = x] ELSE h
            u == Unlink(g, p, n, "chld")
<1>1. h \in [Addr -> Node]
  BY DEF Linked, Typed
<1>2. p \in Live(h) /\ p \in Addr /\ n \in Addr /\ n # Null /\ m \in Ptr
  <2>1. p \in Live(h)
    BY Listed
  <2>2. n \in Addr /\ n # Null
    BY LiveAddr DEF Hanging
  <2>. QED
    BY <1>1, <2>1, <2>2, LiveAddr, NodeFields
<1>3. k = ListOf(h, n) /\ k \in Live(h) /\ k \in Addr /\ k # Null
  <2>1. k = ListOf(h, n)
    BY DEF ListOf
  <2>2. ListOf(h, n) \in Live(h)
    BY Listed
  <2>. QED
    BY <2>1, <2>2, LiveAddr
<1>4. DelStdNode(h, n) = Release(u, TreeFrom(u, u[n].chld) \cup TreeFrom(u, u[n].attr))
  BY DEF DelStdNode
<1>5. x = IF k = n THEN Null ELSE Before(h, k, n)
  BY DEF RealPrev
<1>6. k # n => \E b \in Live(h) : h[b].sibl = n /\ x = b
  <2>1. k # n => \E b \in Live(h) : h[b].sibl = n /\ Before(h, k, n) = b
    BY <1>1, <1>3, PrecededIs
  <2>. HIDE DEF x, k
  <2>. QED
    BY <1>5, <2>1
<1>7. x \in Ptr
  <2>. HIDE DEF x, k
  <2>. QED
    BY <1>5, <1>6, LiveAddr, PtrIs
<1>. HIDE DEF x
<1>8. Relast(h, g, p, n, x)
  BY <1>1, <1>2, <1>7, RelastIs
<1>. HIDE DEF g
<1>9. g \in [Addr -> Node] /\ g[p].chld = k /\ g[n].sibl = m
  BY <1>2, <1>8 DEF Relast
<1>10. /\ k = n => Sets(g, u, p, "chld", m)
       /\ k # n => \A b \in Addr : Before(g, k, n) = b => Sets(g, u, b, "sibl", m)
  <2>1. g[p].chld # Null
    BY <1>3, <1>9
  <2>. HIDE DEF k, m, p
  <2>2. /\ g[p].chld = n => Sets(g, Unlink(g, p, n, "chld"), p, "chld", g[n].sibl)
        /\ g[p].chld # n => \A b \in Addr : Before(g, g[p].chld, n) = b =>
              Sets(g, Unlink(g, p, n, "chld"), b, "sibl", g[n].sibl)
    BY <1>2, <1>9, <2>1, UnlinkChld
  <2>. QED
    BY <1>9, <2>2
<1>. HIDE DEF u, k, m
<1>11. CASE k = n
  <2>1. Sets(g, u, p, "chld", m)
    BY <1>10, <1>11
  <2>2. \A a \in Addr \ Live(h) : u[a] = h[a]
    BY <1>2, <1>8, <2>1 DEF Relast, Sets
  <2>3. Detached(h, u, n, p, "chld")
    BY <1>2, <1>5, <1>8, <1>11, <2>1, <2>2 DEF Relast, Sets, Detached, Link, p, k, m
  <2>. QED
    BY <1>4, <2>3
<1>12. CASE k # n
  <2>1. PICK b \in Live(h) : h[b].sibl = n /\ x = b
    BY <1>6, <1>12
  <2>2. PICK c \in Live(h) : h[c].sibl = n /\ Before(g, k, n) = c
    <3>1. ListOf(h, n) # n
      BY <1>3, <1>12
    <3>2. \A a \in Addr : g[a].sibl = h[a].sibl /\ g[a].chld = h[a].chld
                           /\ g[a].attr = h[a].attr
      BY <1>8 DEF Relast
    <3>3. \E c \in Live(h) : h[c].sibl = n /\ Before(g, ListOf(h, n), n) = c
      BY <1>9, <3>1, <3>2, PrecededIs
    <3>. QED
      BY <1>3, <3>3
  <2>3. b = c /\ b \in Addr
    BY <1>2, <2>1, <2>2, LiveAddr DEF Linked, Reached
  <2>4. Sets(g, u, b, "sibl", m)
    BY <1>10, <1>12, <2>2, <2>3
  <2>5. \A a \in Addr \ Live(h) : u[a] = h[a]
    BY <1>2, <1>8, <2>1, <2>4 DEF Relast, Sets
  <2>6. Detached(h, u, n, b, "sibl")
    BY <1>2, <1>8, <2>1, <2>4, <2>5 DEF Relast, Sets, Detached, Link, p, m
  <2>. QED
    BY <1>4, <2>6
<1>. QED
  BY <1>11, <1>12

-----------------------------------------------------------------------------
(* The namespaces of nodes.                                                *)

\* The nodes roxml_set_ns and roxml_reset_ns visit are nodes of the document.
LEMMA ScopeLive ==
    ASSUME NEW h, Linked(h), NEW n \in Live(h)
    PROVE  NsScope(h, n) \subseteq Live(h)
<1>. DEFINE T == {k \in Addr : k \in Live(h) => Below(h, k) \subseteq Live(h)}
<1>1. Finite(h) /\ Siblings(h) /\ Closed(h) /\ n \in Addr
  BY LinkedFinite, LiveAddr DEF Linked
<1>2. ASSUME NEW k \in Live(h), NEW m \in {h[k].chld, h[k].attr}
      PROVE  Members(h, m) \subseteq Live(h)
  <2>1. m \in Live(h) \cup {Null}
    BY <1>1 DEF Closed
  <2>2. CASE m = Null
    BY <1>1, <2>2, MembersIs
  <2>3. CASE m \in Live(h)
    BY <1>1, <2>3, ListSame
  <2>. QED
    BY <2>1, <2>2, <2>3
<1>3. ASSUME NEW k \in Addr, \A c \in Addr : <<k, c>> \in Descents(h) => c \in T
      PROVE  k \in T
  <2>. SUFFICES ASSUME k \in Live(h)
                PROVE  Below(h, k) \subseteq Live(h)
    OBVIOUS
  <2>1. Members(h, h[k].chld) \subseteq Live(h)
    BY <1>2
  <2>2. \A c \in Members(h, h[k].chld) : c \in Addr /\ <<k, c>> \in Descents(h)
    BY <2>1, LiveAddr DEF Descents
  <2>3. \A c \in Members(h, h[k].chld) : c \in T
    BY <1>3, <2>2
  <2>4. \A c \in Members(h, h[k].chld) : Below(h, c) \subseteq Live(h)
    BY <2>1, <2>3
  <2>. QED
    BY <1>1, <2>4, BelowIs
<1>4. Addr \subseteq T
  <2>. HIDE DEF T
  <2>. QED
    BY <1>1, <1>3, DescentsFounded, Induction
<1>5. Below(h, n) \subseteq Live(h)
  BY <1>1, <1>4
<1>6. \A k \in Below(h, n) : ToSet(Attributes(h, k)) \subseteq Live(h)
  BY <1>2, <1>5 DEF Attributes, Members
<1>. QED
  BY <1>5, <1>6 DEF NsScope

\* r is h but for the namespaces of nodes.
Renamed(h, r) ==
    /\ r \in [Addr -> Node] /\ \A a \in Addr \ Live(h) : r[a] = h[a]
    /\ \A a \in Addr :
          /\ r[a].kind = h[a].kind /\ r[a].prnt = h[a].prnt /\ r[a].sibl = h[a].sibl
          /\ r[a].chld = h[a].chld /\ r[a].attr = h[a].attr /\ r[a].next = h[a].next

LEMMA RenamedKeeps ==
    ASSUME NEW h, NEW r, Linked(h), Renamed(h, r)
    PROVE  Linked(r) /\ Live(r) = Live(h)
<1>1. /\ Live(r) = Live(h) /\ Hanging(r) = Hanging(h) /\ Live(h) \subseteq Addr
      /\ \A a \in Addr : IsAttr(r, a) <=> IsAttr(h, a)
  BY DEF Renamed, Live, Hanging, IsAttr
<1>2. Edges(r) = Edges(h) /\ Upwards(r) = Upwards(h)
  BY SameEdges DEF Renamed
<1>3. \A a \in Live(h) :
         /\ r[a].kind = h[a].kind /\ r[a].prnt = h[a].prnt /\ r[a].sibl = h[a].sibl
         /\ r[a].chld = h[a].chld /\ r[a].attr = h[a].attr /\ r[a].next = h[a].next
         /\ {h[a].prnt, h[a].sibl, h[a].chld, h[a].attr} \subseteq Addr \cup {Null}
  BY <1>1 DEF Renamed, Linked, Closed
<1>4. Typed(r)
  BY <1>1 DEF Renamed, Linked, Typed
<1>5. Rooted(r) /\ Closed(r)
  BY <1>1, <1>3 DEF Linked, Rooted, Closed
<1>6. Families(r)
  <2>1. \A a \in Hanging(r) : r[a].prnt # Null
    BY <1>1, <1>3 DEF Linked, Families, Hanging
  <2>2. \A c \in Addr : r[c].prnt = h[c].prnt
    BY DEF Renamed
  <2>3. \A a \in Live(r) :
          /\ r[a].sibl # Null =>
                /\ r[r[a].sibl].prnt = r[a].prnt
                /\ IsAttr(r, r[a].sibl) <=> IsAttr(r, a)
          /\ r[a].chld # Null => r[r[a].chld].prnt = a /\ ~IsAttr(r, r[a].chld)
          /\ r[a].attr # Null => r[r[a].attr].prnt = a /\ IsAttr(r, r[a].attr)
    BY <1>1, <1>3, <2>2 DEF Linked, Families
  <2>. QED
    BY <2>1, <2>3 DEF Families
<1>7. Reached(r)
  BY <1>1, <1>2, <1>3 DEF Linked, Reached
<1>8. Ends(r)
  <2>1. \A c \in Addr : r[c].prnt = h[c].prnt /\ r[c].sibl = h[c].sibl
    BY DEF Renamed
  <2>. QED
    BY <1>1, <1>3, <2>1 DEF Linked, Ends
<1>9. KindsFit(r)
  <2>1. \A c \in Hanging(h) : h[c].prnt \in Addr
    BY <1>1, <1>3 DEF Linked, Families, Hanging
  <2>. QED
    BY <1>1, <2>1 DEF Linked, KindsFit, Renamed, Hanging
<1>. QED
  BY <1>1, <1>2, <1>4, <1>5, <1>6, <1>7, <1>8, <1>9 DEF Linked

\* One node's namespace.
LEMMA NamedNode ==
    ASSUME NEW h \in [Addr -> Node], NEW a \in Addr, NEW x \in Ptr
    PROVE  LET w == [h[a] EXCEPT !.ns = x]
           IN /\ w \in Node
              /\ w.kind = h[a].kind /\ w.prnt = h[a].prnt /\ w.sibl = h[a].sibl
              /\ w.chld = h[a].chld /\ w.attr = h[a].attr /\ w.next = h[a].next
  BY NodeFields DEF Node

LEMMA NamedIs ==
    ASSUME NEW h, Linked(h), NEW S, S \subseteq Live(h), NEW ns, \A a \in Addr : ns[a] \in Ptr
    PROVE  Renamed(h, [a \in Addr |-> IF a \in S THEN [h[a] EXCEPT !.ns = ns[a]] ELSE h[a]])
<1>. DEFINE w(a) == [h[a] EXCEPT !.ns = ns[a]]
            r == [a \in Addr |-> IF a \in S THEN w(a) ELSE h[a]]
<1>1. h \in [Addr -> Node]
  BY DEF Linked, Typed
<1>2. \A a \in Addr :
         /\ w(a) \in Node
         /\ w(a).kind = h[a].kind /\ w(a).prnt = h[a].prnt /\ w(a).sibl = h[a].sibl
         /\ w(a).chld = h[a].chld /\ w(a).attr = h[a].attr /\ w(a).next = h[a].next
  BY <1>1, NamedNode
<1>. HIDE DEF w
<1>3. Renamed(h, r)
  BY <1>1, <1>2 DEF Renamed
<1>. QED
  BY <1>3 DEF w

LEMMA SetNsIs ==
    ASSUME NEW h, Linked(h), NEW n \in Live(h), NEW d \in Ptr
    PROVE  Renamed(h, SetNs(h, n, d))
<1>. DEFINE ns == [a \in Addr |-> d]
<1>1. \A a \in Addr : ns[a] \in Ptr /\ ns[a] = d
  OBVIOUS
<1>2. NsScope(h, n) \subseteq Live(h)
  BY ScopeLive
<1>. HIDE DEF ns
<1>3. Renamed(h, [a \in Addr |-> IF a \in NsScope(h, n) THEN [h[a] EXCEPT !.ns = ns[a]] ELSE h[a]])
  BY <1>1, <1>2, NamedIs
<1>4. SetNs(h, n, d) =
         [a \in Addr |-> IF a \in NsScope(h, n) THEN [h[a] EXCEPT !.ns = ns[a]] ELSE h[a]]
  BY <1>1 DEF SetNs
<1>. QED
  BY <1>3, <1>4

\* The recursion of roxml_reset_ns goes from a node to its parent.
LEMMA ResetNsEq ==
    ASSUME NEW h, Linked(h), NEW e \in Live(h), NEW d
    PROVE  \E ns :
              /\ \A k \in Addr : ns[k] = IF h[k].ns # d THEN h[k].ns
                                        ELSE IF h[k].prnt = Null THEN Null
                                        ELSE IF k = e THEN h[h[e].prnt].ns
                                        ELSE ns[h[k].prnt]
              /\ ResetNs(h, e, d) =
                    [k \in Addr |-> IF k \in NsScope(h, e)
                                    THEN [h[k] EXCEPT !.ns = ns[k]] ELSE h[k]]
<1>. DEFINE ns[k \in Addr] ==
               IF h[k].ns # d THEN h[k].ns
               ELSE IF h[k].prnt = Null THEN Null
               ELSE IF k = e THEN h[h[e].prnt].ns
               ELSE ns[h[k].prnt]
            F == [k \in Addr |-> [f \in [Addr -> Ptr] |->
                    IF h[k].ns # d THEN h[k].ns
                    ELSE IF h[k].prnt = Null THEN Null
                    ELSE IF k = e THEN h[h[e].prnt].ns
                    ELSE f[h[k].prnt]]]
<1>1. \A k \in Addr : /\ h[k].ns \in Ptr /\ Null \in Ptr
                      /\ h[k].prnt # Null => /\ h[k].prnt \in Addr /\ h[h[k].prnt].ns \in Ptr
                                             /\ <<k, h[k].prnt>> \in Parents(h)
  BY NodeFields, PtrIs DEF Linked, Typed, Parents
<1>2. Follows(Addr, Ptr, Parents(h), F)
  <2>1. F \in [Addr -> [[Addr -> Ptr] -> Ptr]]
    <3>. HIDE DEF Ptr
    <3>. QED
      BY <1>1
  <2>. HIDE DEF Ptr
  <2>2. \A a \in Addr : \A f, g \in [Addr -> Ptr] :
           (\A b \in Addr : <<a, b>> \in Parents(h) => f[b] = g[b]) => F[a][f] = F[a][g]
    BY <1>1
  <2>. HIDE DEF F
  <2>. QED
    BY <2>1, <2>2 DEF Follows
<1>3. PICK f \in [Addr -> Ptr] : \A k \in Addr : f[k] = F[k][f]
  <2>1. Ptr # {}
    BY PtrIs
  <2>. HIDE DEF F, Ptr
  <2>. QED
    BY <1>2, <2>1, ParentsFounded, Recursion
<1>4. f = [k \in Addr |-> IF h[k].ns # d THEN h[k].ns
                          ELSE IF h[k].prnt = Null THEN Null
                          ELSE IF k = e THEN h[h[e].prnt].ns
                          ELSE f[h[k].prnt]]
  <2>. HIDE DEF Ptr
  <2>. QED
    BY <1>3
<1>5. ns = [k \in Addr |-> IF h[k].ns # d THEN h[k].ns
                           ELSE IF h[k].prnt = Null THEN Null
                           ELSE IF k = e THEN h[h[e].prnt].ns
                           ELSE ns[h[k].prnt]]
  BY <1>4
<1>6. ResetNs(h, e, d) =
         [k \in Addr |-> IF k \in NsScope(h, e) THEN [h[k] EXCEPT !.ns = ns[k]] ELSE h[k]]
  BY DEF ResetNs
<1>. HIDE DEF ns, F
<1>7. \A k \in Addr : ns[k] = IF h[k].ns # d THEN h[k].ns
                             ELSE IF h[k].prnt = Null THEN Null
                             ELSE IF k = e THEN h[h[e].prnt].ns
                             ELSE ns[h[k].prnt]
  BY <1>5
<1>. QED
  BY <1>6, <1>7

LEMMA ResetNsIs ==
    ASSUME NEW h, Linked(h), NEW e \in Live(h), NEW d
    PROVE  Renamed(h, ResetNs(h, e, d))
<1>1. PICK ns :
         /\ \A k \in Addr : ns[k] = IF h[k].ns # d THEN h[k].ns
                                   ELSE IF h[k].prnt = Null THEN Null
                                   ELSE IF k = e THEN h[h[e].prnt].ns
                                   ELSE ns[h[k].prnt]
         /\ ResetNs(h, e, d) =
               [k \in Addr |-> IF k \in NsScope(h, e)
                               THEN [h[k] EXCEPT !.ns = ns[k]] ELSE h[k]]
  BY ResetNsEq
<1>2. \A k \in Addr : /\ h[k].ns \in Ptr /\ Null \in Ptr
                      /\ h[k].prnt # Null => /\ h[k].prnt \in Addr /\ h[h[k].prnt].ns \in Ptr
                                             /\ <<k, h[k].prnt>> \in Parents(h)
  BY NodeFields, PtrIs DEF Linked, Typed, Parents
<1>3. \A k \in Addr : ns[k] \in Ptr
  <2>. DEFINE T == {k \in Addr : ns[k] \in Ptr}
  <2>1. ASSUME NEW k \in Addr, \A b \in Addr : <<k, b>> \in Parents(h) => b \in T
        PROVE  k \in T
    BY <1>1, <1>2, <2>1
  <2>. HIDE DEF T
  <2>2. Addr \subseteq T
    BY <2>1, ParentsFounded, Induction
  <2>. QED
    BY <2>2 DEF T
<1>4. NsScope(h, e) \subseteq Live(h)
  BY ScopeLive
<1>5. Renamed(h, [k \in Addr |-> IF k \in NsScope(h, e) THEN [h[k] EXCEPT !.ns = ns[k]] ELSE h[k]])
  BY <1>3, <1>4, NamedIs
<1>. QED
  BY <1>1, <1>5

\* Only an element has attributes.
LEMMA AttrOwner ==
    ASSUME NEW h, Linked(h), NEW n \in Hanging(h), IsAttr(h, n)
    PROVE  h[n].attr = Null /\ h[h[n].prnt].kind = "elm"
<1>1. n \in Live(h) /\ h[n].kind \notin {"elm", "txt"} /\ n # Null
  BY LiveAddr DEF IsAttr, Hanging
<1>2. ASSUME h[n].attr # Null
      PROVE  FALSE
  <2>1. /\ h[n].attr \in Live(h) /\ h[h[n].attr].prnt = n
        /\ h[h[n].attr].kind \in {"att", "nsd"}
    BY <1>1, <1>2 DEF Linked, Families, Closed, IsAttr
  <2>2. h[n].attr \in Hanging(h)
    BY <1>1, <2>1 DEF Linked, Rooted, Hanging
  <2>. QED
    BY <1>1, <2>1, <2>2 DEF Linked, KindsFit
<1>3. h[h[n].prnt].kind = "elm"
  BY <1>1 DEF Linked, KindsFit
<1>. QED
  BY <1>2, <1>3

\* roxml_del_arg_node takes an attribute out of its list once no node of its
\* element has it for its namespace.
LEMMA ArgDetaches ==
    ASSUME NEW h, Linked(h), NEW n \in Hanging(h), IsAttr(h, n)
    PROVE  \E r, u, b, f : /\ Linked(r) /\ Detached(r, u, n, b, f)
                           /\ DelArgNode(h, n) = Release(u, TreeFrom(u, u[n].chld))
                           /\ u[n].attr = Null /\ Finite(u)
                           /\ r = IF h[n].kind = "nsd" THEN ResetNs(h, h[n].prnt, n) ELSE h
<1>. DEFINE p == h[n].prnt
            k == h[p].attr
            m == h[n].sibl
            r == IF h[n].kind = "nsd" THEN ResetNs(h, p, n) ELSE h
            u == Unlink(r, p, n, "attr")
<1>1. h \in [Addr -> Node]
  BY DEF Linked, Typed
<1>2. p \in Live(h) /\ p \in Addr /\ n \in Addr /\ n # Null /\ m \in Ptr
  <2>1. p \in Live(h)
    BY Listed
  <2>2. n \in Addr /\ n # Null
    BY LiveAddr DEF Hanging
  <2>. QED
    BY <1>1, <2>1, <2>2, LiveAddr, NodeFields
<1>3. k = ListOf(h, n) /\ k \in Live(h) /\ k \in Addr /\ k # Null
  <2>1. k = ListOf(h, n)
    BY DEF ListOf
  <2>2. ListOf(h, n) \in Live(h)
    BY Listed
  <2>. QED
    BY <2>1, <2>2, LiveAddr
<1>4. DelArgNode(h, n) = Release(u, TreeFrom(u, u[n].chld))
  BY DEF DelArgNode, DelTree
<1>5. Renamed(h, r)
  <2>1. Renamed(h, ResetNs(h, p, n))
    BY <1>2, ResetNsIs
  <2>2. Renamed(h, h)
    BY <1>1 DEF Renamed
  <2>. HIDE DEF p
  <2>3. CASE h[n].kind = "nsd"
    BY <2>1, <2>3
  <2>4. CASE h[n].kind # "nsd"
    BY <2>2, <2>4
  <2>. QED
    BY <2>3, <2>4
<1>. HIDE DEF r
<1>6. Linked(r) /\ Live(r) = Live(h)
  BY <1>5, RenamedKeeps
<1>7. h[n].attr = Null /\ h[p].kind = "elm"
  BY AttrOwner
<1>8. h[p].next # n
  BY <1>2, <1>7 DEF Linked, Ends
<1>9. /\ r \in [Addr -> Node] /\ r[p].attr = k /\ r[n].sibl = m /\ r[n].prnt = p
      /\ n \in Hanging(r) /\ r[p].kind # "nsd" /\ r[p].next # n /\ r[n].attr = Null
  <2>1. n \in Hanging(r)
    BY <1>6 DEF Hanging
  <2>. QED
    BY <1>2, <1>5, <1>7, <1>8, <2>1 DEF Renamed
<1>10. /\ k = n => Sets(r, u, p, "attr", m)
       /\ k # n => \A b \in Addr : Before(r, k, n) = b => Sets(r, u, b, "sibl", m)
  <2>1. r[p].attr # Null
    BY <1>3, <1>9
  <2>. HIDE DEF k, m, p
  <2>2. /\ r[p].attr = n => Sets(r, Unlink(r, p, n, "attr"), p, "attr", r[n].sibl)
        /\ r[p].attr # n => \A b \in Addr : Before(r, r[p].attr, n) = b =>
              Sets(r, Unlink(r, p, n, "attr"), b, "sibl", r[n].sibl)
    BY <1>2, <1>9, <2>1, UnlinkAttr
  <2>. QED
    BY <1>9, <2>2
<1>. HIDE DEF u, k, m, p
<1>11. \E b, f : Detached(r, u, n, b, f)
  <2>1. CASE k = n
    <3>1. Sets(r, u, p, "attr", m)
      BY <1>10, <2>1
    <3>2. \A a \in Addr \ Live(r) : u[a] = r[a]
      BY <1>2, <1>6, <3>1 DEF Sets
    <3>3. Detached(r, u, n, p, "attr")
      BY <1>2, <1>6, <1>9, <2>1, <3>1, <3>2 DEF Sets, Detached, Link
    <3>. QED
      BY <3>3
  <2>2. CASE k # n
    <3>1. PICK b \in Live(h) : h[b].sibl = n /\ Before(r, k, n) = b
      <4>1. \A a \in Addr : r[a].sibl = h[a].sibl /\ r[a].chld = h[a].chld
                             /\ r[a].attr = h[a].attr
        BY <1>5 DEF Renamed
      <4>2. ListOf(h, n) # n
        BY <1>3, <2>2
      <4>3. \E b \in Live(h) : h[b].sibl = n /\ Before(r, ListOf(h, n), n) = b
        BY <1>9, <4>1, <4>2, PrecededIs
      <4>. QED
        BY <1>3, <4>3
    <3>2. b \in Addr /\ r[b].sibl = n
      BY <1>5, <3>1, LiveAddr DEF Renamed
    <3>3. Sets(r, u, b, "sibl", m)
      BY <1>10, <2>2, <3>1, <3>2
    <3>4. \A a \in Addr \ Live(r) : u[a] = r[a]
      BY <1>6, <3>1, <3>3 DEF Sets
    <3>5. Detached(r, u, n, b, "sibl")
      BY <1>6, <1>9, <3>1, <3>2, <3>3, <3>4 DEF Sets, Detached, Link
    <3>. QED
      BY <3>5
  <2>. QED
    BY <2>1, <2>2
<1>12. PICK b, f : Detached(r, u, n, b, f)
  BY <1>11
<1>13. u[n].attr = Null
  <2>1. u[n].attr = r[n].attr
    BY <1>6, <1>12, DetachedLinks
  <2>. QED
    BY <1>9, <2>1
<1>14. Finite(u)
  BY <1>6, <1>12, DetachedFinite
<1>15. r = IF h[n].kind = "nsd" THEN ResetNs(h, h[n].prnt, n) ELSE h
  BY DEF r, p
<1>. QED
  BY <1>4, <1>6, <1>12, <1>13, <1>14, <1>15

LEMMA ReleaseTwice ==
    ASSUME NEW u, NEW S, NEW T
    PROVE  Release(Release(u, S), T) = Release(u, S \cup T)
  BY DEF Release

\* roxml_del_node takes one node out of its list and frees it with its subtree.
LEMMA DelNodeIs ==
    ASSUME NEW h, Linked(h), NEW n \in Hanging(h),
           h[n].kind = "txt" => /\ FirstText(h, h[h[n].prnt].chld) = n
                                /\ h[h[n].prnt].kind # "nsd"
    PROVE  \E r, u, b, f :
              /\ Linked(r) /\ Detached(r, u, n, b, f) /\ DelNode(h, n) = Freed(u, n)
              /\ r = IF h[n].kind = "nsd" THEN ResetNs(h, h[n].prnt, n) ELSE h
<1>. DEFINE x == DelStdNode(h, n)
            y == DelArgNode(h, n)
            z == DelTxtNode(h, n)
<1>1. DelNode(h, n) = Release(CASE h[n].kind \in {"elm", "misc"} -> x
                                [] IsAttr(h, n) -> y
                                [] OTHER -> z, {n})
  BY DEF DelNode
<1>2. n \in Live(h) /\ h[n].kind \in Kinds
  BY DEF Hanging, Live
<1>3. CASE IsAttr(h, n)
  <2>1. DelNode(h, n) = Release(y, {n})
    <3>1. h[n].kind \notin {"elm", "misc"}
      BY <1>3 DEF IsAttr
    <3>. HIDE DEF x, y, z
    <3>. QED
      BY <1>1, <1>3, <3>1
  <2>2. PICK r, u, b, f : /\ Linked(r) /\ Detached(r, u, n, b, f)
                          /\ y = Release(u, TreeFrom(u, u[n].chld))
                          /\ u[n].attr = Null /\ Finite(u)
                          /\ r = IF h[n].kind = "nsd" THEN ResetNs(h, h[n].prnt, n) ELSE h
    BY <1>3, ArgDetaches
  <2>3. TreeFrom(u, u[n].attr) = {}
    BY <2>2, TreeFromIs
  <2>4. Release(y, {n}) = Freed(u, n)
    <3>1. Release(y, {n}) = Release(u, TreeFrom(u, u[n].chld) \cup {n})
      BY <2>2, ReleaseTwice
    <3>2. TreeFrom(u, u[n].chld) \cup {n} = Subtree(u, n)
      BY <2>3 DEF Subtree
    <3>. QED
      BY <3>1, <3>2 DEF Freed
  <2>. HIDE DEF y
  <2>. QED
    BY <2>1, <2>2, <2>4
<1>4. CASE ~IsAttr(h, n)
  <2>1. DelNode(h, n) = Release(x, {n})
    <3>1. CASE h[n].kind \in {"elm", "misc"}
      <4>. HIDE DEF x, y, z
      <4>. QED
        BY <1>1, <1>4, <3>1
    <3>2. CASE h[n].kind = "txt"
      <4>1. z = x
        BY <3>2 DEF DelTxtNode
      <4>2. h[n].kind \notin {"elm", "misc"}
        BY <3>2
      <4>. HIDE DEF x, y, z
      <4>. QED
        BY <1>1, <1>4, <4>1, <4>2
    <3>. QED
      BY <1>2, <1>4, <3>1, <3>2 DEF Kinds, IsAttr
  <2>2. h[h[n].prnt].kind # "nsd"
    BY DEF Linked, KindsFit
  <2>3. PICK u, b, f : /\ Detached(h, u, n, b, f)
                       /\ x = Release(u, TreeFrom(u, u[n].chld) \cup TreeFrom(u, u[n].attr))
    BY <1>4, <2>2, StdDetaches
  <2>4. Release(x, {n}) = Freed(u, n)
    <3>. DEFINE D == TreeFrom(u, u[n].chld) \cup TreeFrom(u, u[n].attr)
    <3>1. Subtree(u, n) = D \cup {n}
      BY DEF Subtree
    <3>. HIDE DEF D
    <3>. QED
      BY <2>3, <3>1, ReleaseTwice DEF Freed, D
  <2>5. h[n].kind # "nsd"
    BY <1>4 DEF IsAttr
  <2>6. h = IF h[n].kind = "nsd" THEN ResetNs(h, h[n].prnt, n) ELSE h
    BY <2>5
  <2>7. Detached(h, u, n, b, f) /\ DelNode(h, n) = Freed(u, n)
    BY <2>1, <2>3, <2>4
  <2>. QED
    BY <2>6, <2>7
<1>. QED
  BY <1>3, <1>4

\* roxml_close: every node is reached from the root.
LEMMA CloseIs ==
    ASSUME NEW h, Linked(h)
    PROVE  Live(Close(h, Root)) = {} /\ Typed(Close(h, Root))
<1>. DEFINE S == {Root} \cup TreeFrom(h, h[Root].chld) \cup TreeFrom(h, h[Root].sibl)
            T == {a \in Addr : a \in Live(h) => a \in S}
            g == Release(h, S)
<1>1. Finite(h) /\ Root \in Live(h) /\ Root \in Addr /\ h \in [Addr -> Node]
  BY LinkedFinite, LiveAddr DEF Linked, Rooted, Typed
<1>2. h[Root].chld \in Ptr /\ h[Root].sibl \in Ptr
  BY <1>1, NodeFields
<1>3. ASSUME NEW a \in Addr, \A b \in Addr : <<a, b>> \in Upwards(h) => b \in T
      PROVE  a \in T
  <2>. SUFFICES ASSUME a \in Hanging(h)
                PROVE  a \in S
    BY DEF Hanging
  <2>1. PICK b \in Live(h) : <<b, a>> \in Edges(h)
    BY DEF Linked, Reached
  <2>2. b \in S /\ b \in Addr /\ a \in {h[b].sibl, h[b].chld, h[b].attr} /\ a # Null
    BY <1>3, <2>1, UpwardIs, EdgeIs, LiveAddr, PtrIs
  <2>3. CASE b = Root
    <3>1. a = h[Root].chld
      BY <2>2, <2>3 DEF Linked, Rooted
    <3>. QED
      BY <1>1, <3>1, TreeFromIs
  <2>4. CASE b \in TreeFrom(h, h[Root].chld)
    BY <1>1, <1>2, <2>2, <2>4, TreeClosed
  <2>5. CASE b \in TreeFrom(h, h[Root].sibl)
    BY <1>1, <1>2, <2>2, <2>5, TreeClosed
  <2>. QED
    BY <2>2, <2>3, <2>4, <2>5
<1>4. Addr \subseteq T
  <2>1. WellFounded(Addr, Upwards(h))
    BY UpFounded DEF Linked
  <2>. HIDE DEF T
  <2>. QED
    BY <1>3, <2>1, Induction
<1>5. Live(h) \subseteq S
  BY <1>4, LiveAddr
<1>. HIDE DEF S
<1>6. /\ g \in [Addr -> Node] /\ \A a \in Addr \ S : g[a] = h[a]
      /\ \A a \in Addr \cap S : g[a] = Blank("freed")
      /\ Live(g) = Live(h) \ S
  BY <1>1, ReleaseIs
<1>7. Live(g) = {}
  BY <1>1, <1>5, <1>6
<1>8. Typed(g)
  <2>. SUFFICES ASSUME NEW a \in Addr
                PROVE  g[a] = Blank(g[a].kind)
    BY <1>6 DEF Typed
  <2>1. CASE a \in S
    BY <1>6, <2>1 DEF Blank
  <2>2. CASE a \notin S
    BY <1>5, <1>6, <2>2 DEF Linked, Typed
  <2>. QED
    BY <2>1, <2>2
<1>. QED
  BY <1>7, <1>8 DEF Close, S

-----------------------------------------------------------------------------
(* Which namespace a node has.                                             *)

\* The walk up from a node ends above the root.
LEMMA UnderDefIs ==
    ASSUME NEW h, Linked(h), NEW k \in Addr, NEW d
    PROVE  /\ UnderDef(h, k, d) <=> k = h[d].prnt \/ UnderDef(h, h[k].prnt, d)
           /\ ~UnderDef(h, Null, d)
<1>. DEFINE up[x \in Ptr] == x # Null /\ (x = h[d].prnt \/ up[h[x].prnt])
            F == [x \in Ptr |-> [f \in [Ptr -> BOOLEAN] |->
                    x # Null /\ (x = h[d].prnt \/ f[h[x].prnt])]]
            R == Parents(h) \cup (Addr \X {Null})
<1>1. \A x : UnderDef(h, x, d) <=> up[x]
  BY DEF UnderDef
<1>2. \A x \in Ptr : x # Null => x \in Addr /\ h[x].prnt \in Ptr /\ <<x, h[x].prnt>> \in R
  BY NodeFields, PtrIs DEF Linked, Typed, Parents
<1>3. WellFounded(Ptr, R)
  <2>. SUFFICES ASSUME NEW T \in SUBSET Ptr, T # {}
                PROVE  \E a \in T : \A b \in T : <<a, b>> \notin R
    BY DEF WellFounded
  <2>1. CASE Null \in T
    BY <2>1, PtrIs DEF Parents
  <2>2. CASE Null \notin T
    <3>1. T \in SUBSET Addr
      BY <2>2, PtrIs
    <3>2. PICK a \in T : \A b \in T : <<a, b>> \notin Parents(h)
      BY <3>1, ParentsFounded DEF WellFounded
    <3>. QED
      BY <2>2, <3>2
  <2>. QED
    BY <2>1, <2>2
<1>4. Follows(Ptr, BOOLEAN, R, F)
  <2>1. F \in [Ptr -> [[Ptr -> BOOLEAN] -> BOOLEAN]]
    <3>. HIDE DEF Ptr, UnderDef
    <3>. QED
      BY Zenon
  <2>2. \A a \in Ptr : \A f, g \in [Ptr -> BOOLEAN] :
           (\A b \in Ptr : <<a, b>> \in R => f[b] = g[b]) => F[a][f] = F[a][g]
    <3>. SUFFICES ASSUME NEW a \in Ptr, NEW f \in [Ptr -> BOOLEAN], NEW g \in [Ptr -> BOOLEAN],
                         \A b \in Ptr : <<a, b>> \in R => f[b] = g[b]
                  PROVE  F[a][f] = F[a][g]
      <4>. HIDE DEF F, R
      <4>. QED
        BY Zenon
    <3>. HIDE DEF R
    <3>1. a # Null => f[h[a].prnt] = g[h[a].prnt]
      BY <1>2
    <3>2. F[a][f] = (a # Null /\ (a = h[d].prnt \/ f[h[a].prnt]))
      BY Zenon
    <3>3. F[a][g] = (a # Null /\ (a = h[d].prnt \/ g[h[a].prnt]))
      BY Zenon
    <3>. HIDE DEF F
    <3>. QED
      BY <3>1, <3>2, <3>3, Zenon
  <2>. HIDE DEF F, R, Ptr
  <2>. QED
    BY <2>1, <2>2 DEF Follows
<1>5. PICK f \in [Ptr -> BOOLEAN] : \A x \in Ptr : f[x] = F[x][f]
  <2>1. BOOLEAN # {}
    OBVIOUS
  <2>. HIDE DEF F, R, Ptr
  <2>. QED
    BY <1>3, <1>4, <2>1, Recursion
<1>6. f = [x \in Ptr |-> x # Null /\ (x = h[d].prnt \/ f[h[x].prnt])]
  <2>1. \A x \in Ptr : F[x][f] = (x # Null /\ (x = h[d].prnt \/ f[h[x].prnt]))
    BY Zenon
  <2>2. \A x \in Ptr : f[x] = (x # Null /\ (x = h[d].prnt \/ f[h[x].prnt]))
    BY <1>5, <2>1, Zenon
  <2>. HIDE DEF F, Ptr
  <2>. QED
    BY <2>2, Zenon
<1>7. up = [x \in Ptr |-> x # Null /\ (x = h[d].prnt \/ up[h[x].prnt])]
  BY <1>6, Zenon
<1>. HIDE DEF up
<1>8. \A x \in Ptr : up[x] <=> x # Null /\ (x = h[d].prnt \/ up[h[x].prnt])
  BY <1>7, Zenon
<1>. QED
  BY <1>1, <1>8, PtrIs, Zenon

\* What is above a node of a set closed under prnt is in it.
LEMMA UnderIn ==
    ASSUME NEW h, Linked(h), NEW d, NEW X, X \subseteq Addr,
           \A a \in X : h[a].prnt \in X \cup {Null}
    PROVE  \A k \in X : UnderDef(h, k, d) => h[d].prnt \in X
<1>. DEFINE T == {k \in Addr : k \in X /\ UnderDef(h, k, d) => h[d].prnt \in X}
<1>1. ASSUME NEW k \in Addr, \A c \in Addr : <<k, c>> \in Parents(h) => c \in T
      PROVE  k \in T
  <2>. SUFFICES ASSUME k \in X, UnderDef(h, k, d), k # h[d].prnt
                PROVE  h[d].prnt \in X
    OBVIOUS
  <2>1. UnderDef(h, h[k].prnt, d) /\ h[k].prnt # Null
    BY UnderDefIs
  <2>2. h[k].prnt \in X /\ <<k, h[k].prnt>> \in Parents(h)
    BY <2>1 DEF Parents
  <2>. QED
    BY <1>1, <2>1, <2>2
<1>2. Addr \subseteq T
  <2>. HIDE DEF T
  <2>. QED
    BY <1>1, ParentsFounded, Induction
<1>. QED
  BY <1>2

\* The way up from a node of such a set depends on the parents in the set only.
LEMMA UnderSame ==
    ASSUME NEW h, NEW g, Linked(h), Linked(g), NEW X, X \subseteq Addr, NEW d \in X,
           \A a \in X : g[a].prnt = h[a].prnt /\ h[a].prnt \in X \cup {Null}
    PROVE  \A k \in X : UnderDef(h, k, d) => UnderDef(g, k, d)
<1>. DEFINE T == {k \in Addr : k \in X /\ UnderDef(h, k, d) => UnderDef(g, k, d)}
<1>1. ASSUME NEW k \in Addr, \A c \in Addr : <<k, c>> \in Parents(h) => c \in T
      PROVE  k \in T
  <2>. SUFFICES ASSUME k \in X, UnderDef(h, k, d)
                PROVE  UnderDef(g, k, d)
    OBVIOUS
  <2>1. CASE k = h[d].prnt
    <3>1. k = g[d].prnt
      BY <2>1
    <3>. QED
      BY <3>1, UnderDefIs
  <2>2. CASE k # h[d].prnt
    <3>1. UnderDef(h, h[k].prnt, d) /\ h[k].prnt # Null
      BY <2>2, UnderDefIs
    <3>2. h[k].prnt \in X /\ <<k, h[k].prnt>> \in Parents(h)
      BY <3>1 DEF Parents
    <3>3. UnderDef(g, g[k].prnt, d)
      BY <1>1, <3>1, <3>2
    <3>. QED
      BY <3>3, UnderDefIs
  <2>. QED
    BY <2>1, <2>2
<1>2. Addr \subseteq T
  <2>. HIDE DEF T
  <2>. QED
    BY <1>1, ParentsFounded, Induction
<1>. QED
  BY <1>2

LEMMA ScopedIs ==
    ASSUME NEW h, Linked(h), Scoped(h), NEW a \in Live(h), h[a].ns # Null
    PROVE  /\ h[a].ns \in Live(h) /\ h[h[a].ns].kind = "nsd"
           /\ UnderDef(h, a, h[a].ns)
<1>1. h[a].ns \in Addr
  BY LiveAddr, NodeFields, PtrIs DEF Linked, Typed
<1>. QED
  BY <1>1 DEF Scoped, Live, Kinds

\* A new node has the namespace of its parent, or none.
LEMMA AttachedScoped ==
    ASSUME NEW h, NEW g, NEW p, NEW n, NEW v, NEW b, NEW f, Linked(h), Scoped(h),
           Attached(h, g, p, n, v, b, f)
    PROVE  Scoped(g)
<1>1. Live(g) = Live(h) \cup {n, v} /\ Live(h) \subseteq Addr /\ n \in Addr
  <2>1. n \in Addr
    BY DEF Attached
  <2>. QED
    BY <2>1, AttachedLive, LiveAddr
<1>2. Linked(g)
  BY AttachedKeeps
<1>3. p \in Live(h) /\ g[n].prnt = p /\ g[n].ns \in {Null, h[p].ns} /\ (v # n => g[v].ns = Null)
  BY DEF Attached
<1>4. \A a \in Live(h) : g[a].kind = h[a].kind /\ g[a].prnt = h[a].prnt /\ g[a].ns = h[a].ns
  BY DEF Attached
<1>5. \A a \in Live(h) : h[a].prnt \in Live(h) \cup {Null}
  BY DEF Linked, Closed
<1>6. ASSUME NEW a \in Live(h), h[a].ns # Null
      PROVE  g[h[a].ns].kind = "nsd" /\ UnderDef(g, a, h[a].ns)
  <2>1. h[a].ns \in Live(h) /\ h[h[a].ns].kind = "nsd" /\ UnderDef(h, a, h[a].ns)
    BY <1>6, ScopedIs
  <2>2. UnderDef(g, a, h[a].ns)
    BY <1>1, <1>2, <1>4, <1>5, <2>1, UnderSame
  <2>. QED
    BY <1>4, <2>1, <2>2
<1>7. ASSUME g[n].ns # Null
      PROVE  g[g[n].ns].kind = "nsd" /\ UnderDef(g, n, g[n].ns)
  <2>1. g[g[n].ns].kind = "nsd" /\ UnderDef(g, p, g[n].ns)
    BY <1>3, <1>6, <1>7
  <2>. QED
    BY <1>1, <1>2, <1>3, <2>1, UnderDefIs
<1>. QED
  BY <1>1, <1>3, <1>4, <1>6, <1>7 DEF Scoped

\* What is freed with a node that is no namespace left in use holds no definition
\* that a node elsewhere uses: those are used below their element only.
LEMMA FreedScoped ==
    ASSUME NEW h, NEW u, NEW n, NEW b, NEW f, Linked(h), Scoped(h), Detached(h, u, n, b, f),
           \A a \in Live(h) \ Subtree(u, n) : h[a].ns # n
    PROVE  Scoped(Freed(u, n))
<1>. DEFINE g == Freed(u, n)
            X == Live(g)
<1>1. Linked(g)
  BY FreedKeeps
<1>2. /\ X = Live(h) \ Subtree(u, n)
      /\ \A a \in X : g[a] = u[a] /\ h[a].prnt \notin Subtree(u, n)
  BY FreedIs
<1>3. X \subseteq Addr
  BY LiveAddr
<1>4. \A a \in Addr : u[a].kind = h[a].kind /\ u[a].prnt = h[a].prnt /\ u[a].ns = h[a].ns
  BY DEF Detached
<1>5. \A y \in Subtree(u, n) \ {n} : h[y].prnt \in Subtree(u, n)
  BY SubtreeDown
<1>. HIDE DEF g
<1>6. \A a \in X : h[a].prnt \in X \cup {Null}
  BY <1>2 DEF Linked, Closed
<1>7. \A a \in X : g[a].kind = h[a].kind /\ g[a].prnt = h[a].prnt /\ g[a].ns = h[a].ns
  BY <1>2, <1>3, <1>4
<1>8. ASSUME NEW a \in X, h[a].ns # Null
      PROVE  g[h[a].ns].kind = "nsd" /\ UnderDef(g, a, h[a].ns)
  <2>. DEFINE d == h[a].ns
  <2>1. d \in Live(h) /\ h[d].kind = "nsd" /\ UnderDef(h, a, d)
    BY <1>2, <1>8, ScopedIs
  <2>. HIDE DEF d
  <2>2. h[d].prnt \in X
    BY <1>3, <1>6, <2>1, UnderIn
  <2>3. d # n
    BY <1>2 DEF d
  <2>4. d \in X
    BY <1>2, <1>5, <2>1, <2>2, <2>3
  <2>. HIDE DEF X
  <2>5. UnderDef(g, a, d)
    BY <1>1, <1>3, <1>6, <1>7, <2>1, <2>4, UnderSame
  <2>. QED
    BY <1>7, <2>1, <2>4, <2>5 DEF d
<1>. QED
  BY <1>7, <1>8 DEF Scoped, g

\* What another namespace for some nodes must be.
LEMMA RenamedScoped ==
    ASSUME NEW h, NEW r, Linked(h), Renamed(h, r),
           \A a \in Live(h) : r[a].ns # Null =>
               h[r[a].ns].kind = "nsd" /\ UnderDef(h, a, r[a].ns)
    PROVE  Scoped(r)
<1>1. Linked(r) /\ Live(r) = Live(h)
  BY RenamedKeeps
<1>2. \A a \in Addr : r[a].kind = h[a].kind /\ r[a].prnt = h[a].prnt
  BY DEF Renamed
<1>3. \A a \in Addr : h[a].prnt \in Addr \cup {Null} /\ r[a].ns \in Addr \cup {Null}
  BY <1>1, NodeFields DEF Linked, Typed, Ptr
<1>4. ASSUME NEW a \in Live(r), r[a].ns # Null
      PROVE  r[r[a].ns].kind = "nsd" /\ UnderDef(r, a, r[a].ns)
  <2>. DEFINE d == r[a].ns
  <2>1. d \in Addr /\ a \in Addr /\ h[d].kind = "nsd" /\ UnderDef(h, a, d)
    BY <1>1, <1>3, <1>4, LiveAddr
  <2>. HIDE DEF d
  <2>2. UnderDef(r, a, d)
    BY <1>1, <1>2, <1>3, <2>1, UnderSame
  <2>. QED
    BY <1>2, <2>1, <2>2 DEF d
<1>. QED
  BY <1>4 DEF Scoped

\* What roxml_set_ns visits is under the definition when the node is.
LEMMA ScopeUnder ==
    ASSUME NEW h, Linked(h), NEW d, NEW n \in Live(h), UnderDef(h, n, d)
    PROVE  \A y \in NsScope(h, n) : UnderDef(h, y, d)
<1>. DEFINE U == {y \in Addr : UnderDef(h, y, d)}
            T == {k \in Addr : k \in Live(h) /\ k \in U => Below(h, k) \subseteq U \cap Live(h)}
<1>1. Finite(h) /\ Siblings(h) /\ Closed(h) /\ Families(h) /\ n \in Addr
  BY LinkedFinite, LiveAddr DEF Linked
<1>2. ASSUME NEW k \in Live(h), NEW m \in {h[k].chld, h[k].attr}
      PROVE  \A c \in Members(h, m) : c \in Live(h) /\ c \in Addr /\ h[c].prnt = k
  <2>1. m \in Live(h) \cup {Null} /\ (m # Null => h[m].prnt = k)
    BY <1>1 DEF Closed, Families
  <2>2. CASE m = Null
    BY <1>1, <2>2, MembersIs
  <2>3. CASE m \in Live(h)
    BY <1>1, <2>1, <2>3, ListSame, LiveAddr
  <2>. QED
    BY <2>1, <2>2, <2>3
<1>3. \A k \in U, c \in Addr : h[c].prnt = k => c \in U
  BY UnderDefIs
<1>. HIDE DEF U
<1>4. ASSUME NEW k \in Addr, \A c \in Addr : <<k, c>> \in Descents(h) => c \in T
      PROVE  k \in T
  <2>. SUFFICES ASSUME k \in Live(h), k \in U
                PROVE  Below(h, k) \subseteq U \cap Live(h)
    OBVIOUS
  <2>1. \A c \in Members(h, h[k].chld) : c \in Live(h) /\ c \in Addr /\ h[c].prnt = k
    BY <1>2
  <2>2. \A c \in Members(h, h[k].chld) : c \in U /\ <<k, c>> \in Descents(h)
    BY <1>3, <2>1 DEF Descents
  <2>3. \A c \in Members(h, h[k].chld) : Below(h, c) \subseteq U \cap Live(h)
    BY <1>4, <2>1, <2>2
  <2>. QED
    BY <1>1, <2>3, BelowIs
<1>5. Addr \subseteq T
  <2>. HIDE DEF T
  <2>. QED
    BY <1>1, <1>4, DescentsFounded, Induction
<1>6. Below(h, n) \subseteq U \cap Live(h)
  BY <1>1, <1>5 DEF U
<1>7. \A k \in Below(h, n) : ToSet(Attributes(h, k)) \subseteq U
  BY <1>2, <1>3, <1>6 DEF Attributes, Members
<1>. QED
  BY <1>6, <1>7 DEF NsScope, U

LEMMA SetNsScoped ==
    ASSUME NEW h, Linked(h), Scoped(h), NEW n \in Live(h), NEW d \in Ptr,
           d # Null => h[d].kind = "nsd" /\ UnderDef(h, n, d)
    PROVE  Scoped(SetNs(h, n, d))
<1>. DEFINE r == SetNs(h, n, d)
<1>1. Renamed(h, r)
  BY SetNsIs
<1>2. \A a \in Addr : r[a].ns = IF a \in NsScope(h, n) THEN d ELSE h[a].ns
  <2>1. h \in [Addr -> Node]
    BY DEF Linked, Typed
  <2>. QED
    BY <2>1 DEF SetNs, Node
<1>. HIDE DEF r
<1>3. \A a \in NsScope(h, n) : d # Null => UnderDef(h, a, d)
  BY ScopeUnder
<1>4. ASSUME NEW a \in Live(h), r[a].ns # Null
      PROVE  h[r[a].ns].kind = "nsd" /\ UnderDef(h, a, r[a].ns)
  BY <1>2, <1>3, <1>4, LiveAddr DEF Scoped
<1>5. Scoped(r)
  BY <1>1, <1>4, RenamedScoped
<1>. QED
  BY <1>5 DEF r

\* Above its element a definition has no effect.
LEMMA NotAbove ==
    ASSUME NEW h, Linked(h), NEW n, NEW e \in Addr, h[n].prnt = e
    PROVE  ~UnderDef(h, h[e].prnt, n)
<1>. DEFINE Y == {k \in Addr : UnderDef(h, k, n)}
<1>1. \A k \in Addr : h[k].prnt \in Addr \cup {Null}
  BY NodeFields DEF Linked, Typed, Ptr
<1>2. ~UnderDef(h, Null, n)
  BY UnderDefIs
<1>3. SUFFICES ASSUME UnderDef(h, h[e].prnt, n)
               PROVE  FALSE
  OBVIOUS
<1>4. \A k \in Y : h[k].prnt \in Y
  BY <1>1, <1>2, <1>3, UnderDefIs
<1>5. \A k \in Y : <<k, h[k].prnt>> \in Parents(h)
  BY <1>4 DEF Parents
<1>6. Y # {} /\ Y \in SUBSET Addr
  BY <1>1, <1>2, <1>3
<1>. HIDE DEF Y
<1>. QED
  BY <1>4, <1>5, <1>6, ParentsFounded DEF WellFounded

\* roxml_reset_ns gives a node that had the definition n the namespace its parent
\* has, which is not n.
LEMMA ResetNsScoped ==
    ASSUME NEW h, Linked(h), Scoped(h), NEW n, n # Null, NEW e \in Live(h), h[n].prnt = e
    PROVE  LET r == ResetNs(h, e, n)
           IN /\ Scoped(r)
              /\ \A a \in Live(h) : r[a].ns = n => h[a].ns = n /\ a \notin NsScope(h, e)
<1>. DEFINE r == ResetNs(h, e, n)
<1>1. PICK ns :
         /\ \A k \in Addr : ns[k] = IF h[k].ns # n THEN h[k].ns
                                   ELSE IF h[k].prnt = Null THEN Null
                                   ELSE IF k = e THEN h[h[e].prnt].ns
                                   ELSE ns[h[k].prnt]
         /\ r = [k \in Addr |-> IF k \in NsScope(h, e)
                               THEN [h[k] EXCEPT !.ns = ns[k]] ELSE h[k]]
  BY ResetNsEq
<1>2. Renamed(h, r)
  BY ResetNsIs
<1>3. \A a \in Addr : r[a].ns = IF a \in NsScope(h, e) THEN ns[a] ELSE h[a].ns
  <2>1. h \in [Addr -> Node]
    BY DEF Linked, Typed
  <2>. HIDE DEF r
  <2>. QED
    BY <1>1, <2>1 DEF Node
<1>. HIDE DEF r
<1>. DEFINE Fits(k) == ns[k] # Null =>
                          ns[k] # n /\ h[ns[k]].kind = "nsd" /\ UnderDef(h, k, ns[k])
            T == {k \in Addr : k \in Live(h) => Fits(k)}
<1>4. ASSUME NEW k \in Addr, \A c \in Addr : <<k, c>> \in Parents(h) => c \in T
      PROVE  k \in T
  <2>. SUFFICES ASSUME k \in Live(h)
                PROVE  Fits(k)
    OBVIOUS
  <2>1. CASE h[k].ns # n
    BY <1>1, <2>1 DEF Scoped
  <2>2. CASE h[k].ns = n /\ h[k].prnt = Null
    BY <1>1, <2>2
  <2>3. CASE h[k].ns = n /\ h[k].prnt # Null /\ k = e
    <3>. DEFINE q == h[e].prnt
    <3>0. ns[k] = h[h[e].prnt].ns
      BY <1>1, <2>3
    <3>5. h[e].prnt \in Live(h)
      BY <2>3 DEF Linked, Closed
    <3>1. q \in Live(h) /\ ns[k] = h[q].ns
      BY <3>0, <3>5
    <3>6. e \in Addr
      BY LiveAddr
    <3>2. ~UnderDef(h, h[e].prnt, n)
      BY <3>6, NotAbove
    <3>3. h[q].ns # Null => h[h[q].ns].kind = "nsd" /\ UnderDef(h, q, h[q].ns)
      BY <3>1 DEF Scoped
    <3>4. h[q].ns # Null => UnderDef(h, k, h[q].ns)
      BY <2>3, <3>3, UnderDefIs
    <3>. QED
      BY <3>1, <3>2, <3>3, <3>4
  <2>4. CASE h[k].ns = n /\ h[k].prnt # Null /\ k # e
    <3>. DEFINE q == h[k].prnt
    <3>1. q \in Live(h) /\ q \in Addr /\ ns[k] = ns[q]
      BY <1>1, <2>4, LiveAddr DEF Linked, Closed
    <3>2. <<k, q>> \in Parents(h)
      BY <3>1 DEF Parents
    <3>3. Fits(q)
      BY <1>4, <3>1, <3>2
    <3>4. ns[q] # Null => UnderDef(h, k, ns[q])
      BY <3>3, UnderDefIs
    <3>. QED
      BY <3>1, <3>3, <3>4
  <2>. QED
    BY <2>1, <2>2, <2>3, <2>4
<1>5. Addr \subseteq T
  <2>. HIDE DEF T
  <2>. QED
    BY <1>4, ParentsFounded, Induction
<1>6. \A k \in Live(h) : k \in Addr /\ Fits(k)
  BY <1>5, LiveAddr
<1>7. ASSUME NEW a \in Live(h), r[a].ns # Null
      PROVE  h[r[a].ns].kind = "nsd" /\ UnderDef(h, a, r[a].ns)
  BY <1>3, <1>6, <1>7 DEF Scoped
<1>8. Scoped(r)
  BY <1>2, <1>7, RenamedScoped
<1>9. ASSUME NEW a \in Live(h), r[a].ns = n
      PROVE  h[a].ns = n /\ a \notin NsScope(h, e)
  BY <1>3, <1>6, <1>9
<1>. HIDE DEF Fits, T
<1>. QED
  BY <1>8, <1>9 DEF r

\* The lists below a node that goes are freed with it.
LEMMA ChildrenGo ==
    ASSUME NEW h, NEW u, NEW n, NEW b, NEW f, Linked(h), Detached(h, u, n, b, f)
    PROVE  TreeFrom(h, h[n].chld) \subseteq Subtree(u, n)
<1>. DEFINE X == TreeFrom(u, u[n].chld)
<1>1. Linked(h) /\ Finite(h) /\ Finite(u)
  BY LinkedFinite, DetachedFinite
<1>2. u[n].chld = h[n].chld /\ n \in Addr /\ h[n].chld \in Ptr
  <2>1. n \in Addr /\ u[n].chld = h[n].chld
    BY DetachedLinks, LiveAddr
  <2>. QED
    BY <2>1, NodeFields DEF Linked, Typed
<1>3. X \subseteq Addr /\ b \notin X /\ h[n].chld \in X \cup {Null}
  <2>1. b \notin X
    BY SubtreeBelow DEF Subtree
  <2>2. X \subseteq Addr
    BY <1>1, <1>2, TreeFromIs
  <2>3. h[n].chld # Null => h[n].chld \in X
    BY <1>1, <1>2, TreeFromIs, PtrIs
  <2>. QED
    BY <2>1, <2>2, <2>3
<1>4. ASSUME NEW y \in X
      PROVE  y \in Addr /\ {h[y].sibl, h[y].chld, h[y].attr} \subseteq X \cup {Null}
  <2>1. {u[y].sibl, u[y].chld, u[y].attr} \subseteq X \cup {Null}
    BY <1>1, <1>2, TreeClosed
  <2>2. y \in Addr /\ y # b
    BY <1>3
  <2>3. u[y].sibl = h[y].sibl /\ u[y].chld = h[y].chld /\ u[y].attr = h[y].attr
    BY <2>2 DEF Detached
  <2>. QED
    BY <2>1, <2>2, <2>3
<1>. HIDE DEF X
<1>5. TreeFrom(h, h[n].chld) \subseteq X
  BY <1>1, <1>2, <1>3, <1>4, TreeLeast
<1>. QED
  BY <1>5 DEF X, Subtree

\* roxml_del_node: a node that is not a definition is nobody's namespace; the
\* users of a definition that stay are given another by roxml_reset_ns.
LEMMA DelNodeScoped ==
    ASSUME Linked(heap), Scoped(heap), NEW n \in Hanging(heap),
           heap[n].kind = "txt" => /\ FirstText(heap, heap[heap[n].prnt].chld) = n
                                   /\ heap[heap[n].prnt].kind # "nsd",
           heap[n].kind = "nsd" => ~UsedUnseen(n)
    PROVE  Scoped(DelNode(heap, n))
<1>. DEFINE h == heap
            e == h[n].prnt
<1>1. n \in Live(h) /\ e \in Live(h) /\ n # Null
  BY LiveAddr DEF Linked, Closed, Families, Hanging
<1>2. PICK r, u, b, f : /\ Linked(r) /\ Detached(r, u, n, b, f)
                        /\ DelNode(h, n) = Freed(u, n)
                        /\ r = IF h[n].kind = "nsd" THEN ResetNs(h, e, n) ELSE h
  BY DelNodeIs
<1>3. CASE h[n].kind # "nsd"
  <2>1. r = h
    BY <1>2, <1>3
  <2>2. \A a \in Live(h) : h[a].ns # n
    BY <1>1, <1>3 DEF Scoped
  <2>. QED
    BY <1>2, <2>1, <2>2, FreedScoped
<1>4. CASE h[n].kind = "nsd"
  <2>1. r = ResetNs(h, e, n)
    BY <1>2, <1>4
  <2>2. /\ Scoped(r)
        /\ \A a \in Live(h) : r[a].ns = n => h[a].ns = n /\ a \notin NsScope(h, e)
    BY <1>1, <2>1, ResetNsScoped
  <2>3. Renamed(h, r)
    BY <1>1, <2>1, ResetNsIs, LiveAddr
  <2>4. Live(r) = Live(h) /\ Finite(h) /\ Finite(r) /\ r[n].chld = h[n].chld
    BY <1>1, <1>2, <2>3, RenamedKeeps, LinkedFinite, LiveAddr DEF Renamed
  <2>5. TreeFrom(h, h[n].chld) \subseteq Subtree(u, n)
    <3>1. TreeFrom(r, r[n].chld) \subseteq Subtree(u, n)
      BY <1>2, ChildrenGo
    <3>2. h[n].chld \in Ptr
      BY <1>1, LiveAddr, NodeFields DEF Linked, Typed
    <3>3. \A y \in TreeFrom(r, r[n].chld) :
             y \in Addr /\ {h[y].sibl, h[y].chld, h[y].attr} \subseteq TreeFrom(r, r[n].chld) \cup {Null}
      <4>1. \A y \in TreeFrom(r, r[n].chld) : y \in Addr
        BY <1>2, <3>1, SubtreeDown, LiveAddr
      <4>2. \A y \in Addr : r[y].sibl = h[y].sibl /\ r[y].chld = h[y].chld /\ r[y].attr = h[y].attr
        BY <2>3 DEF Renamed
      <4>. QED
        BY <2>4, <3>2, <4>1, <4>2, TreeClosed
    <3>4. h[n].chld \in TreeFrom(r, r[n].chld) \cup {Null}
      BY <2>4, <3>2, TreeFromIs, PtrIs
    <3>. QED
      BY <2>4, <3>1, <3>2, <3>3, <3>4, TreeLeast
  <2>6. n \in Subtree(u, n)
    BY DEF Subtree
  <2>7. \A a \in Live(r) \ Subtree(u, n) : r[a].ns # n
    BY <1>4, <2>2, <2>4, <2>5, <2>6 DEF UsedUnseen
  <2>. QED
    BY <1>2, <2>2, <2>7, FreedScoped
<1>. QED
  BY <1>3, <1>4

-----------------------------------------------------------------------------
(* The document through a sequence of calls.                               *)

EditInv ==
    /\ Typed(heap) /\ open \in BOOLEAN
    /\ open => Linked(heap)
    /\ ~open => Live(heap) = {}

\* The callers keep to what the code treats rightly.  They may delete a
\* definition that is in use: its links are right even so.
Plain == Callers \cap {"later text", "nsdef value", "root attr"} = {}

LEMMA DelNodeCallKeeps ==
    ASSUME Linked(heap), Plain, NEW n \in Addr, DelNodeCall(n)
    PROVE  Linked(heap') /\ open' = open
<1>1. n \in Hanging(heap) /\ heap' = DelNode(heap, n) /\ open' = open
  BY DEF DelNodeCall, Hanging
<1>2. heap[n].kind = "txt" => /\ FirstText(heap, heap[heap[n].prnt].chld) = n
                              /\ heap[heap[n].prnt].kind # "nsd"
  BY DEF DelNodeCall, Plain
<1>3. Linked(DelNode(heap, n))
  <2>1. n \in Hanging(heap)
    BY <1>1
  <2>2. PICK r, u, b, f : Linked(r) /\ Detached(r, u, n, b, f) /\ DelNode(heap, n) = Freed(u, n)
    BY <1>2, <2>1, DelNodeIs
  <2>. QED
    BY <2>2, FreedKeeps
<1>. QED
  BY <1>1, <1>3

LEMMA SetNsCallKeeps ==
    ASSUME Linked(heap), NEW n \in Addr, NEW d \in Ptr, SetNsCall(n, d)
    PROVE  Linked(heap') /\ open' = open
<1>1. n \in Live(heap) /\ open' = open /\ (heap' = heap \/ heap' = SetNs(heap, n, d))
  BY DEF SetNsCall
<1>2. Linked(SetNs(heap, n, d))
  BY <1>1, SetNsIs, RenamedKeeps
<1>. QED
  BY <1>1, <1>2

\* Whatever the callers of the library do to a document, node by node, it stays
\* a tree that is linked as the code of every operation assumes, and when it is
\* closed nothing of it is left.
THEOREM EditInvariant == ASSUME Plain PROVE Spec => []EditInv
<1>1. Init => EditInv
  BY DocsAssumption DEF Init, EditInv, Linked
<1>2. EditInv /\ [Next]_vars => EditInv'
  <2>1. CASE UNCHANGED vars
    <3>1. heap' = heap /\ open' = open
      BY <2>1 DEF vars
    <3>2. /\ Typed(heap') <=> Typed(heap)
          /\ Linked(heap') <=> Linked(heap)
          /\ Live(heap') = Live(heap)
      BY <3>1, Zenon
    <3>. QED
      BY <3>1, <3>2 DEF EditInv
  <2>2. ASSUME EditInv, Next
        PROVE  EditInv'
    <3>1. open /\ Linked(heap)
      BY <2>2 DEF Next, AddNode, DelNodeCall, SetNsCall, CloseCall, EditInv
    <3>2. ASSUME Linked(heap') /\ open' = open
          PROVE  EditInv'
      BY <3>1, <3>2 DEF EditInv, Linked
    <3>7. \A p, n, v, b, f : Attached(heap, heap', p, n, v, b, f) => Linked(heap')
      BY <3>1, AttachedKeeps
    <3>3. CASE \E parent \in Addr, position \in 0..MaxPosition, kind \in Added,
                  alias \in Aliases, size \in {1, 2} :
                     AddNode(parent, position, kind, alias, size)
      <4>1. PICK parent \in Addr, position \in 0..MaxPosition, kind \in Added,
                 alias \in Aliases, size \in {1, 2} :
                    AddNode(parent, position, kind, alias, size)
        BY <3>3
      <4>2. /\ \E n, v, b, f : AddedAt(heap, heap', Target(parent, kind), n, v, b, f,
                                     kind, position, size)
            /\ open' = open
        BY <3>1, <4>1, AddNodeIs DEF Plain
      <4>. QED
        BY <3>2, <3>7, <4>2 DEF AddedAt
    <3>4. CASE \E n \in Addr : DelNodeCall(n)
      BY <3>1, <3>2, <3>4, DelNodeCallKeeps
    <3>5. CASE \E n \in Addr, d \in Ptr : SetNsCall(n, d)
      BY <3>1, <3>2, <3>5, SetNsCallKeeps
    <3>6. CASE CloseCall
      BY <3>1, <3>6, CloseIs DEF CloseCall, EditInv
    <3>. QED
      BY <2>2, <3>3, <3>4, <3>5, <3>6 DEF Next
  <2>. QED
    BY <2>1, <2>2
<1>. QED
  BY <1>1, <1>2, PTL DEF Spec

\* A deleted node is not written to again: roxml_del_node has taken it out of
\* every list it was in before free.
THEOREM EditTypes == ASSUME Plain PROVE Spec => []TypeOK
<1>1. Init => call \in Calls
  BY DEF Init, Calls
<1>2. call \in Calls /\ [Next]_vars => (call \in Calls)'
  <2>1. ASSUME NEW parent \in Addr, NEW position \in 0..MaxPosition, NEW kind \in Added,
               NEW alias \in Aliases, NEW size \in {1, 2},
               AddNode(parent, position, kind, alias, size)
        PROVE  call' \in Calls
    BY <2>1 DEF AddNode, Calls
  <2>2. ASSUME NEW n \in Addr, DelNodeCall(n)
        PROVE  call' \in Calls
    BY <2>2 DEF DelNodeCall, Calls
  <2>3. ASSUME NEW n \in Addr, NEW d \in Ptr, SetNsCall(n, d)
        PROVE  call' \in Calls
    BY <2>3 DEF SetNsCall, Calls
  <2>4. ASSUME CloseCall
        PROVE  call' \in Calls
    BY <2>4 DEF CloseCall, Calls
  <2>. QED
    BY <2>1, <2>2, <2>3, <2>4 DEF Next, vars
<1>3. EditInv /\ call \in Calls => TypeOK
  BY DEF EditInv, TypeOK, Typed
<1>. QED
  BY <1>1, <1>2, <1>3, EditInvariant, PTL DEF Spec

\* No call leaves in the document a link to a node that roxml_del_node has freed.
THEOREM EditLinks == ASSUME Plain PROVE Spec => []NoDanglingLink
<1>1. EditInv => NoDanglingLink
  BY LinkedLinks DEF EditInv, NoDanglingLink
<1>. QED
  BY <1>1, EditInvariant, PTL

\* The last child that roxml_append_other appends after is the end of the list of
\* children, whatever was added at any position and deleted before.
THEOREM EditLast == ASSUME Plain PROVE Spec => []LastChild
<1>1. EditInv => LastChild
  BY LinkedLast DEF EditInv, LastChild
<1>. QED
  BY <1>1, EditInvariant, PTL

\* The lists of children and of attributes and the prnt links tell the same
\* tree after every call.
THEOREM EditParents == ASSUME Plain PROVE Spec => []ParentsAgree
<1>1. EditInv => ParentsAgree
  BY LinkedParents DEF EditInv, ParentsAgree
<1>. QED
  BY <1>1, EditInvariant, PTL

\* roxml_close, which follows the links from the root, frees every node that was
\* allocated and not deleted.
THEOREM EditCloses == ASSUME Plain PROVE Spec => []CloseFreesAll
<1>1. EditInv => CloseFreesAll
  BY DEF EditInv, CloseFreesAll
<1>. QED
  BY <1>1, EditInvariant, PTL

\* The inductive invariant of the namespaces.
NsInv == EditInv /\ (open => Scoped(heap))

LEMMA DelNodeCallScoped ==
    ASSUME Linked(heap), Scoped(heap), Callers = {}, NEW n \in Addr, DelNodeCall(n)
    PROVE  Scoped(heap')
<1>1. n \in Hanging(heap) /\ heap' = DelNode(heap, n)
  BY DEF DelNodeCall, Hanging
<1>2. heap[n].kind = "txt" => /\ FirstText(heap, heap[heap[n].prnt].chld) = n
                              /\ heap[heap[n].prnt].kind # "nsd"
  BY DEF DelNodeCall
<1>3. heap[n].kind = "nsd" => ~UsedUnseen(n)
  BY DEF DelNodeCall
<1>4. Scoped(DelNode(heap, n))
  BY <1>1, <1>2, <1>3, DelNodeScoped
<1>. QED
  BY <1>1, <1>4

LEMMA SetNsCallScoped ==
    ASSUME Linked(heap), Scoped(heap), NEW n \in Addr, NEW d \in Ptr, SetNsCall(n, d)
    PROVE  Scoped(heap')
<1>1. /\ n \in Live(heap) /\ (d # Null => heap[d].kind = "nsd")
      /\ heap' = IF d = Null \/ UnderDef(heap, n, d) THEN SetNs(heap, n, d) ELSE heap
  BY DEF SetNsCall
<1>2. CASE d = Null \/ UnderDef(heap, n, d)
  <2>1. heap' = SetNs(heap, n, d)
    BY <1>1, <1>2
  <2>2. d # Null => heap[d].kind = "nsd" /\ UnderDef(heap, n, d)
    BY <1>1, <1>2
  <2>3. n \in Live(heap)
    BY <1>1
  <2>4. Scoped(SetNs(heap, n, d))
    BY <2>2, <2>3, SetNsScoped
  <2>. QED
    BY <2>1, <2>4
<1>3. CASE ~(d = Null \/ UnderDef(heap, n, d))
  BY <1>1, <1>3
<1>. QED
  BY <1>2, <1>3

\* With callers that do none of the named calls, every node that has a namespace
\* is under the element that declares it, through every add, delete and set.
THEOREM NsInvariant == ASSUME Callers = {} PROVE Spec => []NsInv
<1>0. Plain
  BY DEF Plain
<1>1. Init => NsInv
  <2>1. Init => open /\ Linked(heap) /\ Scoped(heap)
    BY DocsAssumption DEF Init
  <2>. QED
    BY <2>1 DEF NsInv, EditInv, Linked
<1>2. NsInv /\ EditInv' /\ [Next]_vars => NsInv'
  <2>1. CASE UNCHANGED vars
    <3>1. heap' = heap /\ open' = open
      BY <2>1 DEF vars
    <3>2. Scoped(heap') <=> Scoped(heap)
      BY <3>1, Zenon
    <3>. QED
      BY <3>1, <3>2 DEF NsInv
  <2>2. ASSUME NsInv, EditInv', Next
        PROVE  NsInv'
    <3>1. open /\ Linked(heap) /\ Scoped(heap)
      BY <2>2 DEF Next, AddNode, DelNodeCall, SetNsCall, CloseCall, NsInv, EditInv
    <3>2. ASSUME Scoped(heap')
          PROVE  NsInv'
      BY <2>2, <3>2 DEF NsInv
    <3>3. \A p, n, v, b, f : Attached(heap, heap', p, n, v, b, f) => Scoped(heap')
      BY <3>1, AttachedScoped
    <3>4. CASE \E parent \in Addr, position \in 0..MaxPosition, kind \in Added,
                  alias \in Aliases, size \in {1, 2} :
                     AddNode(parent, position, kind, alias, size)
      <4>1. PICK parent \in Addr, position \in 0..MaxPosition, kind \in Added,
                 alias \in Aliases, size \in {1, 2} :
                    AddNode(parent, position, kind, alias, size)
        BY <3>4
      <4>2. \E n, v, b, f : AddedAt(heap, heap', Target(parent, kind), n, v, b, f,
                                  kind, position, size)
        BY <3>1, <4>1, AddNodeIs
      <4>. QED
        BY <3>2, <3>3, <4>2 DEF AddedAt
    <3>5. CASE \E n \in Addr : DelNodeCall(n)
      BY <3>1, <3>2, <3>5, DelNodeCallScoped
    <3>6. CASE \E n \in Addr, d \in Ptr : SetNsCall(n, d)
      BY <3>1, <3>2, <3>6, SetNsCallScoped
    <3>7. CASE CloseCall
      BY <2>2, <3>7 DEF CloseCall, NsInv
    <3>. QED
      BY <2>2, <3>4, <3>5, <3>6, <3>7 DEF Next
  <2>. QED
    BY <2>1, <2>2
<1>3. Spec => []EditInv
  BY <1>0, EditInvariant
<1>. QED
  BY <1>1, <1>2, <1>3, PTL DEF Spec

\* The namespace of every node is declared on an element around it: roxml_set_ns
\* refuses one that is not, roxml_add_node gives a new node that of its parent,
\* and roxml_reset_ns gives the users of a deleted definition one from further up.
THEOREM EditScopes == ASSUME Callers = {} PROVE Spec => []NsInScope
<1>1. NsInv => NsInScope
  BY DEF NsInv, EditInv, NsInScope, Scoped
<1>. QED
  BY <1>1, NsInvariant, PTL

\* No node has for its namespace a definition that roxml_del_node has freed, alone
\* or with the element that declared it.
THEOREM EditNsLinks == ASSUME Callers = {} PROVE Spec => []NoDanglingNs
<1>1. NsInv => NoDanglingNs
  <2>1. CASE open
    BY <2>1, ScopedIs DEF NsInv, EditInv, NoDanglingNs
  <2>2. CASE ~open
    BY <2>2 DEF NsInv, EditInv, NoDanglingNs
  <2>. QED
    BY <2>1, <2>2
<1>. QED
  BY <1>1, NsInvariant, PTL

=============================================================================
