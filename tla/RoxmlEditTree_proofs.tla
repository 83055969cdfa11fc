------------------------- MODULE RoxmlEditTree_proofs -------------------------
(***************************************************************************)
(* That RoxmlEdit implements OrderedTree, for any set of addresses, any    *)
(* documents and any sequence of the calls of RoxmlEdit_proofs (Plain).    *)
(*                                                                         *)
(* The map reads a node's list of children, or of attributes, along sibl   *)
(* (KidsOf, AttrsOf).  A list that is read is the only sequence that the   *)
(* links follow (Chain), so that each call is shown to be one on the       *)
(* ordered tree by giving the new list and checking its links: a node at   *)
(* its place (AddMaps), one less and all that is below it (DeleteMaps), or *)
(* none changed (RenamedMaps).                                             *)
(***************************************************************************)
EXTENDS RoxmlEdit_proofs

-----------------------------------------------------------------------------
(* What the document is as an ordered tree.                                *)

\* The values that RoxmlEdit gives to the variables of OrderedTree.
KindOf(h) == [a \in Addr |-> IF a \in Live(h) THEN h[a].kind ELSE "none"]
KidsOf(h) == [a \in Addr |-> IF a \in Live(h) THEN Children(h, a) ELSE <<>>]
AttrsOf(h) == [a \in Addr |-> IF a \in Live(h) THEN Attributes(h, a) ELSE <<>>]

-----------------------------------------------------------------------------
(* Adding a node.                                                          *)

LEMMA SlotIs ==
    ASSUME NEW l \in Nat, NEW position \in Nat
    PROVE  Slot(l, position) \in 1..(l + 1)
  BY DEF Slot

LEMMA InsertIs ==
    ASSUME NEW s \in Seq(Addr), NEW position \in Nat, NEW n \in Addr
    PROVE  LET t == Tree!Insert(s, position, n)
               i == Slot(Len(s), position)
           IN /\ t \in Seq(Addr) /\ Len(t) = Len(s) + 1
              /\ \A k \in 1..Len(t) : t[k] = IF k < i THEN s[k] ELSE IF k = i THEN n ELSE s[k - 1]
<1>. DEFINE t == Tree!Insert(s, position, n)
            i == Slot(Len(s), position)
<1>1. CASE position = 0 \/ position > Len(s)
  <2>1. t = Append(s, n) /\ i = Len(s) + 1
    BY <1>1 DEF Tree!Insert, Slot
  <2>. HIDE DEF t, i
  <2>2. /\ t \in Seq(Addr) /\ Len(t) = Len(s) + 1
        /\ \A k \in 1..Len(t) : t[k] = IF k < i THEN s[k] ELSE IF k = i THEN n ELSE s[k - 1]
    BY <2>1
  <2>. QED
    BY <2>2 DEF t, i
<1>2. CASE ~(position = 0 \/ position > Len(s))
  <2>. DEFINE a == SubSeq(s, 1, position - 1)
              b == SubSeq(s, position, Len(s))
  <2>1. t = a \o <<n>> \o b /\ i = position
    BY <1>2 DEF Tree!Insert, Slot, Tree!InsertAt
  <2>2. /\ a \in Seq(Addr) /\ Len(a) = position - 1
        /\ \A k \in 1..(position - 1) : a[k] = s[k]
    BY <1>2
  <2>3. /\ b \in Seq(Addr) /\ Len(b) = Len(s) - position + 1
        /\ \A k \in 1..(Len(s) - position + 1) : b[k] = s[position + k - 1]
    BY <1>2
  <2>. DEFINE c == a \o <<n>>
  <2>. HIDE DEF t, i, a, b
  <2>4. /\ c \in Seq(Addr) /\ Len(c) = position
        /\ \A k \in 1..position : c[k] = IF k = position THEN n ELSE a[k]
    BY <2>2
  <2>5. t = c \o b
    BY <2>1
  <2>. HIDE DEF c
  <2>6. /\ t \in Seq(Addr) /\ Len(t) = Len(s) + 1
    <3>1. Len(b) \in Nat /\ Len(c) \in Nat /\ position + Len(b) = Len(s) + 1
      BY <1>2, <2>3, <2>4
    <3>2. t \in Seq(Addr) /\ Len(t) = Len(c) + Len(b)
      BY <2>3, <2>4, <2>5
    <3>. QED
      BY <2>4, <3>1, <3>2
  <2>7. \A k \in 1..Len(t) : t[k] = IF k <= position THEN c[k] ELSE b[k - position]
    BY <1>2, <2>3, <2>4, <2>5, <2>6
  <2>8. ASSUME NEW k \in 1..Len(t)
        PROVE  t[k] = IF k < i THEN s[k] ELSE IF k = i THEN n ELSE s[k - 1]
    <3>1. CASE k < position
      <4>1. k \in 1..position /\ k \in 1..(position - 1)
        BY <3>1
      <4>. QED
        BY <2>1, <2>2, <2>4, <2>7, <3>1, <4>1
    <3>2. CASE k = position
      <4>1. k \in 1..position
        BY <3>2
      <4>. QED
        BY <2>1, <2>4, <2>7, <3>2, <4>1
    <3>3. CASE k > position
      <4>1. k - position \in 1..(Len(s) - position + 1) /\ position + (k - position) - 1 = k - 1
        BY <1>2, <2>6, <3>3
      <4>2. b[k - position] = s[k - 1]
        BY <2>3, <4>1
      <4>. QED
        BY <2>1, <2>7, <3>3, <4>2
    <3>. QED
      BY <3>1, <3>2, <3>3
  <2>. QED
    BY <2>6, <2>8 DEF t, i
<1>. QED
  BY <1>1, <1>2

\* The new node is in the list at its place.
LEMMA ChainInserted ==
    ASSUME NEW h, NEW g, NEW m, NEW s, Chain(h, m, s), NEW n \in Addr, NEW position \in Nat,
           LET i == Slot(Len(s), position)
           IN /\ g[n].sibl = IF i <= Len(s) THEN s[i] ELSE Null
              /\ \A k \in 1..Len(s) : g[s[k]].sibl = IF k = i - 1 THEN n ELSE h[s[k]].sibl
    PROVE  Chain(g, IF Slot(Len(s), position) = 1 THEN n ELSE m, Tree!Insert(s, position, n))
<1>. DEFINE i == Slot(Len(s), position)
            t == Tree!Insert(s, position, n)
            x == IF i = 1 THEN n ELSE m
<1>1. /\ s \in Seq(Addr) /\ Len(s) \in Nat
      /\ IF Len(s) = 0 THEN m = Null ELSE s[1] = m
      /\ \A k \in 1..Len(s) : h[s[k]].sibl = IF k = Len(s) THEN Null ELSE s[k + 1]
  BY DEF Chain
<1>2. i \in 1..(Len(s) + 1)
  BY <1>1, SlotIs
<1>3. /\ t \in Seq(Addr) /\ Len(t) = Len(s) + 1
      /\ \A k \in 1..Len(t) : t[k] = IF k < i THEN s[k] ELSE IF k = i THEN n ELSE s[k - 1]
  BY <1>1, InsertIs
<1>4. /\ g[n].sibl = IF i <= Len(s) THEN s[i] ELSE Null
      /\ \A k \in 1..Len(s) : g[s[k]].sibl = IF k = i - 1 THEN n ELSE h[s[k]].sibl
  OBVIOUS
<1>. HIDE DEF i, t
<1>5. Len(t) # 0 /\ t[1] = x
  BY <1>1, <1>2, <1>3
<1>6. ASSUME NEW k \in 1..Len(t)
      PROVE  g[t[k]].sibl = IF k = Len(t) THEN Null ELSE t[k + 1]
  <2>1. CASE k < i - 1
    <3>1. k \in 1..Len(s) /\ k + 1 \in 1..Len(t) /\ k # i - 1 /\ k # Len(s) /\ k + 1 < i /\ k # Len(t)
      BY <1>1, <1>2, <1>3, <2>1
    <3>2. t[k] = s[k] /\ t[k + 1] = s[k + 1]
      BY <1>2, <1>3, <2>1, <3>1
    <3>. QED
      BY <1>1, <1>4, <3>1, <3>2
  <2>2. CASE k = i - 1
    <3>1. k \in 1..Len(s) /\ k + 1 \in 1..Len(t) /\ k + 1 = i /\ k # Len(t) /\ k < i
      BY <1>1, <1>2, <1>3, <2>2
    <3>2. t[k] = s[k] /\ t[k + 1] = n
      BY <1>2, <1>3, <3>1
    <3>. QED
      BY <1>4, <2>2, <3>1, <3>2
  <2>3. CASE k = i
    <3>1. t[k] = n
      BY <1>3, <2>3
    <3>2. CASE i <= Len(s)
      <4>1. k + 1 \in 1..Len(t) /\ ~(k + 1 < i) /\ k + 1 # i /\ k + 1 - 1 = i /\ k # Len(t)
        BY <1>1, <1>2, <1>3, <2>3, <3>2
      <4>2. t[k + 1] = s[i]
        BY <1>3, <4>1
      <4>. QED
        BY <1>4, <3>1, <3>2, <4>1, <4>2
    <3>3. CASE i = Len(s) + 1
      BY <1>1, <1>3, <1>4, <2>3, <3>1, <3>3
    <3>. QED
      BY <1>1, <1>2, <3>2, <3>3
  <2>4. CASE k > i
    <3>1. k - 1 \in 1..Len(s) /\ k - 1 # i - 1 /\ ~(k < i) /\ k # i
      BY <1>1, <1>2, <1>3, <2>4
    <3>2. t[k] = s[k - 1]
      BY <1>3, <3>1
    <3>3. g[t[k]].sibl = IF k - 1 = Len(s) THEN Null ELSE s[k - 1 + 1]
      BY <1>1, <1>4, <3>1, <3>2
    <3>4. CASE k = Len(t)
      BY <1>1, <1>3, <3>3, <3>4
    <3>5. CASE k # Len(t)
      <4>1. k + 1 \in 1..Len(t) /\ ~(k + 1 < i) /\ k + 1 # i /\ k + 1 - 1 = k - 1 + 1 /\ k - 1 # Len(s)
        BY <1>1, <1>2, <1>3, <2>4, <3>5
      <4>2. t[k + 1] = s[k - 1 + 1]
        BY <1>3, <4>1
      <4>. QED
        BY <3>3, <3>5, <4>1, <4>2
    <3>. QED
      BY <3>4, <3>5
  <2>. QED
    BY <1>2, <1>3, <2>1, <2>2, <2>3, <2>4
<1>7. Chain(g, x, t)
  BY <1>3, <1>5, <1>6 DEF Chain
<1>. QED
  BY <1>7 DEF i, t

\* The lists of a node have nodes that name it for their parent.
LEMMA ListOwner ==
    ASSUME NEW h, Linked(h), NEW a \in Live(h)
    PROVE  /\ h[a].chld \in Ptr /\ h[a].attr \in Ptr
           /\ \A c \in Members(h, h[a].chld) : c \in Live(h) /\ h[c].prnt = a /\ ~IsAttr(h, c)
           /\ \A c \in Members(h, h[a].attr) : c \in Live(h) /\ h[c].prnt = a /\ IsAttr(h, c)
<1>1. Finite(h) /\ Siblings(h) /\ a \in Addr
  BY LinkedFinite, LiveAddr
<1>2. h[a].chld \in Live(h) \cup {Null} /\ h[a].attr \in Live(h) \cup {Null}
  BY DEF Linked, Closed
<1>3. /\ h[a].chld # Null => h[h[a].chld].prnt = a /\ ~IsAttr(h, h[a].chld)
      /\ h[a].attr # Null => h[h[a].attr].prnt = a /\ IsAttr(h, h[a].attr)
  BY DEF Linked, Families
<1>4. Members(h, Null) = {}
  BY <1>1, MembersIs
<1>5. \A k \in Live(h) : \A c \in Members(h, k) :
         c \in Live(h) /\ h[c].prnt = h[k].prnt /\ (IsAttr(h, c) <=> IsAttr(h, k))
  BY <1>1, ListSame
<1>. QED
  BY <1>2, <1>3, <1>4, <1>5, LiveAddr, PtrIs

\* The lists that the new node is not in are the same.
LEMMA AttachedOthers ==
    ASSUME NEW h, NEW g, NEW p, NEW n, NEW v, NEW b, NEW f, Linked(h),
           Attached(h, g, p, n, v, b, f), NEW a \in Live(h)
    PROVE  /\ a # p \/ IsAttr(g, n) => Children(g, a) = Children(h, a)
           /\ a # p \/ ~IsAttr(g, n) => Attributes(g, a) = Attributes(h, a)
<1>1. Finite(h) /\ Finite(g)
  BY AttachedKeeps, LinkedFinite
<1>2. /\ h[a].chld \in Ptr /\ h[a].attr \in Ptr
      /\ \A c \in Members(h, h[a].chld) : c \in Live(h) /\ h[c].prnt = a /\ ~IsAttr(h, c)
      /\ \A c \in Members(h, h[a].attr) : c \in Live(h) /\ h[c].prnt = a /\ IsAttr(h, c)
  BY ListOwner
<1>3. InList(h, p, g[n].kind, b, f)
  BY DEF Attached
<1>4. \A c \in Live(h) :
         /\ g[c].sibl = IF f = "sibl" /\ c = b THEN n ELSE h[c].sibl
         /\ g[c].chld = IF f = "chld" /\ c = b THEN n ELSE h[c].chld
         /\ g[c].attr = IF f = "attr" /\ c = b THEN n ELSE h[c].attr
  BY DEF Attached
<1>5. f = "sibl" => h[b].prnt = p /\ (IsAttr(h, b) <=> IsAttr(g, n))
  BY <1>3 DEF InList, IsAttr, AttrKinds
<1>6. /\ f = "chld" => b = p /\ ~IsAttr(g, n)
      /\ f = "attr" => b = p /\ IsAttr(g, n)
  BY <1>3 DEF InList, IsAttr, AttrKinds
<1>7. ASSUME a # p \/ IsAttr(g, n)
      PROVE  Children(g, a) = Children(h, a)
  <2>1. g[a].chld = h[a].chld
    BY <1>4, <1>6, <1>7
  <2>2. \A c \in Members(h, h[a].chld) : g[c].sibl = h[c].sibl
    BY <1>2, <1>4, <1>5, <1>7
  <2>. QED
    BY <1>1, <1>2, <2>1, <2>2, ChainKept DEF Children
<1>8. ASSUME a # p \/ ~IsAttr(g, n)
      PROVE  Attributes(g, a) = Attributes(h, a)
  <2>1. g[a].attr = h[a].attr
    BY <1>4, <1>6, <1>8
  <2>2. \A c \in Members(h, h[a].attr) : g[c].sibl = h[c].sibl
    BY <1>2, <1>4, <1>5, <1>8
  <2>. QED
    BY <1>1, <1>2, <2>1, <2>2, ChainKept DEF Attributes
<1>. QED
  BY <1>7, <1>8

\* The list that it is in has it where it was asked for.
LEMMA AttachedList ==
    ASSUME NEW h, NEW g, NEW p, NEW n, NEW v, NEW b, NEW f, Linked(h),
           Attached(h, g, p, n, v, b, f), NEW position \in Nat,
           Stands(h, p, g[n].kind, b, f, position)
    PROVE  LET kind == g[n].kind
           IN ListFrom(g, HeadOf(g, p, kind))
                 = Tree!Insert(ListFrom(h, HeadOf(h, p, kind)), position, n)
<1>. DEFINE kind == g[n].kind
            m == HeadOf(h, p, kind)
            s == ListFrom(h, m)
            i == Slot(Len(s), position)
            x == IF i = 1 THEN n ELSE m
<1>1. Finite(h) /\ Finite(g) /\ p \in Live(h) /\ n \in Addr
  <2>1. p \in Live(h) /\ n \in Addr
    BY DEF Attached
  <2>. QED
    BY <2>1, AttachedKeeps, LinkedFinite
<1>2. m \in Ptr
  <2>1. m = Null \/ m \in Live(h)
    BY <1>1, HeadList
  <2>. QED
    BY <2>1, LiveAddr, PtrIs
<1>3. Chain(h, m, s)
  BY <1>1, <1>2, ListChain
<1>4. Members(h, m) = {s[k] : k \in 1..Len(s)}
  BY <1>1, <1>2, ChainMembers
<1>5. \A c \in Members(h, m) : c \in Live(h)
  <2>1. m = h[p].chld \/ m = h[p].attr
    BY DEF HeadOf
  <2>. QED
    BY <1>1, <2>1, ListOwner
<1>6. IF i = 1 THEN f # "sibl" ELSE f = "sibl" /\ b = s[i - 1]
  BY DEF Stands
<1>7. InList(h, p, kind, b, f) /\ g[n].sibl = Link(h, b, f)
  BY DEF Attached
<1>8. \A c \in Live(h) :
         /\ g[c].sibl = IF f = "sibl" /\ c = b THEN n ELSE h[c].sibl
         /\ g[c].chld = IF f = "chld" /\ c = b THEN n ELSE h[c].chld
         /\ g[c].attr = IF f = "attr" /\ c = b THEN n ELSE h[c].attr
  BY DEF Attached
<1>9. HeadOf(g, p, kind) = x
  <2>1. CASE i = 1
    <3>1. f = IF kind \in AttrKinds THEN "attr" ELSE "chld"
      BY <1>6, <1>7, <2>1 DEF InList
    <3>2. b = p
      BY <1>7, <3>1 DEF InList
    <3>. QED
      BY <1>1, <1>8, <2>1, <3>1, <3>2 DEF HeadOf
  <2>2. CASE i # 1
    <3>1. f = "sibl"
      BY <1>6, <2>2
    <3>. QED
      BY <1>1, <1>8, <2>2, <3>1 DEF HeadOf
  <2>. QED
    BY <2>1, <2>2
<1>10. /\ s \in Seq(Addr) /\ Len(s) \in Nat /\ i \in 1..(Len(s) + 1)
       /\ IF Len(s) = 0 THEN m = Null ELSE s[1] = m
       /\ \A k \in 1..Len(s) : h[s[k]].sibl = IF k = Len(s) THEN Null ELSE s[k + 1]
  <2>1. s \in Seq(Addr)
    BY <1>3 DEF Chain
  <2>. HIDE DEF s
  <2>2. Len(s) \in Nat
    BY <2>1
  <2>. QED
    BY <1>3, <2>1, <2>2, SlotIs DEF Chain
<1>11. g[n].sibl = IF i <= Len(s) THEN s[i] ELSE Null
  <2>1. CASE i = 1
    <3>1. Link(h, b, f) = m
      BY <1>6, <1>7, <2>1 DEF InList, Link, HeadOf
    <3>. HIDE DEF s, m, i
    <3>. QED
      BY <1>7, <1>10, <2>1, <3>1
  <2>2. CASE i # 1
    <3>. HIDE DEF s, m, i
    <3>1. Link(h, b, f) = h[s[i - 1]].sibl
      BY <1>6, <2>2 DEF Link
    <3>2. i - 1 \in 1..Len(s) /\ i - 1 + 1 = i /\ (i - 1 = Len(s) <=> ~(i <= Len(s)))
      BY <1>10, <2>2
    <3>. QED
      BY <1>7, <1>10, <3>1, <3>2
  <2>. QED
    BY <2>1, <2>2
<1>12. ASSUME NEW k \in 1..Len(s)
       PROVE  g[s[k]].sibl = IF k = i - 1 THEN n ELSE h[s[k]].sibl
  <2>1. s[k] \in Live(h)
    BY <1>4, <1>5
  <2>2. CASE i = 1
    <3>1. k # i - 1
      BY <1>10, <2>2
    <3>. QED
      BY <1>6, <1>8, <2>1, <2>2, <3>1
  <2>3. CASE i # 1
    <3>. HIDE DEF s, m, i
    <3>1. i - 1 \in 1..Len(s)
      BY <1>10, <2>3
    <3>2. s[k] = s[i - 1] => k = i - 1
      BY <1>1, <1>3, <3>1, ChainOnce
    <3>. QED
      BY <1>6, <1>8, <2>1, <2>3, <3>2
  <2>. QED
    BY <2>2, <2>3
<1>. HIDE DEF s
<1>13. Chain(g, x, Tree!Insert(s, position, n))
  <2>. HIDE DEF m
  <2>. QED
    BY <1>1, <1>3, <1>11, <1>12, ChainInserted
<1>14. x \in Ptr
  BY <1>1, <1>2, PtrIs
<1>15. ListFrom(g, x) = Tree!Insert(s, position, n)
  BY <1>1, <1>13, <1>14, ChainIs
<1>. QED
  BY <1>9, <1>15 DEF s

\* The new node's own lists.
LEMMA AttachedOwn ==
    ASSUME NEW h, NEW g, NEW p, NEW n, NEW v, NEW b, NEW f, Linked(h),
           Attached(h, g, p, n, v, b, f)
    PROVE  /\ Children(g, n) = (IF v = n THEN <<>> ELSE <<v>>) /\ Attributes(g, n) = <<>>
           /\ v # n => Children(g, v) = <<>> /\ Attributes(g, v) = <<>>
<1>1. Finite(g)
  BY AttachedKeeps, LinkedFinite
<1>2. ListFrom(g, Null) = <<>> /\ \A m \in Addr : ListFrom(g, m) = <<m>> \o ListFrom(g, g[m].sibl)
  BY <1>1, ListFromIs
<1>3. /\ g[n].attr = Null /\ v \in Addr
      /\ v = n => g[n].chld = Null
      /\ v # n => g[n].chld = v /\ g[v].sibl = Null /\ g[v].chld = Null /\ g[v].attr = Null
  BY DEF Attached
<1>4. <<v>> \o <<>> = <<v>>
  BY <1>3
<1>5. v # n => ListFrom(g, v) = <<v>>
  BY <1>2, <1>3, <1>4
<1>. QED
  BY <1>2, <1>3, <1>5 DEF Children, Attributes

\* An addition is the one of the ordered tree that was asked for.
LEMMA AddMaps ==
    ASSUME Linked(heap), NEW p, NEW n, NEW v, NEW b, NEW f,
           Attached(heap, heap', p, n, v, b, f), NEW position \in 0..MaxPosition,
           NEW k, k = heap'[n].kind, Stands(heap, p, k, b, f, position),
           NEW at, Tree!Takes(p, at, k), NEW valued \in BOOLEAN, v # n <=> valued
    PROVE  Tree!Add(at, position, k, valued)
<1>0. position \in Nat
  BY Positions, Zenon
<1>1. /\ p \in Live(heap) /\ p \in Addr /\ n \in Addr /\ v \in Addr
      /\ n \notin Live(heap) /\ v \notin Live(heap) /\ p # n /\ p # v
      /\ Live(heap') = Live(heap) \cup {n, v} /\ k \in Kinds
      /\ \A a \in Live(heap) : heap'[a].kind = heap[a].kind
      /\ v # n => heap'[v].kind = "txt"
  <2>1. /\ p \in Live(heap) /\ n \in Addr \ Live(heap) /\ v \in Addr \ Live(heap) /\ k \in Kinds
        /\ v # n => heap'[v].kind = "txt"
        /\ \A a \in Live(heap) : heap'[a].kind = heap[a].kind
    BY DEF Attached
  <2>2. Live(heap') = Live(heap) \cup {n, v}
    BY AttachedLive
  <2>. QED
    BY <2>1, <2>2, LiveAddr
<1>2. /\ \A a \in Live(heap) \ {p} : /\ Children(heap', a) = Children(heap, a)
                                     /\ Attributes(heap', a) = Attributes(heap, a)
      /\ k \in AttrKinds => Children(heap', p) = Children(heap, p)
      /\ k \notin AttrKinds => Attributes(heap', p) = Attributes(heap, p)
  BY <1>1, AttachedOthers DEF IsAttr, AttrKinds
<1>3. /\ k \in AttrKinds => Attributes(heap', p) = Tree!Insert(Attributes(heap, p), position, n)
      /\ k \notin AttrKinds => Children(heap', p) = Tree!Insert(Children(heap, p), position, n)
  <2>1. ListFrom(heap', HeadOf(heap', p, k))
           = Tree!Insert(ListFrom(heap, HeadOf(heap, p, k)), position, n)
    BY <1>0, AttachedList
  <2>. QED
    BY <2>1 DEF HeadOf, Children, Attributes
<1>4. /\ Children(heap', n) = (IF v = n THEN <<>> ELSE <<v>>) /\ Attributes(heap', n) = <<>>
      /\ v # n => Children(heap', v) = <<>> /\ Attributes(heap', v) = <<>>
  BY AttachedOwn
<1>5. "none" \notin Kinds
  BY DEF Kinds
<1>. DEFINE K == KindOf(heap)
            C == KidsOf(heap)
            A == AttrsOf(heap)
<1>6. KindOf(heap') = [K EXCEPT ![v] = "txt", ![n] = k]
  BY <1>1 DEF KindOf
<1>7. KidsOf(heap') = [[C EXCEPT ![n] = IF v = n THEN <<>> ELSE <<v>>]
                         EXCEPT ![p] = IF k \in AttrKinds THEN @
                                       ELSE Tree!Insert(@, position, n)]
  <2>. DEFINE D == [C EXCEPT ![n] = IF v = n THEN <<>> ELSE <<v>>]
              E == [D EXCEPT ![p] = IF k \in AttrKinds THEN @ ELSE Tree!Insert(@, position, n)]
  <2>1. \A a \in Addr : a \notin {n, p} => E[a] = C[a]
    BY DEF KidsOf
  <2>2. E[n] = (IF v = n THEN <<>> ELSE <<v>>)
    BY <1>1 DEF KidsOf
  <2>3. E[p] = IF k \in AttrKinds THEN C[p] ELSE Tree!Insert(C[p], position, n)
    BY <1>1 DEF KidsOf
  <2>4. E = [a \in Addr |-> E[a]]
    BY DEF KidsOf
  <2>. HIDE DEF E, D
  <2>5. ASSUME NEW a \in Addr
        PROVE  E[a] = IF a \in Live(heap') THEN Children(heap', a) ELSE <<>>
    <3>1. CASE a \notin {n, p, v}
      BY <1>1, <1>2, <2>1, <3>1 DEF KidsOf
    <3>2. CASE a = n
      BY <1>1, <1>4, <2>2, <3>2
    <3>3. CASE a = v /\ v # n
      BY <1>1, <1>4, <2>1, <3>3 DEF KidsOf
    <3>4. CASE a = p
      BY <1>1, <1>2, <1>3, <2>3, <3>4 DEF KidsOf
    <3>. QED
      BY <3>1, <3>2, <3>3, <3>4
  <2>6. KidsOf(heap') = E
    BY <2>4, <2>5 DEF KidsOf
  <2>. QED
    BY <2>6 DEF E, D
<1>8. AttrsOf(heap') = [A EXCEPT ![p] = IF k \in AttrKinds
                                       THEN Tree!Insert(@, position, n) ELSE @]
  <2>. DEFINE E == [A EXCEPT ![p] = IF k \in AttrKinds THEN Tree!Insert(@, position, n) ELSE @]
  <2>1. \A a \in Addr : a # p => E[a] = A[a]
    BY DEF AttrsOf
  <2>2. E[p] = IF k \in AttrKinds THEN Tree!Insert(A[p], position, n) ELSE A[p]
    BY <1>1 DEF AttrsOf
  <2>3. E = [a \in Addr |-> E[a]]
    BY DEF AttrsOf
  <2>. HIDE DEF E
  <2>4. ASSUME NEW a \in Addr
        PROVE  E[a] = IF a \in Live(heap') THEN Attributes(heap', a) ELSE <<>>
    <3>1. CASE a \notin {n, p, v}
      BY <1>1, <1>2, <2>1, <3>1 DEF AttrsOf
    <3>2. CASE a \in {n, v}
      BY <1>1, <1>4, <2>1, <3>2 DEF AttrsOf
    <3>3. CASE a = p
      BY <1>1, <1>2, <1>3, <2>2, <3>3 DEF AttrsOf
    <3>. QED
      BY <3>1, <3>2, <3>3
  <2>5. AttrsOf(heap') = E
    BY <2>3, <2>4 DEF AttrsOf
  <2>. QED
    BY <2>5 DEF E
<1>9. KindOf(heap)[n] = "none" /\ KindOf(heap')[n] = k /\ KindOf(heap)[p] # "none" /\ KindOf(heap)[v] = "none"
  BY <1>1, <1>5 DEF KindOf, Live
<1>10. n \notin Tree!Alive /\ v \notin Tree!Alive
  BY <1>9 DEF Tree!Alive, KindOf
<1>. QED
  BY <1>1, <1>6, <1>7, <1>8, <1>10 DEF Tree!Add, Tree!AttrKinds, AttrKinds, KindOf, KidsOf, AttrsOf

-----------------------------------------------------------------------------
(* What is below a node.                                                   *)

\* The children and attributes of a node.
Kin(h, a) == {c \in Hanging(h) : h[c].prnt = a}

Kinship(h) == {e \in Addr \X Addr : e[2] \in Kin(h, e[1])}

LEMMA KinIs ==
    ASSUME NEW h, Linked(h), NEW a \in Live(h)
    PROVE  /\ Kin(h, a) = Members(h, h[a].chld) \cup Members(h, h[a].attr)
           /\ Members(h, h[a].chld) \cap Members(h, h[a].attr) = {}
           /\ Kin(h, a) \subseteq Live(h)
<1>1. /\ \A c \in Members(h, h[a].chld) : c \in Live(h) /\ h[c].prnt = a /\ ~IsAttr(h, c)
      /\ \A c \in Members(h, h[a].attr) : c \in Live(h) /\ h[c].prnt = a /\ IsAttr(h, c)
  BY ListOwner
<1>2. h[Root].prnt = Null /\ a # Null
  BY LiveAddr DEF Linked, Rooted
<1>3. \A c \in Kin(h, a) : c \in Members(h, ListOf(h, c)) /\ ListOf(h, c) \in {h[a].chld, h[a].attr}
  BY Listed DEF Kin, ListOf
<1>. QED
  BY <1>1, <1>2, <1>3 DEF Kin, Hanging

\* Going down from parent to child ends.
LEMMA KinshipFounded ==
    ASSUME NEW h, Linked(h)
    PROVE  WellFounded(Addr, Kinship(h))
<1>0. Finite(h)
  BY LinkedFinite
<1>1. SUFFICES ASSUME NEW T \in SUBSET Addr, T # {},
                      \A a \in T : \E b \in T : <<a, b>> \in Kinship(h)
               PROVE  FALSE
  BY DEF WellFounded
<1>. DEFINE U == {x \in Addr : Members(h, x) \cap T # {}}
<1>2. T \subseteq U
  BY <1>0, <1>1, MembersIs
<1>3. PICK x \in U : \A y \in U : <<x, y>> \notin Edges(h)
  <2>1. U \in SUBSET Addr /\ U # {}
    BY <1>1, <1>2
  <2>. HIDE DEF U
  <2>. QED
    BY <1>0, <2>1, FiniteFounds DEF WellFounded
<1>4. x \in Addr /\ h[x].sibl \in Ptr
  BY <1>0, NodeFields DEF Finite
<1>5. CASE x \in T
  <2>1. PICK b \in T : b \in Hanging(h) /\ h[b].prnt = x
    BY <1>1, <1>5 DEF Kinship, Kin
  <2>2. ListOf(h, b) \in Live(h) /\ b \in Members(h, ListOf(h, b)) /\ ListOf(h, b) \in {h[x].chld, h[x].attr}
    BY <2>1, Listed DEF ListOf
  <2>3. ListOf(h, b) \in U
    BY <2>1, <2>2, LiveAddr
  <2>. QED
    BY <1>3, <1>4, <2>2, <2>3, LiveAddr, EdgeIs
<1>6. CASE x \notin T
  <2>1. PICK b \in T : b \in Members(h, h[x].sibl)
    BY <1>0, <1>4, <1>6, MembersIs
  <2>2. h[x].sibl \in Addr
    BY <1>0, <1>4, <2>1, MembersIs, PtrIs
  <2>3. h[x].sibl \in U
    BY <2>1, <2>2
  <2>. QED
    BY <1>3, <1>4, <2>2, <2>3, EdgeIs
<1>. QED
  BY <1>5, <1>6

\* They are what the ordered tree has for the node.
LEMMA TreeMembers ==
    ASSUME Linked(heap), NEW m \in Addr
    PROVE  /\ m \in Live(heap) => Tree!Members(m) = Kin(heap, m)
           /\ m \notin Live(heap) => Tree!Members(m) = {} /\ Kin(heap, m) = {}
<1>1. Tree!Members(m) = Tree!ToSet(KidsOf(heap)[m]) \cup Tree!ToSet(AttrsOf(heap)[m])
  BY DEF Tree!Members, KidsOf, AttrsOf
<1>2. \A s : Tree!ToSet(s) = ToSet(s)
  BY DEF Tree!ToSet, ToSet
<1>3. CASE m \in Live(heap)
  <2>1. KidsOf(heap)[m] = Children(heap, m) /\ AttrsOf(heap)[m] = Attributes(heap, m)
    BY <1>3 DEF KidsOf, AttrsOf
  <2>. QED
    BY <1>1, <1>2, <1>3, <2>1, KinIs DEF Children, Attributes, Members
<1>4. CASE m \notin Live(heap)
  <2>1. KidsOf(heap)[m] = <<>> /\ AttrsOf(heap)[m] = <<>>
    BY <1>4 DEF KidsOf, AttrsOf
  <2>2. ToSet(<<>>) = {}
    BY DEF ToSet
  <2>3. \A c \in Hanging(heap) : heap[c].prnt # m
    BY <1>4, Listed
  <2>. QED
    BY <1>1, <1>2, <1>4, <2>1, <2>2, <2>3 DEF Kin
<1>. QED
  BY <1>3, <1>4

LEMMA TreeSubtreeIs ==
    ASSUME Linked(heap), NEW n \in Addr
    PROVE  Tree!Subtree(n) = {n} \cup UNION {Tree!Subtree(c) : c \in Kin(heap, n)}
<1>. DEFINE sub[m \in Addr] == {m} \cup UNION {sub[c] : c \in Tree!Members(m)}
            V == SUBSET Addr
            F == [k \in Addr |-> [f \in [Addr -> V] |->
                    {k} \cup UNION {f[c] : c \in Kin(heap, k)}]]
<1>1. \A k : Tree!Subtree(k) = sub[k]
  BY DEF Tree!Subtree
<1>2. \A k \in Addr : Tree!Members(k) = Kin(heap, k) /\ Kin(heap, k) \subseteq Addr
  BY TreeMembers, LiveAddr DEF Kin, Hanging
<1>3. \A k, c \in Addr : c \in Kin(heap, k) => <<k, c>> \in Kinship(heap)
  BY DEF Kinship
<1>4. Follows(Addr, V, Kinship(heap), F)
  <2>1. \A k \in Addr : \A f \in [Addr -> V] :
           {k} \cup UNION {f[c] : c \in Kin(heap, k)} \in V
    BY <1>2
  <2>2. F \in [Addr -> [[Addr -> V] -> V]]
    <3>. HIDE DEF V
    <3>. QED
      BY <2>1
  <2>. HIDE DEF V
  <2>3. \A a \in Addr : \A f, g \in [Addr -> V] :
           (\A b \in Addr : <<a, b>> \in Kinship(heap) => f[b] = g[b]) => F[a][f] = F[a][g]
    <3>. SUFFICES ASSUME NEW a \in Addr, NEW f \in [Addr -> V], NEW g \in [Addr -> V],
                         \A b \in Addr : <<a, b>> \in Kinship(heap) => f[b] = g[b]
                  PROVE  F[a][f] = F[a][g]
      <4>. HIDE DEF F
      <4>. QED
        OBVIOUS
    <3>1. \A c \in Kin(heap, a) : f[c] = g[c]
      BY <1>2, <1>3
    <3>2. {f[c] : c \in Kin(heap, a)} = {g[c] : c \in Kin(heap, a)}
      BY <3>1
    <3>. QED
      BY <3>2
  <2>. HIDE DEF F
  <2>. QED
    BY <2>2, <2>3 DEF Follows
<1>5. PICK f \in [Addr -> V] : \A k \in Addr : f[k] = F[k][f]
  <2>1. V # {}
    OBVIOUS
  <2>. HIDE DEF F, V
  <2>. QED
    BY <1>4, <2>1, KinshipFounded, Recursion
<1>6. f = [k \in Addr |-> {k} \cup UNION {f[c] : c \in Tree!Members(k)}]
  <2>. HIDE DEF V
  <2>1. \A k \in Addr : f[k] = {k} \cup UNION {f[c] : c \in Tree!Members(k)}
    BY <1>2, <1>5
  <2>. QED
    BY <2>1
<1>7. sub = [k \in Addr |-> {k} \cup UNION {sub[c] : c \in Tree!Members(k)}]
  BY <1>6
<1>. HIDE DEF sub
<1>8. sub[n] = {n} \cup UNION {sub[c] : c \in Kin(heap, n)}
  BY <1>2, <1>7
<1>. QED
  BY <1>1, <1>8

\* A set is what is below n when the parents of the others are in it, and the
\* nodes whose parents are in it are in it.
LEMMA TreeSubtree ==
    ASSUME Linked(heap), NEW n \in Addr, NEW S, n \in S, S \subseteq Live(heap),
           \A c \in S \ {n} : c \in Hanging(heap) /\ heap[c].prnt \in S,
           \A c \in Hanging(heap) : heap[c].prnt \in S => c \in S
    PROVE  Tree!Subtree(n) = S
<1>0. \A a \in Addr : /\ Tree!Subtree(a) = {a} \cup UNION {Tree!Subtree(c) : c \in Kin(heap, a)}
                      /\ Kin(heap, a) \subseteq Addr
  BY TreeSubtreeIs, LiveAddr DEF Kin, Hanging
<1>1. \A a, c \in Addr : c \in Kin(heap, a) => <<a, c>> \in Kinship(heap)
  BY DEF Kinship
<1>. DEFINE X(a) == Tree!Subtree(a)
            T == {a \in Addr : a \in S => X(a) \subseteq S}
            C == {a \in Addr : \A m \in X(a) : Kin(heap, m) \subseteq X(a)}
            U == {a \in Addr : a \in S => a \in X(n)}
<1>. HIDE DEF X
<1>2. \A a \in Addr : X(a) = {a} \cup UNION {X(c) : c \in Kin(heap, a)}
  BY <1>0 DEF X
<1>3. Addr \subseteq T
  <2>1. ASSUME NEW a \in Addr, \A c \in Addr : <<a, c>> \in Kinship(heap) => c \in T
        PROVE  a \in T
    <3>. SUFFICES ASSUME a \in S
                  PROVE  X(a) \subseteq S
      OBVIOUS
    <3>1. \A c \in Kin(heap, a) : c \in S /\ c \in T
      BY <1>0, <1>1, <2>1 DEF Kin
    <3>. QED
      BY <1>2, <3>1
  <2>. HIDE DEF T
  <2>. QED
    BY <2>1, KinshipFounded, Induction
<1>4. Addr \subseteq C
  <2>1. ASSUME NEW a \in Addr, \A c \in Addr : <<a, c>> \in Kinship(heap) => c \in C
        PROVE  a \in C
    <3>1. \A c \in Kin(heap, a) : c \in Addr
      BY <1>0
    <3>2. \A c \in Kin(heap, a) : c \in C
      <4>. HIDE DEF C
      <4>. QED
        BY <1>1, <2>1, <3>1
    <3>3. \A c \in Kin(heap, a) : c \in X(c)
      BY <1>2, <3>1
    <3>4. \A c \in Kin(heap, a) : X(c) \subseteq X(a)
      BY <1>2
    <3>5. \A c \in Kin(heap, a) : c \in C /\ c \in X(c) /\ X(c) \subseteq X(a)
      BY <3>2, <3>3, <3>4
    <3>6. \A m \in X(a) : m = a \/ \E c \in Kin(heap, a) : m \in X(c)
      BY <1>2
    <3>7. ASSUME NEW m \in X(a)
          PROVE  Kin(heap, m) \subseteq X(a)
      <4>1. CASE m = a
        BY <3>5, <4>1
      <4>2. CASE m # a
        BY <3>5, <3>6, <4>2
      <4>. QED
        BY <4>1, <4>2
    <3>. QED
      BY <3>7
  <2>. HIDE DEF C
  <2>. QED
    BY <2>1, KinshipFounded, Induction
<1>5. Addr \subseteq U
  <2>1. ASSUME NEW a \in Addr, \A c \in Addr : <<a, c>> \in Parents(heap) => c \in U
        PROVE  a \in U
    <3>. SUFFICES ASSUME a \in S
                  PROVE  a \in X(n)
      OBVIOUS
    <3>1. CASE a = n
      BY <1>2, <3>1
    <3>2. CASE a # n
      <4>1. a \in Hanging(heap) /\ heap[a].prnt \in S /\ heap[a].prnt \in Addr
        BY <3>2, LiveAddr
      <4>2. heap[a].prnt \in X(n)
        BY <2>1, <4>1 DEF Parents
      <4>3. a \in Kin(heap, heap[a].prnt)
        BY <4>1 DEF Kin
      <4>. QED
        BY <1>4, <4>2, <4>3
    <3>. QED
      BY <3>1, <3>2
  <2>. HIDE DEF U
  <2>. QED
    BY <2>1, ParentsFounded, Induction
<1>6. X(n) \subseteq S
  BY <1>3
<1>7. S \subseteq X(n)
  BY <1>5, LiveAddr
<1>. QED
  BY <1>6, <1>7 DEF X

LEMMA TreeAlive ==
    ASSUME Linked(heap)
    PROVE  Tree!Alive = Live(heap)
<1>1. \A a \in Live(heap) : heap[a].kind # "none" /\ a \in Addr
  BY LiveAddr DEF Live, Kinds
<1>. QED
  BY <1>1 DEF Tree!Alive

\* What is below the root is the document.
LEMMA TreeRoot ==
    ASSUME Linked(heap)
    PROVE  Root \in Addr /\ Root \in Live(heap) /\ Tree!Subtree(Root) = Live(heap)
<1>1. Root \in Live(heap) /\ Root \in Addr
  BY LiveAddr DEF Linked, Rooted
<1>2. \A c \in Live(heap) \ {Root} : c \in Hanging(heap) /\ heap[c].prnt \in Live(heap)
  BY Listed DEF Hanging
<1>3. \A c \in Hanging(heap) : c \in Live(heap)
  BY DEF Hanging
<1>4. Tree!Subtree(Root) = Live(heap)
  BY <1>1, <1>2, <1>3, TreeSubtree
<1>. QED
  BY <1>1, <1>4

LEMMA InitMaps ==
    ASSUME Linked(heap), call = [op |-> "open"]
    PROVE  Tree!Init
<1>1. /\ Root \in Addr /\ Root \in Live(heap) /\ Tree!Subtree(Root) = Live(heap)
      /\ Tree!Alive = Live(heap) /\ Finite(heap)
  BY TreeRoot, TreeAlive, LinkedFinite
<1>2. \A m \in Ptr : Tree!IsInjective(ListFrom(heap, m))
  <2>. SUFFICES ASSUME NEW m \in Ptr
                PROVE  Tree!IsInjective(ListFrom(heap, m))
    OBVIOUS
  <2>. DEFINE s == ListFrom(heap, m)
  <2>1. Chain(heap, m, s) /\ s \in Seq(Addr)
    BY <1>1, ListChain DEF Chain
  <2>. HIDE DEF s
  <2>2. \A i, j \in 1..Len(s) : s[i] = s[j] => i = j
    BY <1>1, <2>1, ChainOnce
  <2>3. Tree!IsInjective(s)
    BY <2>1, <2>2 DEF Tree!IsInjective
  <2>. QED
    BY <2>3 DEF s
<1>3. \A m \in Addr : /\ heap[m].chld \in Ptr /\ heap[m].attr \in Ptr
  BY <1>1, NodeFields DEF Finite
<1>4. Tree!IsInjective(<<>>)
  BY DEF Tree!IsInjective
<1>5. \A s : Tree!ToSet(s) = ToSet(s)
  BY DEF Tree!ToSet, ToSet
<1>6. ToSet(<<>>) = {}
  BY DEF ToSet
<1>7. ASSUME NEW m \in Addr
      PROVE  /\ Tree!IsInjective(KidsOf(heap)[m]) /\ Tree!IsInjective(AttrsOf(heap)[m])
             /\ Tree!ToSet(KidsOf(heap)[m]) \cap Tree!ToSet(AttrsOf(heap)[m]) = {}
  <2>1. CASE m \in Live(heap)
    <3>1. KidsOf(heap)[m] = Children(heap, m) /\ AttrsOf(heap)[m] = Attributes(heap, m)
      BY <2>1 DEF KidsOf, AttrsOf
    <3>2. Members(heap, heap[m].chld) \cap Members(heap, heap[m].attr) = {}
      BY <2>1, KinIs
    <3>. QED
      BY <1>2, <1>3, <1>5, <3>1, <3>2 DEF Children, Attributes, Members
  <2>2. CASE m \notin Live(heap)
    <3>1. KidsOf(heap)[m] = <<>> /\ AttrsOf(heap)[m] = <<>>
      BY <2>2 DEF KidsOf, AttrsOf
    <3>. QED
      BY <1>4, <1>5, <1>6, <3>1
  <2>. QED
    BY <2>1, <2>2
<1>8. \A m \in Addr : Tree!Members(m) = Kin(heap, m)
  BY TreeMembers
<1>9. \A m, o \in Addr : m # o => Tree!Members(m) \cap Tree!Members(o) = {}
  BY <1>8 DEF Kin
<1>10. UNION {Tree!Members(m) : m \in Addr} = Tree!Alive \ {Root}
  <2>1. \A c \in Hanging(heap) : heap[c].prnt \in Addr /\ c \in Kin(heap, heap[c].prnt)
    BY Listed, LiveAddr DEF Kin
  <2>2. \A m \in Addr : Kin(heap, m) \subseteq Hanging(heap)
    BY DEF Kin
  <2>3. Hanging(heap) = Tree!Alive \ {Root}
    BY <1>1 DEF Hanging
  <2>. QED
    BY <1>8, <2>1, <2>2, <2>3
<1>11. KindOf(heap)[Root] # "none"
  BY <1>1 DEF KindOf, Linked, Rooted
<1>. QED
  BY <1>1, <1>7, <1>9, <1>10, <1>11 DEF Tree!Init, KindOf, KidsOf, AttrsOf


-----------------------------------------------------------------------------
(* Deleting a node.                                                        *)

\* The list without the node at one place.
LEMMA RemovedIs ==
    ASSUME NEW s \in Seq(Addr), NEW i \in 1..Len(s)
    PROVE  LET t == Tree!RemoveAt(s, i)
           IN /\ t \in Seq(Addr) /\ Len(t) = Len(s) - 1
              /\ \A k \in 1..Len(t) : t[k] = IF k < i THEN s[k] ELSE s[k + 1]
<1>. DEFINE a == SubSeq(s, 1, i - 1)
            b == SubSeq(s, i + 1, Len(s))
            t == Tree!RemoveAt(s, i)
<1>0. i \in Nat /\ Len(s) \in Nat /\ 1 <= i /\ i <= Len(s)
  OBVIOUS
<1>1. t = a \o b
  BY DEF Tree!RemoveAt
<1>2. /\ a \in Seq(Addr) /\ Len(a) = i - 1
      /\ \A k \in 1..(i - 1) : a[k] = s[k]
  BY <1>0
<1>3. /\ b \in Seq(Addr) /\ Len(b) = Len(s) - i
      /\ \A k \in 1..(Len(s) - i) : b[k] = s[i + k]
  BY <1>0
<1>. HIDE DEF a, b, t
<1>4. t \in Seq(Addr) /\ Len(t) = Len(s) - 1
  <2>1. a \in Seq(Addr) /\ b \in Seq(Addr)
    BY <1>2, <1>3
  <2>2. t \in Seq(Addr) /\ Len(t) = Len(a) + Len(b)
    BY <1>1, <2>1
  <2>. QED
    BY <1>0, <1>2, <1>3, <2>2
<1>5. \A k \in 1..Len(t) : t[k] = IF k <= Len(a) THEN a[k] ELSE b[k - Len(a)]
  BY <1>1, <1>2, <1>3
<1>6. ASSUME NEW k \in 1..Len(t)
      PROVE  t[k] = IF k < i THEN s[k] ELSE s[k + 1]
  <2>1. CASE k < i
    <3>1. k \in 1..(i - 1) /\ k <= Len(a)
      BY <1>0, <1>2, <1>4, <2>1
    <3>. QED
      BY <1>2, <1>5, <2>1, <3>1
  <2>2. CASE ~(k < i)
    <3>1. k - Len(a) \in 1..(Len(s) - i) /\ i + (k - Len(a)) = k + 1 /\ ~(k <= Len(a))
      BY <1>0, <1>2, <1>4, <2>2
    <3>. QED
      BY <1>3, <1>5, <2>2, <3>1
  <2>. QED
    BY <2>1, <2>2
<1>. QED
  BY <1>4, <1>6 DEF t

\* The node is not in the list any more; who led to it goes on as it did.
LEMMA ChainDropped ==
    ASSUME NEW h, NEW g, Finite(h), NEW m, NEW s, Chain(h, m, s), NEW n \in Addr,
           NEW i \in 1..Len(s), s[i] = n,
           \A k \in 1..Len(s) : k # i =>
              g[s[k]].sibl = IF k = i - 1 THEN h[n].sibl ELSE h[s[k]].sibl
    PROVE  /\ Chain(g, IF i = 1 THEN h[n].sibl ELSE m, Tree!Dropped(s, n))
           /\ Len(Tree!Dropped(s, n)) = Len(s) - 1
<1>. DEFINE t == Tree!RemoveAt(s, i)
            x == IF i = 1 THEN h[n].sibl ELSE m
<1>1. /\ s \in Seq(Addr) /\ Len(s) \in Nat
      /\ IF Len(s) = 0 THEN m = Null ELSE s[1] = m
      /\ \A k \in 1..Len(s) : h[s[k]].sibl = IF k = Len(s) THEN Null ELSE s[k + 1]
  BY DEF Chain
<1>2. i \in Nat /\ 1 <= i /\ i <= Len(s)
  BY <1>1
<1>3. Tree!Dropped(s, n) = t
  <2>1. DOMAIN s = 1..Len(s)
    BY <1>1
  <2>2. n \in ToSet(s) /\ n \in Tree!ToSet(s)
    BY <2>1 DEF ToSet, Tree!ToSet
  <2>3. \A k \in 1..Len(s) : s[k] = n => k = i
    BY ChainOnce
  <2>. DEFINE c == CHOOSE k \in DOMAIN s : s[k] = n
  <2>4. c \in DOMAIN s /\ s[c] = n
    <3>1. \E k \in DOMAIN s : s[k] = n
      BY <2>1
    <3>. QED
      BY <3>1, Zenon
  <2>. HIDE DEF c
  <2>5. c = i
    BY <2>1, <2>3, <2>4
  <2>. QED
    BY <2>2, <2>5 DEF Tree!Dropped, c
<1>4. /\ t \in Seq(Addr) /\ Len(t) = Len(s) - 1
      /\ \A k \in 1..Len(t) : t[k] = IF k < i THEN s[k] ELSE s[k + 1]
  BY <1>1, RemovedIs
<1>5. h[n].sibl = IF i = Len(s) THEN Null ELSE s[i + 1]
  BY <1>1
<1>6. \A k \in 1..Len(s) : k # i =>
         g[s[k]].sibl = IF k = i - 1 THEN h[n].sibl ELSE h[s[k]].sibl
  OBVIOUS
<1>. HIDE DEF t
<1>7. IF Len(t) = 0 THEN x = Null ELSE t[1] = x
  <2>1. CASE Len(t) = 0
    <3>1. Len(t) = Len(s) - 1 /\ Len(s) \in Nat
      BY <1>1, <1>4
    <3>2. Len(s) - 1 = 0
      BY <2>1, <3>1, Zenon
    <3>3. \A j, l \in Nat : 1 <= j /\ j <= l /\ l - 1 = 0 => j = 1 /\ j = l
      OBVIOUS
    <3>4. i = 1 /\ i = Len(s)
      BY <1>1, <1>2, <3>2, <3>3, Zenon
    <3>. QED
      BY <1>5, <2>1, <3>4
  <2>2. CASE Len(t) # 0
    <3>1. 1 \in 1..Len(t)
      BY <1>1, <1>2, <1>4, <2>2
    <3>2. t[1] = IF 1 < i THEN s[1] ELSE s[2]
      BY <1>4, <3>1
    <3>. QED
      BY <1>1, <1>2, <1>4, <1>5, <2>2, <3>2
  <2>. QED
    BY <2>1, <2>2
<1>8. ASSUME NEW k \in 1..Len(t)
      PROVE  g[t[k]].sibl = IF k = Len(t) THEN Null ELSE t[k + 1]
  <2>0. k \in Nat /\ 1 <= k /\ k <= Len(t) /\ k # Len(t) => k + 1 \in 1..Len(t)
    BY <1>1, <1>2, <1>4
  <2>1. CASE k < i - 1
    <3>1. k \in 1..Len(s) /\ k # i /\ k # i - 1 /\ k # Len(s) /\ k # Len(t) /\ k + 1 < i /\ k < i
          /\ k + 1 \in 1..Len(t)
      BY <1>1, <1>2, <1>4, <2>1
    <3>2. t[k] = s[k] /\ t[k + 1] = s[k + 1]
      BY <1>4, <3>1
    <3>. QED
      BY <1>1, <1>6, <3>1, <3>2
  <2>2. CASE k = i - 1
    <3>1. k \in 1..Len(s) /\ k # i /\ k < i /\ ~(k + 1 < i) /\ k + 1 = i
      BY <1>1, <1>2, <1>4, <2>2
    <3>2. t[k] = s[k] /\ g[s[k]].sibl = h[n].sibl
      BY <1>4, <1>6, <2>2, <3>1
    <3>3. CASE k = Len(t)
      BY <1>1, <1>2, <1>4, <1>5, <3>1, <3>2, <3>3
    <3>4. CASE k # Len(t)
      <4>1. k + 1 \in 1..Len(t) /\ i # Len(s)
        BY <1>1, <1>2, <1>4, <3>1, <3>4
      <4>2. t[k + 1] = s[i + 1]
        BY <1>4, <3>1, <4>1
      <4>. QED
        BY <1>5, <3>2, <3>4, <4>1, <4>2
    <3>. QED
      BY <3>3, <3>4
  <2>3. CASE k >= i
    <3>1. k + 1 \in 1..Len(s) /\ k + 1 # i /\ k + 1 # i - 1 /\ ~(k < i)
      BY <1>1, <1>2, <1>4, <2>3
    <3>2. t[k] = s[k + 1] /\ g[s[k + 1]].sibl = h[s[k + 1]].sibl
      BY <1>4, <1>6, <3>1
    <3>3. h[s[k + 1]].sibl = IF k + 1 = Len(s) THEN Null ELSE s[k + 1 + 1]
      BY <1>1, <3>1
    <3>4. k = Len(t) <=> k + 1 = Len(s)
      BY <1>1, <1>2, <1>4
    <3>5. CASE k = Len(t)
      BY <3>2, <3>3, <3>4, <3>5
    <3>6. CASE k # Len(t)
      <4>1. k + 1 \in 1..Len(t) /\ ~(k + 1 < i)
        BY <1>1, <1>2, <1>4, <2>3, <3>6
      <4>2. t[k + 1] = s[k + 1 + 1]
        BY <1>4, <4>1
      <4>. QED
        BY <3>2, <3>3, <3>4, <3>6, <4>2
    <3>. QED
      BY <3>5, <3>6
  <2>. QED
    BY <1>2, <2>0, <2>1, <2>2, <2>3
<1>9. Chain(g, x, t)
  BY <1>4, <1>7, <1>8 DEF Chain
<1>. QED
  BY <1>3, <1>4, <1>9

\* A list that the node is not in.
LEMMA DroppedSame ==
    ASSUME NEW s, NEW n, n \notin ToSet(s)
    PROVE  Tree!Dropped(s, n) = s
  BY DEF Tree!Dropped, Tree!ToSet, ToSet

\* What is left of the lists: the nodes that stay go on as they did, but for
\* the one that led to n.
LEMMA FreedSteps ==
    ASSUME NEW h, NEW u, NEW n, NEW b, NEW f, Linked(h), Detached(h, u, n, b, f),
           NEW a \in Live(Freed(u, n))
    PROVE  LET g == Freed(u, n)
           IN /\ a \in Live(h) /\ a # n
              /\ g[a].chld = IF f = "chld" /\ a = b THEN h[n].sibl ELSE h[a].chld
              /\ g[a].attr = IF f = "attr" /\ a = b THEN h[n].sibl ELSE h[a].attr
              /\ \A c \in Live(h) : h[c].prnt = a /\ c # n =>
                    g[c].sibl = IF f = "sibl" /\ c = b THEN h[n].sibl ELSE h[c].sibl
<1>. DEFINE g == Freed(u, n)
            S == Subtree(u, n)
<1>1. /\ Live(g) = Live(h) \ S
      /\ \A c \in Live(g) : g[c] = u[c] /\ c # n
  BY FreedIs
<1>2. \A c \in S \ {n} : h[c].prnt \in S
  BY SubtreeDown
<1>3. \A c \in Live(h) : /\ u[c].sibl = IF f = "sibl" /\ c = b THEN h[n].sibl ELSE h[c].sibl
                         /\ u[c].chld = IF f = "chld" /\ c = b THEN h[n].sibl ELSE h[c].chld
                         /\ u[c].attr = IF f = "attr" /\ c = b THEN h[n].sibl ELSE h[c].attr
  BY LiveAddr DEF Detached
<1>. HIDE DEF g, S
<1>4. a \in Live(h) /\ a \notin S /\ a # n /\ g[a] = u[a]
  BY <1>1 DEF g
<1>5. \A c \in Live(h) : h[c].prnt = a /\ c # n => g[c] = u[c]
  BY <1>1, <1>2, <1>4
<1>. QED
  BY <1>3, <1>4, <1>5 DEF g

\* Where the link that led to n is.
LEMMA LeadsTo ==
    ASSUME NEW h, NEW u, NEW n, NEW b, NEW f, Linked(h), Detached(h, u, n, b, f)
    PROVE  /\ n \in Live(h) /\ n # Null /\ n \in Addr /\ b \in Live(h) /\ f \in {"sibl", "chld", "attr"}
           /\ f = "sibl" => h[b].sibl = n /\ h[b].prnt = h[n].prnt /\ (IsAttr(h, n) <=> IsAttr(h, b))
           /\ f = "chld" => h[b].chld = n /\ b = h[n].prnt /\ ~IsAttr(h, n)
           /\ f = "attr" => h[b].attr = n /\ b = h[n].prnt /\ IsAttr(h, n)
<1>1. b \in Live(h) /\ f \in {"sibl", "chld", "attr"} /\ Link(h, b, f) = n
  BY DEF Detached
<1>2. n \in Live(h) /\ n # Null
  BY DetachedLinks
<1>3. \/ f = "sibl" /\ h[b].sibl = n
      \/ f = "chld" /\ h[b].chld = n
      \/ f = "attr" /\ h[b].attr = n
  BY <1>1 DEF Link
<1>4. /\ h[b].sibl = n => h[n].prnt = h[b].prnt /\ (IsAttr(h, n) <=> IsAttr(h, b))
      /\ h[b].chld = n => h[n].prnt = b /\ ~IsAttr(h, n)
      /\ h[b].attr = n => h[n].prnt = b /\ IsAttr(h, n)
  BY <1>1, <1>2 DEF Linked, Families
<1>. QED
  BY <1>1, <1>2, <1>3, <1>4, LiveAddr

\* The lists that n was not in are the same.
LEMMA FreedOthers ==
    ASSUME NEW h, NEW u, NEW n, NEW b, NEW f, Linked(h), Detached(h, u, n, b, f),
           NEW a \in Live(Freed(u, n))
    PROVE  LET g == Freed(u, n)
           IN /\ a # h[n].prnt \/ IsAttr(h, n) => Children(g, a) = Children(h, a)
              /\ a # h[n].prnt \/ ~IsAttr(h, n) => Attributes(g, a) = Attributes(h, a)
<1>. DEFINE g == Freed(u, n)
<1>1. Finite(h) /\ Finite(g)
  BY FreedKeeps, LinkedFinite
<1>2. /\ a \in Live(h) /\ a # n
      /\ g[a].chld = IF f = "chld" /\ a = b THEN h[n].sibl ELSE h[a].chld
      /\ g[a].attr = IF f = "attr" /\ a = b THEN h[n].sibl ELSE h[a].attr
      /\ \A c \in Live(h) : h[c].prnt = a /\ c # n =>
            g[c].sibl = IF f = "sibl" /\ c = b THEN h[n].sibl ELSE h[c].sibl
  BY FreedSteps
<1>3. /\ f = "sibl" => h[b].prnt = h[n].prnt /\ (IsAttr(h, n) <=> IsAttr(h, b))
      /\ f = "chld" => b = h[n].prnt /\ ~IsAttr(h, n)
      /\ f = "attr" => b = h[n].prnt /\ IsAttr(h, n)
  BY LeadsTo
<1>4. /\ h[a].chld \in Ptr /\ h[a].attr \in Ptr
      /\ \A c \in Members(h, h[a].chld) : c \in Live(h) /\ h[c].prnt = a /\ ~IsAttr(h, c)
      /\ \A c \in Members(h, h[a].attr) : c \in Live(h) /\ h[c].prnt = a /\ IsAttr(h, c)
  BY <1>2, ListOwner
<1>. HIDE DEF g
<1>5. ASSUME a # h[n].prnt \/ IsAttr(h, n)
      PROVE  Children(g, a) = Children(h, a)
  <2>1. g[a].chld = h[a].chld
    BY <1>2, <1>3, <1>5
  <2>2. \A c \in Members(h, h[a].chld) : g[c].sibl = h[c].sibl
    BY <1>2, <1>3, <1>4, <1>5
  <2>. QED
    BY <1>1, <1>4, <2>1, <2>2, ChainKept DEF Children
<1>6. ASSUME a # h[n].prnt \/ ~IsAttr(h, n)
      PROVE  Attributes(g, a) = Attributes(h, a)
  <2>1. g[a].attr = h[a].attr
    BY <1>2, <1>3, <1>6
  <2>2. \A c \in Members(h, h[a].attr) : g[c].sibl = h[c].sibl
    BY <1>2, <1>3, <1>4, <1>6
  <2>. QED
    BY <1>1, <1>4, <2>1, <2>2, ChainKept DEF Attributes
<1>. QED
  BY <1>5, <1>6 DEF g

\* The list that it was in has lost it.
LEMMA FreedList ==
    ASSUME NEW h, NEW u, NEW n, NEW b, NEW f, Linked(h), Detached(h, u, n, b, f)
    PROVE  LET g == Freed(u, n)
               p == h[n].prnt
           IN /\ p \in Live(g)
              /\ IsAttr(h, n) => Attributes(g, p) = Tree!Dropped(Attributes(h, p), n)
              /\ ~IsAttr(h, n) => Children(g, p) = Tree!Dropped(Children(h, p), n)
<1>. DEFINE g == Freed(u, n)
            p == h[n].prnt
            m == ListOf(h, n)
            s == ListFrom(h, m)
            x == IF IsAttr(h, n) THEN g[p].attr ELSE g[p].chld
<1>1. Finite(h) /\ Finite(g)
  BY FreedKeeps, LinkedFinite
<1>2. p \in Live(g)
  <2>1. p \in Live(h) \ Subtree(u, n)
    BY SubtreeBelow
  <2>2. Live(g) = Live(h) \ Subtree(u, n)
    BY FreedIs
  <2>. QED
    BY <2>1, <2>2
<1>3. /\ p \in Live(h) /\ p # n
      /\ g[p].chld = IF f = "chld" /\ p = b THEN h[n].sibl ELSE h[p].chld
      /\ g[p].attr = IF f = "attr" /\ p = b THEN h[n].sibl ELSE h[p].attr
      /\ \A c \in Live(h) : h[c].prnt = p /\ c # n =>
            g[c].sibl = IF f = "sibl" /\ c = b THEN h[n].sibl ELSE h[c].sibl
  BY <1>2, FreedSteps
<1>4. /\ n \in Live(h) /\ n # Null /\ n \in Addr /\ b \in Live(h) /\ f \in {"sibl", "chld", "attr"}
      /\ f = "sibl" => h[b].sibl = n
      /\ f = "chld" => h[b].chld = n /\ b = p /\ ~IsAttr(h, n)
      /\ f = "attr" => h[b].attr = n /\ b = p /\ IsAttr(h, n)
  BY LeadsTo
<1>5. n \in Hanging(h)
  BY DEF Detached
<1>6. m \in Live(h) /\ n \in Members(h, m) /\ m \in Ptr
  BY <1>5, Listed, LiveAddr, PtrIs
<1>7. m = IF IsAttr(h, n) THEN h[p].attr ELSE h[p].chld
  BY DEF ListOf
<1>8. \A c \in Members(h, m) : c \in Live(h) /\ h[c].prnt = p
  BY <1>3, <1>7, ListOwner
<1>9. Chain(h, m, s)
  BY <1>1, <1>6, ListChain
<1>10. Members(h, m) = {s[k] : k \in 1..Len(s)}
  BY <1>1, <1>6, ChainMembers
<1>. HIDE DEF g, m, s
<1>11. PICK i \in 1..Len(s) : s[i] = n
  BY <1>6, <1>10
<1>12. /\ s \in Seq(Addr) /\ Len(s) \in Nat
       /\ IF Len(s) = 0 THEN m = Null ELSE s[1] = m
       /\ \A k \in 1..Len(s) : h[s[k]].sibl = IF k = Len(s) THEN Null ELSE s[k + 1]
  BY <1>9 DEF Chain
<1>13. \A k \in 1..Len(s) : s[k] = n => k = i
  BY <1>1, <1>9, <1>11, ChainOnce
<1>14. \A c, d \in Live(h) :
          /\ h[c].sibl = h[d].sibl /\ h[c].sibl # Null => c = d
          /\ h[c].sibl # Null => h[c].sibl \notin {h[d].chld, h[d].attr}
  BY DEF Linked, Reached
<1>15. ASSUME NEW k \in 1..Len(s), k # i
       PROVE  g[s[k]].sibl = IF k = i - 1 THEN h[n].sibl ELSE h[s[k]].sibl
  <2>1. s[k] \in Live(h) /\ h[s[k]].prnt = p /\ s[k] # n
    BY <1>8, <1>10, <1>13, <1>15
  <2>2. g[s[k]].sibl = IF f = "sibl" /\ s[k] = b THEN h[n].sibl ELSE h[s[k]].sibl
    BY <1>3, <2>1
  <2>3. CASE k = i - 1
    <3>1. k # Len(s) /\ k + 1 = i
      BY <1>11, <1>12, <2>3
    <3>2. h[s[k]].sibl = n
      BY <1>11, <1>12, <3>1
    <3>3. f = "sibl" /\ s[k] = b
      BY <1>4, <1>14, <2>1, <3>2
    <3>. QED
      BY <2>2, <2>3, <3>3
  <2>4. CASE k # i - 1
    <3>1. ~(f = "sibl" /\ s[k] = b)
      <4>. SUFFICES ASSUME f = "sibl", s[k] = b
                    PROVE  FALSE
        OBVIOUS
      <4>1. h[s[k]].sibl = n
        BY <1>4
      <4>2. k # Len(s) /\ s[k + 1] = n
        BY <1>4, <1>12, <4>1
      <4>3. k + 1 \in 1..Len(s)
        BY <1>12, <4>2
      <4>4. k + 1 = i
        BY <1>13, <4>2, <4>3
      <4>5. k \in Nat /\ i \in Nat
        BY <1>12
      <4>. QED
        BY <2>4, <4>4, <4>5
    <3>. QED
      BY <2>2, <2>4, <3>1
  <2>. QED
    BY <2>3, <2>4
<1>16. x = IF i = 1 THEN h[n].sibl ELSE m
  <2>1. i = 1 <=> m = n
    <3>1. 1 \in 1..Len(s) /\ s[1] = m
      BY <1>11, <1>12
    <3>. QED
      BY <1>11, <1>13, <3>1
  <2>2. CASE m = n
    <3>1. f # "sibl"
      BY <1>3, <1>4, <1>7, <1>14, <2>2
    <3>2. \/ f = "chld" /\ p = b /\ ~IsAttr(h, n)
          \/ f = "attr" /\ p = b /\ IsAttr(h, n)
      BY <1>4, <3>1
    <3>. QED
      BY <1>3, <2>1, <2>2, <3>2
  <2>3. CASE m # n
    <3>1. f = "sibl"
      BY <1>4, <1>7, <2>3
    <3>. QED
      BY <1>3, <1>7, <2>1, <2>3, <3>1
  <2>. QED
    BY <2>2, <2>3
<1>17. Chain(g, x, Tree!Dropped(s, n))
  <2>1. Chain(g, IF i = 1 THEN h[n].sibl ELSE m, Tree!Dropped(s, n))
    BY <1>1, <1>4, <1>9, <1>11, <1>15, ChainDropped
  <2>. QED
    BY <1>16, <2>1
<1>18. x \in Ptr
  <2>1. p \in Addr
    BY <1>3, LiveAddr
  <2>. QED
    BY <1>1, <2>1, NodeFields DEF Finite
<1>. HIDE DEF x
<1>19. ListFrom(g, x) = Tree!Dropped(s, n)
  BY <1>1, <1>17, <1>18, ChainIs
<1>. QED
  BY <1>2, <1>7, <1>19 DEF Children, Attributes, g, s, x

\* The node is in the list of its parent, and in no other.
LEMMA FreedMaps ==
    ASSUME NEW h, NEW u, NEW n, NEW b, NEW f, Linked(h), Detached(h, u, n, b, f),
           NEW a \in Live(Freed(u, n))
    PROVE  LET g == Freed(u, n)
           IN /\ Children(g, a) = Tree!Dropped(Children(h, a), n)
              /\ Attributes(g, a) = Tree!Dropped(Attributes(h, a), n)
<1>. DEFINE g == Freed(u, n)
<1>1. /\ a # h[n].prnt \/ IsAttr(h, n) => Children(g, a) = Children(h, a)
      /\ a # h[n].prnt \/ ~IsAttr(h, n) => Attributes(g, a) = Attributes(h, a)
  BY FreedOthers
<1>2. /\ IsAttr(h, n) => Attributes(g, h[n].prnt) = Tree!Dropped(Attributes(h, h[n].prnt), n)
      /\ ~IsAttr(h, n) => Children(g, h[n].prnt) = Tree!Dropped(Children(h, h[n].prnt), n)
  BY FreedList
<1>3. a \in Live(h)
  BY FreedSteps
<1>4. /\ \A c \in Members(h, h[a].chld) : h[c].prnt = a /\ ~IsAttr(h, c)
      /\ \A c \in Members(h, h[a].attr) : h[c].prnt = a /\ IsAttr(h, c)
  BY <1>3, ListOwner
<1>. HIDE DEF g
<1>5. Children(g, a) = Tree!Dropped(Children(h, a), n)
  <2>1. CASE a # h[n].prnt \/ IsAttr(h, n)
    <3>1. n \notin ToSet(Children(h, a))
      BY <1>4, <2>1 DEF Children, Members
    <3>. QED
      BY <1>1, <2>1, <3>1, DroppedSame
  <2>2. CASE ~(a # h[n].prnt \/ IsAttr(h, n))
    BY <1>2, <2>2
  <2>. QED
    BY <2>1, <2>2
<1>6. Attributes(g, a) = Tree!Dropped(Attributes(h, a), n)
  <2>1. CASE a # h[n].prnt \/ ~IsAttr(h, n)
    <3>1. n \notin ToSet(Attributes(h, a))
      BY <1>4, <2>1 DEF Attributes, Members
    <3>. QED
      BY <1>1, <2>1, <3>1, DroppedSame
  <2>2. CASE ~(a # h[n].prnt \/ ~IsAttr(h, n))
    BY <1>2, <2>2
  <2>. QED
    BY <2>1, <2>2
<1>. QED
  BY <1>5, <1>6 DEF g

\* Who leaves the document with a node, and what the lists of the others are.
LEMMA DeleteMaps ==
    ASSUME Linked(heap), NEW n \in Live(heap), NEW S, Tree!Subtree(n) = S, n \in S,
           Live(heap') = Live(heap) \ S,
           \A a \in Live(heap') :
              /\ heap'[a].kind = heap[a].kind
              /\ Children(heap', a) = Tree!Dropped(Children(heap, a), n)
              /\ Attributes(heap', a) = Tree!Dropped(Attributes(heap, a), n)
    PROVE  Tree!Delete(n)
<1>1. Tree!Alive = Live(heap) /\ n \in Addr /\ \A a \in Addr : a \in Live(heap) => heap[a].kind # "none"
  BY TreeAlive, LiveAddr DEF Live, Kinds
<1>2. Tree!Dropped(<<>>, n) = <<>>
  BY DroppedSame DEF ToSet
<1>3. KindOf(heap') = [a \in Addr |-> IF a \in S THEN "none" ELSE KindOf(heap)[a]]
  BY DEF KindOf
<1>4. KidsOf(heap') = [a \in Addr |-> IF a \in S THEN <<>> ELSE Tree!Dropped(KidsOf(heap)[a], n)]
  BY <1>2 DEF KidsOf
<1>5. AttrsOf(heap') = [a \in Addr |-> IF a \in S THEN <<>> ELSE Tree!Dropped(AttrsOf(heap)[a], n)]
  BY <1>2 DEF AttrsOf
<1>. QED
  BY <1>1, <1>3, <1>4, <1>5 DEF Tree!Delete, KindOf, KidsOf, AttrsOf

-----------------------------------------------------------------------------
(* The calls.                                                              *)

\* The tree is the same when only namespaces differ.
LEMMA RenamedMaps ==
    ASSUME NEW h, NEW r, Linked(h), Renamed(h, r)
    PROVE  KindOf(r) = KindOf(h) /\ KidsOf(r) = KidsOf(h) /\ AttrsOf(r) = AttrsOf(h)
<1>1. Finite(h) /\ Finite(r) /\ Live(r) = Live(h) /\ h \in [Addr -> Node]
  <2>1. Linked(r) /\ Live(r) = Live(h)
    BY RenamedKeeps
  <2>. QED
    BY <2>1, LinkedFinite DEF Linked, Typed
<1>2. \A a \in Addr : /\ r[a].kind = h[a].kind /\ r[a].sibl = h[a].sibl
                      /\ r[a].chld = h[a].chld /\ r[a].attr = h[a].attr
  BY DEF Renamed
<1>3. \A m \in Ptr : ListFrom(r, m) = ListFrom(h, m)
  <2>. SUFFICES ASSUME NEW m \in Ptr
                PROVE  ListFrom(r, m) = ListFrom(h, m)
    OBVIOUS
  <2>1. \A c \in Members(h, m) : r[c].sibl = h[c].sibl
    BY <1>1, <1>2, MembersIs
  <2>. QED
    BY <1>1, <2>1, ChainKept
<1>4. \A a \in Addr : Children(r, a) = Children(h, a) /\ Attributes(r, a) = Attributes(h, a)
  BY <1>1, <1>2, <1>3, NodeFields DEF Children, Attributes
<1>. QED
  BY <1>1, <1>2, <1>4 DEF KindOf, KidsOf, AttrsOf


\* roxml_add_node_check finds the node that the ordered tree has take the new one.
LEMMA TargetTakes ==
    ASSUME Linked(heap), NEW parent \in Live(heap), NEW kind, Target(parent, kind) # Null
    PROVE  Tree!Takes(Target(parent, kind), parent, kind)
<1>. DEFINE up == heap[parent].prnt
            x == IF kind = "txt" /\ heap[parent].chld = Null THEN parent ELSE Null
            y == IF up # Null /\ heap[up].kind = "elm" THEN up ELSE Null
<1>1. parent \in Addr /\ KindOf(heap)[parent] = heap[parent].kind
  BY LiveAddr DEF KindOf
<1>2. Target(parent, kind) = CASE IsAttr(heap, parent) -> x
                               [] heap[parent].kind = "elm" -> parent
                               [] OTHER -> y
  BY DEF Target
<1>3. IsAttr(heap, parent) => heap[parent].kind # "elm"
  BY DEF IsAttr
<1>. HIDE DEF x, y, up
<1>4. CASE IsAttr(heap, parent)
  <2>1. Target(parent, kind) = x
    BY <1>2, <1>3, <1>4
  <2>2. Target(parent, kind) = parent /\ kind = "txt" /\ heap[parent].chld = Null
    BY <2>1 DEF x
  <2>3. Children(heap, parent) = <<>>
    BY <2>2, LinkedFinite, ListFromIs DEF Children
  <2>4. KidsOf(heap)[parent] = <<>>
    BY <1>1, <2>3 DEF KidsOf
  <2>5. KindOf(heap)[parent] \in {"att", "nsd"}
    BY <1>1, <1>4 DEF IsAttr
  <2>. QED
    BY <2>2, <2>4, <2>5 DEF Tree!Takes, Tree!AttrKinds, KindOf, KidsOf
<1>5. CASE heap[parent].kind = "elm"
  <2>1. Target(parent, kind) = parent
    BY <1>2, <1>3, <1>5
  <2>. QED
    BY <1>1, <1>5, <2>1 DEF Tree!Takes, KindOf
<1>6. CASE ~IsAttr(heap, parent) /\ heap[parent].kind # "elm"
  <2>1. Target(parent, kind) = y
    BY <1>2, <1>6
  <2>2. Target(parent, kind) = up /\ up # Null /\ heap[up].kind = "elm"
    BY <2>1 DEF y
  <2>3. up \in Live(heap) /\ up \in Addr /\ parent \in Kin(heap, up)
    BY <1>6, <2>2, LiveAddr DEF Linked, Closed, Rooted, Hanging, Kin, up
  <2>4. parent \in Tree!Members(up)
    BY <2>3, TreeMembers
  <2>5. KindOf(heap)[parent] \in {"txt", "misc"}
    BY <1>1, <1>6 DEF Live, Kinds, IsAttr
  <2>6. KindOf(heap)[up] = "elm"
    BY <2>2, <2>3 DEF KindOf
  <2>. QED
    BY <2>2, <2>4, <2>5, <2>6 DEF Tree!Takes, KindOf
<1>. QED
  BY <1>4, <1>5, <1>6

\* roxml_add_node does what it is asked.
LEMMA AddNodeMaps ==
    ASSUME Linked(heap), Plain, NEW parent \in Addr, NEW position \in 0..MaxPosition,
           NEW kind \in Added, NEW alias \in Aliases, NEW size \in {1, 2},
           AddNode(parent, position, kind, alias, size)
    PROVE  Tree!Next
<1>. DEFINE p == Target(parent, kind)
<1>1. /\ parent \in Live(heap) /\ p # Null
      /\ call' = [op |-> "add", node |-> parent, position |-> position,
                  kind |-> kind, valued |-> size = 2]
  BY DEF AddNode
<1>2. PICK n, v, b, f : /\ Attached(heap, heap', p, n, v, b, f)
                        /\ Stands(heap, p, kind, b, f, position)
                        /\ heap'[n].kind = kind /\ (v = n <=> size = 1)
  <2>1. \E n, v, b, f : AddedAt(heap, heap', p, n, v, b, f, kind, position, size)
    BY AddNodeIs DEF Plain
  <2>. QED
    BY <2>1 DEF AddedAt
<1>3. Tree!Takes(p, parent, kind)
  BY <1>1, TargetTakes
<1>. DEFINE valued == size = 2
<1>4. valued \in BOOLEAN /\ (v # n <=> valued)
  BY <1>2
<1>5. call' = [op |-> "add", node |-> parent, position |-> position,
               kind |-> kind, valued |-> valued]
  BY <1>1
<1>6. kind \in Tree!Kinds
  BY CallersAssumption DEF Tree!Kinds, Kinds
<1>. HIDE DEF p, valued
<1>7. Tree!Add(parent, position, kind, valued)
  BY <1>2, <1>3, <1>4, AddMaps
<1>. QED
  BY <1>4, <1>5, <1>6, <1>7, Zenon DEF Tree!Next

\* roxml_del_node takes the node and what is below it out of the tree.
LEMMA DelNodeMaps ==
    ASSUME Linked(heap), Plain, NEW n \in Addr, DelNodeCall(n)
    PROVE  Tree!Next
<1>0. call' = [op |-> "del", node |-> n]
  BY DEF DelNodeCall
<1>1. n \in Hanging(heap) /\ n \in Live(heap) /\ heap' = DelNode(heap, n)
  BY DEF DelNodeCall, Hanging
<1>2. heap[n].kind = "txt" => /\ FirstText(heap, heap[heap[n].prnt].chld) = n
                              /\ heap[heap[n].prnt].kind # "nsd"
  BY DEF DelNodeCall, Plain
<1>3. PICK r, u, b, f :
         /\ Linked(r) /\ Detached(r, u, n, b, f) /\ heap' = Freed(u, n)
         /\ r = IF heap[n].kind = "nsd" THEN ResetNs(heap, heap[n].prnt, n) ELSE heap
  BY <1>1, <1>2, DelNodeIs
<1>4. Renamed(heap, r)
  <2>1. Renamed(heap, heap)
    BY DEF Renamed, Linked, Typed
  <2>2. Renamed(heap, ResetNs(heap, heap[n].prnt, n))
    BY <1>1, Listed, ResetNsIs
  <2>. QED
    BY <1>3, <2>1, <2>2
<1>5. /\ Live(r) = Live(heap) /\ \A a \in Addr : r[a].kind = heap[a].kind /\ r[a].prnt = heap[a].prnt
      /\ \A a \in Live(heap) : /\ Children(r, a) = Children(heap, a)
                               /\ Attributes(r, a) = Attributes(heap, a)
  <2>1. KidsOf(r) = KidsOf(heap) /\ AttrsOf(r) = AttrsOf(heap)
    BY <1>4, RenamedMaps
  <2>2. Live(r) = Live(heap)
    BY <1>4, RenamedKeeps
  <2>3. \A a \in Live(heap) : /\ KidsOf(r)[a] = Children(r, a) /\ AttrsOf(r)[a] = Attributes(r, a)
                              /\ KidsOf(heap)[a] = Children(heap, a)
                              /\ AttrsOf(heap)[a] = Attributes(heap, a)
    BY <2>2, LiveAddr DEF KidsOf, AttrsOf
  <2>4. \A a \in Addr : r[a].kind = heap[a].kind /\ r[a].prnt = heap[a].prnt
    BY <1>4 DEF Renamed
  <2>. QED
    BY <2>1, <2>2, <2>3, <2>4
<1>. DEFINE S == Subtree(u, n)
<1>6. n \in S
  BY DEF Subtree
<1>7. Live(heap') = Live(heap) \ S /\ \A a \in Live(heap') : heap'[a] = u[a]
  <2>1. /\ Live(Freed(u, n)) = Live(r) \ Subtree(u, n)
        /\ \A a \in Live(Freed(u, n)) : Freed(u, n)[a] = u[a]
    BY <1>3, FreedIs
  <2>. QED
    BY <1>3, <1>5, <2>1
<1>8. \A a \in Live(heap') : heap'[a].kind = heap[a].kind
  <2>1. \A a \in Addr : u[a].kind = r[a].kind
    BY <1>3 DEF Detached
  <2>. QED
    BY <1>5, <1>7, <2>1, LiveAddr
<1>9. \A a \in Live(heap') :
         /\ Children(heap', a) = Tree!Dropped(Children(heap, a), n)
         /\ Attributes(heap', a) = Tree!Dropped(Attributes(heap, a), n)
  <2>1. \A a \in Live(heap') :
           /\ Children(heap', a) = Tree!Dropped(Children(r, a), n)
           /\ Attributes(heap', a) = Tree!Dropped(Attributes(r, a), n)
    BY <1>3, FreedMaps
  <2>. QED
    BY <1>5, <1>7, <2>1
<1>10. Tree!Subtree(n) = S
  <2>1. S \subseteq Live(heap) /\ \A c \in S \ {n} : heap[c].prnt \in S
    <3>1. S \subseteq Live(r) /\ \A c \in S \ {n} : r[c].prnt \in S
      BY <1>3, SubtreeDown
    <3>. QED
      BY <1>5, <3>1, LiveAddr
  <2>2. Root \notin S
    BY <1>3, SubtreeBelow
  <2>3. \A c \in Live(heap) : heap[c].prnt \in S => c \in S
    <3>1. \A c \in Live(r) : r[c].prnt \in S => c \in S
      BY <1>3, SubtreeUp
    <3>. QED
      BY <1>5, <3>1, LiveAddr
  <2>. HIDE DEF S
  <2>4. \A c \in S \ {n} : c \in Hanging(heap) /\ heap[c].prnt \in S
    BY <2>1, <2>2 DEF Hanging
  <2>5. \A c \in Hanging(heap) : heap[c].prnt \in S => c \in S
    BY <2>3 DEF Hanging
  <2>. QED
    BY <1>6, <2>1, <2>4, <2>5, TreeSubtree
<1>. HIDE DEF S
<1>11. Tree!Delete(n)
  BY <1>1, <1>6, <1>7, <1>8, <1>9, <1>10, DeleteMaps
<1>. QED
  BY <1>0, <1>11, Zenon DEF Tree!Next

\* roxml_close deletes the root and with it the document.
LEMMA CloseMaps ==
    ASSUME Linked(heap), CloseCall
    PROVE  Tree!Next
<1>1. Live(heap') = {}
  BY CloseIs DEF CloseCall
<1>2. Root \in Live(heap) /\ Tree!Subtree(Root) = Live(heap)
  BY TreeRoot
<1>3. Live(heap') = Live(heap) \ Live(heap)
  BY <1>1
<1>4. \A a \in Live(heap') :
         /\ heap'[a].kind = heap[a].kind
         /\ Children(heap', a) = Tree!Dropped(Children(heap, a), Root)
         /\ Attributes(heap', a) = Tree!Dropped(Attributes(heap, a), Root)
  BY <1>1
<1>5. Tree!Delete(Root)
  BY <1>2, <1>3, <1>4, DeleteMaps
<1>6. call' = [op |-> "close"]
  BY DEF CloseCall
<1>. QED
  BY <1>5, <1>6 DEF Tree!Next

\* roxml_set_ns is not seen in the tree.
LEMMA SetNsMaps ==
    ASSUME Linked(heap), NEW n \in Addr, NEW d \in Ptr, SetNsCall(n, d)
    PROVE  Tree!Next
<1>0. call' = [op |-> "set_ns"]
  BY DEF SetNsCall
<1>1. n \in Live(heap) /\ (heap' = heap \/ heap' = SetNs(heap, n, d))
  BY DEF SetNsCall
<1>2. Renamed(heap, heap')
  <2>1. Renamed(heap, heap)
    BY DEF Renamed, Linked, Typed
  <2>2. Renamed(heap, SetNs(heap, n, d))
    BY <1>1, SetNsIs
  <2>. QED
    BY <1>1, <2>1, <2>2
<1>3. KindOf(heap') = KindOf(heap) /\ KidsOf(heap') = KidsOf(heap) /\ AttrsOf(heap') = AttrsOf(heap)
  BY <1>2, RenamedMaps
<1>. QED
  BY <1>0, <1>3 DEF Tree!Next, KindOf, KidsOf, AttrsOf

\* Whatever a caller adds, deletes or renames and wherever, the document is an
\* ordered tree, and each call changes it as OrderedTree says of that call:
\* roxml_add_node puts a node of the kind asked for in the list of the node that
\* takes it, at the position asked for, roxml_del_node takes out the subtree of
\* the node it is given, and everything else keeps its place.
THEOREM EditImplementsTree == ASSUME Plain PROVE Spec => ImplementsTree
<1>1. Init => Tree!Init
  BY DocsAssumption, InitMaps DEF Init
<1>2. EditInv /\ [Next]_vars => [Tree!Next]_(Tree!vars)
  <2>1. CASE UNCHANGED vars
    <3>1. heap' = heap /\ call' = call
      BY <2>1 DEF vars
    <3>. QED
      BY <3>1 DEF Tree!vars
  <2>2. ASSUME EditInv, Next
        PROVE  Tree!Next
    <3>1. Linked(heap)
      BY <2>2 DEF Next, AddNode, DelNodeCall, SetNsCall, CloseCall, EditInv
    <3>2. CASE \E parent \in Addr, position \in 0..MaxPosition, kind \in Added,
                  alias \in Aliases, size \in {1, 2} :
                     AddNode(parent, position, kind, alias, size)
      BY <3>1, <3>2, AddNodeMaps
    <3>3. CASE \E n \in Addr : DelNodeCall(n)
      BY <3>1, <3>3, DelNodeMaps
    <3>4. CASE \E n \in Addr, d \in Ptr : SetNsCall(n, d)
      BY <3>1, <3>4, SetNsMaps
    <3>5. CASE CloseCall
      BY <3>1, <3>5, CloseMaps
    <3>. QED
      BY <2>2, <3>2, <3>3, <3>4, <3>5 DEF Next
  <2>. QED
    BY <2>1, <2>2
<1>. QED
  BY <1>1, <1>2, EditInvariant, PTL DEF Spec, ImplementsTree, Tree!Spec

=============================================================================
