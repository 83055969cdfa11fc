--------------------------- MODULE RoxmlMem_proofs ---------------------------
(***************************************************************************)
(* That the memory manager keeps its list, for any number of threads and   *)
(* cells, when the calls do not overlap (Serial).                          *)
(*                                                                         *)
(* The invariant names the order s of the n cells in use: every link       *)
(* follows it, forwards and backwards, and a call under way stands at a    *)
(* place of it with nothing of what it looks for behind.  Each step keeps  *)
(* the order, puts a cell at its end (With) or takes one out (Without).    *)
(* The first part shows that Chain, which follows the links by recursion   *)
(* over their number, is that order; the last, that the order is a         *)
(* sequence of blocks as ThreadBlocks has them.                            *)
(***************************************************************************)
EXTENDS RoxmlMem, FiniteSetTheorems, SequenceTheorems, RoxmlLemmas

\* How many addresses malloc can return.
N == Cardinality(Cells)

\* One step of From, when nx is the field next of the cells.
Front(f, nx, n) ==
    [k \in Ptr |-> IF k = Null \/ n = 0 THEN <<>> ELSE <<k>> \o f[n - 1][nx[k]]]

\* There is a function that takes these steps.
LEMMA FromExists ==
    ASSUME NEW nx \in [Cells \cup {HeadCell} -> Ptr], NEW m \in Nat
    PROVE  \E f : f = [n \in 0..m |-> Front(f, nx, n)]
<1>. DEFINE G(f, p) == f = [n \in 0..p |-> Front(f, nx, n)]
            S == {p \in Nat : \E f : G(f, p)}
<1>1. \E f : G(f, 0)
  <2>. DEFINE g == [n \in 0..0 |-> [k \in Ptr |-> <<>>]]
  <2>1. \A n \in 0..0 : Front(g, nx, n) = [k \in Ptr |-> <<>>]
    BY DEF Front
  <2>2. G(g, 0)
    BY <2>1
  <2>. HIDE DEF G, g
  <2>. QED
    BY <2>2
<1>2. ASSUME NEW p \in Nat, NEW f, G(f, p) 
      PROVE \E g : G(g, p + 1)
  <2>. DEFINE g == [n \in 0..p + 1 |-> Front(f, nx, n)]
  <2>1. ASSUME NEW n \in 0..p
        PROVE  g[n] = f[n]
    BY <1>2
  <2>2. ASSUME NEW n \in 0..p + 1
        PROVE  Front(f, nx, n) = Front(g, nx, n)
    <3>1. CASE n = 0
      BY <3>1 DEF Front
    <3>2. CASE n # 0
      <4>1. g[n - 1] = f[n - 1]
        BY <3>2, <2>1
      <4>. HIDE DEF g
      <4>. QED
        BY <4>1 DEF Front
    <3>. QED
      BY <3>1, <3>2
  <2>3. G(g, p + 1)
    <3>. HIDE DEF Front
    <3>. QED
      BY <2>2
  <2>. HIDE DEF G, g
  <2>. QED
    BY <2>3
<1>. HIDE DEF G
<1>3. 0 \in S /\ \A p \in Nat : p \in S => p + 1 \in S
  BY <1>1, <1>2
<1>. HIDE DEF S
<1>4. Nat \subseteq S
  BY <1>3, SetInduction
<1>5. \E f : G(f, m)
  BY <1>4 DEF S
<1>. QED
  BY <1>5 DEF G

\* So From follows the links: it is defined by recursion over the length.
LEMMA FromUnfold ==
    ASSUME TypeOK, NEW c \in Ptr
    PROVE \E f : /\ From(c) = f[N][c]
                 /\ \A n \in 0..N, k \in Ptr : f[n][k] =
                       IF k = Null \/ n = 0 THEN <<>> ELSE <<k>> \o f[n - 1][cell[k].next]
<1>. DEFINE from[n \in 0..N] ==
               [k \in Ptr |-> IF k = Null \/ n = 0 THEN <<>> ELSE <<k>> \o from[n - 1][cell[k].next]]
            nx == [k \in Cells \cup {HeadCell} |-> cell[k].next]
<1>1. From(c) = from[N][c]
  BY DEF From, N
<1>2. nx \in [Cells \cup {HeadCell} -> Ptr]
  BY DEF TypeOK
<1>3. N \in Nat
  BY CellsAssumption, FS_CardinalityType DEF N
<1>4. PICK f : f = [n \in 0..N |-> Front(f, nx, n)]
  <2>. HIDE DEF nx
  <2>. QED
    BY <1>2, <1>3, FromExists
<1>5. \A n \in 0..N : Front(f, nx, n) = [k \in Ptr |-> IF k = Null \/ n = 0 THEN <<>> ELSE <<k>> \o f[n - 1][cell[k].next]]
  BY CellsAssumption DEF Front, Ptr
<1>6. f = [n \in 0..N |-> [k \in Ptr |-> IF k = Null \/ n = 0 THEN <<>> ELSE <<k>> \o f[n - 1][cell[k].next]]]
  BY <1>4, <1>5
<1>7. from = [n \in 0..N |-> [k \in Ptr |-> IF k = Null \/ n = 0 THEN <<>> ELSE <<k>> \o from[n - 1][cell[k].next]]]
  BY <1>6
<1>. HIDE DEF from
<1>8. \A n \in 0..N, k \in Ptr :
         from[n][k] = IF k = Null \/ n = 0 THEN <<>> ELSE <<k>> \o from[n - 1][cell[k].next]
  <2>. SUFFICES ASSUME NEW n \in 0..N, NEW k \in Ptr
                PROVE  from[n][k] = IF k = Null \/ n = 0 THEN <<>>
                                    ELSE <<k>> \o from[n - 1][cell[k].next]
    OBVIOUS
  <2>1. from[n] = [l \in Ptr |-> IF l = Null \/ n = 0 THEN <<>>
                                 ELSE <<l>> \o from[n - 1][cell[l].next]]
    BY <1>7
  <2>. QED
    BY <2>1
<1>. WITNESS from
<1>. QED
  BY <1>1, <1>8

\* Adding an element in front of a sequence.
LEMMA Prepend ==
    ASSUME NEW S, NEW a \in S, NEW d \in Nat, NEW g \in [1..d -> S]
    PROVE  <<a>> \o g = [j \in 1..d + 1 |-> IF j = 1 THEN a ELSE g[j - 1]]
<1>1. g \in Seq(S) /\ Len(g) = d
  OBVIOUS
<1>2. <<a>> \in Seq(S) /\ Len(<<a>>) = 1
  OBVIOUS
<1>. QED
  BY <1>1, <1>2

-----------------------------------------------------------------------------
(* The list.                                                               *)

\* s is the order of the n cells of U, from the head on.
OrderOf(U, n, s) ==
    /\ n \in Nat
    /\ s \in [0..n -> Cells \cup {HeadCell}]
    /\ s[0] = HeadCell
    /\ \A i \in 1..n : s[i] \in U
    /\ \A i, j \in 0..n : s[i] = s[j] => i = j
    /\ \A c \in U : \E i \in 1..n : s[i] = c

Order(n, s) == OrderOf(used, n, s)

\* The links say the same, forwards and backwards; RELEASE_ALL starts by
\* taking the link to the last cell away.
Forward(n, s) == \A i \in 0..n : cell[s[i]].next = IF i = n THEN Null ELSE s[i + 1]
Backward(n, s) == \A i \in 1..n : cell[s[i]].prev = s[i - 1]
LastLink(n, s) ==
    cell[HeadCell].prev = IF n = 0 \/ \E t \in Threads : At(t, "all") THEN Null ELSE s[n]

\* The cells that are listed once each are as many as there are in use, and no
\* more than there are.
LEMMA Counted ==
    ASSUME NEW U, U \subseteq Cells, NEW n, NEW s, OrderOf(U, n, s)
    PROVE  N \in Nat /\ n <= N /\ Cardinality(U) = n
<1>1. N \in Nat /\ IsFiniteSet(Cells)
  BY CellsAssumption, FS_CardinalityType DEF N
<1>2. IsFiniteSet(U) /\ Cardinality(U) <= N
  BY <1>1, FS_Subset DEF N
<1>. DEFINE f == [i \in 1..n |-> s[i]]
<1>3. n \in Nat /\ f \in Bijection(1..n, U)
  BY DEF OrderOf, Bijection, Injection, Surjection, IsInjective
<1>4. IsFiniteSet(1..n) /\ Cardinality(1..n) = n
  BY <1>3, FS_Interval
<1>5. Cardinality(U) = n
  <2>. HIDE DEF f
  <2>. QED
    BY <1>3, <1>4, FS_Bijection DEF ExistsBijection
<1>. QED
  BY <1>1, <1>2, <1>3, <1>5

\* Chain, that follows the links, is the list without its head.
LEMMA ChainIs ==
    ASSUME TypeOK, NEW n, NEW s, Order(n, s), Forward(n, s)
    PROVE  Chain = [i \in 1..n |-> s[i]]
<1>. DEFINE from(i) == IF i = n + 1 THEN Null ELSE s[i]
            rest(d) == [j \in 1..d |-> s[n - d + j]]
<1>1. n \in Nat /\ s \in [0..n -> Cells \cup {HeadCell}] /\ s[0] = HeadCell
  BY DEF Order, OrderOf
<1>2. cell[HeadCell].next = from(1)
  BY <1>1 DEF Forward
<1>3. from(1) \in Ptr
  BY <1>1 DEF Ptr
<1>4. N \in Nat /\ n <= N
  <2>1. used \subseteq Cells
    BY DEF TypeOK
  <2>. QED
    BY <2>1, Counted DEF Order
<1>5. PICK f : /\ From(from(1)) = f[N][from(1)]
               /\ \A m \in 0..N, k \in Ptr :
                     f[m][k] = IF k = Null \/ m = 0 THEN <<>>
                               ELSE <<k>> \o f[m - 1][cell[k].next]
  <2>. HIDE DEF from
  <2>. QED
    BY <1>3, FromUnfold
<1>. DEFINE P(d) == \A m \in d..N : f[m][from(n + 1 - d)] = rest(d)
            S == {d \in Nat : d <= n => P(d)}
<1>6. P(0)
  <2>. SUFFICES ASSUME NEW m \in 0..N
                PROVE  f[m][Null] = rest(0)
    BY <1>1
  <2>1. rest(0) = <<>>
    BY <1>1
  <2>. QED
    BY <1>5, <2>1 DEF Ptr
<1>7. ASSUME NEW d \in Nat, d + 1 <= n, P(d)
      PROVE  P(d + 1)
  <2>. SUFFICES ASSUME NEW m \in d + 1..N
                PROVE  f[m][from(n - d)] = rest(d + 1)
    <3>1. n + 1 - (d + 1) = n - d
      BY <1>1
    <3>. HIDE DEF from, rest
    <3>. QED
      BY <3>1
  <2>. DEFINE k == s[n - d]
  <2>1. n - d \in 1..n /\ n - d \in 0..n /\ from(n - d) = k
    BY <1>1, <1>7
  <2>2. k \in Cells \cup {HeadCell} /\ k \in Ptr /\ k # Null
    <3>1. k \in Cells \cup {HeadCell}
      BY <1>1, <2>1
    <3>. HIDE DEF k
    <3>. QED
      BY <3>1, CellsAssumption DEF Ptr
  <2>3. cell[k].next = from(n + 1 - d)
    <3>1. cell[k].next = IF n - d = n THEN Null ELSE s[n - d + 1]
      BY <2>1 DEF Forward
    <3>2. n - d = n <=> n + 1 - d = n + 1
      BY <1>1
    <3>3. n - d + 1 = n + 1 - d
      BY <1>1
    <3>. QED
      BY <3>1, <3>2, <3>3
  <2>4. f[m - 1][cell[k].next] = rest(d)
    <3>1. m - 1 \in d..N
      BY <1>4
    <3>. QED
      BY <3>1, <2>3, <1>7
  <2>5. f[m][k] = <<k>> \o rest(d)
    <3>1. m \in 0..N /\ m # 0
      BY <1>4
    <3>. HIDE DEF k, rest
    <3>. QED
      BY <1>5, <2>2, <2>4, <3>1
  <2>6. rest(d) \in [1..d -> Cells \cup {HeadCell}]
    BY <1>1, <1>7
  <2>7. <<k>> \o rest(d) = [j \in 1..d + 1 |-> IF j = 1 THEN k ELSE rest(d)[j - 1]]
    <3>. HIDE DEF k, rest
    <3>. QED
      BY <2>2, <2>6, Prepend
  <2>8. ASSUME NEW j \in 1..d + 1
        PROVE  s[n - (d + 1) + j] = IF j = 1 THEN k ELSE rest(d)[j - 1]
    BY <1>1, <1>7
  <2>9. rest(d + 1) = [j \in 1..d + 1 |-> IF j = 1 THEN k ELSE rest(d)[j - 1]]
    BY <2>8
  <2>. HIDE DEF k, rest
  <2>. QED
    BY <2>1, <2>5, <2>7, <2>9
<1>8. Nat \subseteq S
  <2>1. 0 \in S
    BY <1>6
  <2>2. ASSUME NEW d \in Nat, d \in S
        PROVE  d + 1 \in S
    <3>. HIDE DEF P
    <3>. QED
      BY <2>2, <1>7, <1>1
  <2>. HIDE DEF S
  <2>. QED
    BY <2>1, <2>2, SetInduction
<1>9. f[N][from(1)] = rest(n)
  <2>1. P(n)
    <3>. HIDE DEF P
    <3>. QED
      BY <1>8, <1>1
  <2>2. N \in n..N /\ n + 1 - n = 1
    BY <1>1, <1>4
  <2>. QED
    BY <2>1, <2>2
<1>10. rest(n) = [i \in 1..n |-> s[i]]
  BY <1>1
<1>. QED
  BY <1>2, <1>5, <1>9, <1>10 DEF Chain

-----------------------------------------------------------------------------
(* The inductive invariant.                                                *)

Serial == "unserialised" \notin Callers

\* One call at a time.
Alone == \A t, u \in Threads : ~At(t, "idle") /\ ~At(u, "idle") => t = u

\* How far a call has come: where it stands in the list, and that what it
\* looks for is not behind it.
Place(t, n, s) ==
    /\ call[t].pc \in {"malloc", "last", "pointer"} => \E k \in 0..n : call[t].at = s[k]
    /\ At(t, "link") => call[t].at = s[n]
    /\ At(t, "last") =>
          \A k \in 1..n : call[t].at = s[k] => \A j \in k..n : cell[s[j]].id # t
    /\ At(t, "pointer") =>
          \A k \in 0..n : call[t].at = s[k] =>
              \A j \in 1..k : cell[s[j]].ptr # call[t].data
    /\ At(t, "all") /\ "shared all" \notin Callers =>
          \A j \in 1..n : cell[s[j]].id = t

Listed(n, s) ==
    /\ Order(n, s) /\ Forward(n, s) /\ Backward(n, s) /\ LastLink(n, s)
    /\ \A t \in Threads : Place(t, n, s)

Good(n, s) ==
    /\ TypeOK
    /\ cell[HeadCell].id = Null
    /\ Alone
    /\ Listed(n, s)

MemInv == \E n \in 0..N : \E s \in [0..n -> Cells \cup {HeadCell}] : Good(n, s)

Calls == [pc : {"idle", "malloc", "link", "last", "all", "pointer"},
          at : Ptr, data : Cells \cup {Null}]

Record == [next : Ptr, prev : Ptr, id : Threads \cup {Null}, ptr : Cells \cup {Null}]

\* What the steps need to know of the list.
LEMMA ListFacts ==
    ASSUME NEW n, NEW s, Good(n, s)
    PROVE  /\ N \in Nat /\ n \in 0..N /\ s \in [0..n -> Cells \cup {HeadCell}]
           /\ s[0] = HeadCell /\ HeadCell # Null /\ HeadCell \notin Cells
           /\ Null \notin Cells /\ Null \notin Threads
           /\ \A i \in 1..n : /\ s[i] \in used /\ s[i] \in Cells
                              /\ s[i] # HeadCell /\ s[i] # Null
           /\ used \subseteq Cells
           /\ cell \in [Cells \cup {HeadCell} -> Record]
           /\ call \in [Threads -> Calls]
<1>1. /\ n \in Nat /\ s \in [0..n -> Cells \cup {HeadCell}] /\ s[0] = HeadCell
      /\ \A i \in 1..n : s[i] \in used
      /\ \A i, j \in 0..n : s[i] = s[j] => i = j
      /\ \A c \in used : \E i \in 1..n : s[i] = c
  BY DEF Good, Listed, Order, OrderOf
<1>2. /\ used \subseteq Cells
      /\ cell \in [Cells \cup {HeadCell} -> Record]
      /\ call \in [Threads -> Calls]
  BY DEF Good, TypeOK, Record, Calls
<1>3. N \in Nat /\ n <= N
  BY <1>2, Counted DEF Good, Listed, Order
<1>4. /\ HeadCell # Null /\ HeadCell \notin Cells /\ Null \notin Cells
      /\ Null \notin Threads
  BY CellsAssumption
<1>5. \A i \in 1..n : s[i] \in Cells /\ s[i] # HeadCell /\ s[i] # Null
  BY <1>1, <1>2, <1>4
<1>. QED
  BY <1>1, <1>2, <1>3, <1>4, <1>5

LEMMA Distinct ==
    ASSUME NEW n, NEW s, Good(n, s), NEW i \in 0..n, NEW j \in 0..n, s[i] = s[j]
    PROVE  i = j
  BY DEF Good, Listed, Order, OrderOf

\* A thread that makes a step is the only one in a call, or all are idle.
LEMMA OthersIdle ==
    ASSUME NEW n, NEW s, Good(n, s), NEW t \in Threads, NEW x \in Calls,
           call' = [call EXCEPT ![t] = x],
           At(t, "idle") => \A u \in Threads : At(u, "idle")
    PROVE  /\ Alone'
           /\ call' \in [Threads -> Calls] /\ call'[t] = x
           /\ \A u \in Threads : u # t => call[u].pc = "idle" /\ call'[u].pc = "idle"
<1>1. call \in [Threads -> Calls]
  BY ListFacts
<1>2. \A u \in Threads : u # t => call[u].pc = "idle" /\ call'[u] = call[u]
  BY <1>1 DEF Good, Alone, At
<1>. QED
  BY <1>1, <1>2 DEF Alone, At

\* A step that leaves the list alone.
LEMMA Walk ==
    ASSUME NEW n, NEW s, Good(n, s), UNCHANGED <<cell, used>>,
           NEW t \in Threads, NEW x \in Calls,
           call' = [call EXCEPT ![t] = x],
           At(t, "idle") => \A u \in Threads : At(u, "idle"),
           n = 0 \/ (x.pc = "all" <=> At(t, "all")),
           Place(t, n, s)'
    PROVE  Good(n, s)'
<1>1. /\ Alone'
      /\ call' \in [Threads -> Calls] /\ call'[t] = x
      /\ \A u \in Threads : u # t => call[u].pc = "idle" /\ call'[u].pc = "idle"
  BY OthersIdle
<1>2. TypeOK'
  BY <1>1 DEF TypeOK, Calls, Good
<1>3. Order(n, s)' /\ Forward(n, s)' /\ Backward(n, s)'
  BY DEF Good, Listed, Order, Forward, Backward
<1>4. LastLink(n, s)'
  <2>1. n # 0 => (\E u \in Threads : At(u, "all")) <=> (\E u \in Threads : At(u, "all")')
    BY <1>1 DEF At
  <2>. QED
    BY <2>1 DEF Good, Listed, LastLink
<1>5. \A u \in Threads : Place(u, n, s)'
  <2>1. \A u \in Threads : u # t => Place(u, n, s)'
    BY <1>1 DEF Place, At
  <2>. QED
    BY <2>1
<1>. QED
  BY <1>1, <1>2, <1>3, <1>4, <1>5 DEF Good, Listed

LEMMA EnterCall ==
    ASSUME Serial, NEW t \in Threads, NEW pc, NEW data, Enter(t, pc, data)
    PROVE  /\ At(t, "idle") /\ \A u \in Threads : At(u, "idle")
           /\ call' = [call EXCEPT ![t] = [pc |-> pc, at |-> HeadCell, data |-> data]]
           /\ HeadCell \in Ptr /\ Null \in Ptr
  BY DEF Enter, Serial, Ptr

\* roxml_malloc and roxml_release start at the head, and have passed nothing.
LEMMA Starts ==
    ASSUME Serial, NEW n, NEW s, Good(n, s), NEW t \in Threads,
           NEW pc \in {"malloc", "last", "pointer"}, NEW data \in Cells \cup {Null},
           Enter(t, pc, data), UNCHANGED <<cell, used>>
    PROVE  Good(n, s)'
<1>. DEFINE x == [pc |-> pc, at |-> HeadCell, data |-> data]
<1>1. /\ At(t, "idle") /\ \A u \in Threads : At(u, "idle")
      /\ call' = [call EXCEPT ![t] = x] /\ x \in Calls
  BY EnterCall DEF Calls
<1>2. Place(t, n, s)'
  <2>1. call'[t] = x
    BY <1>1, ListFacts
  <2>2. call'[t].at = s[0] /\ 0 \in 0..n
    BY <2>1, ListFacts
  <2>3. \A k \in 0..n : s[k] = call'[t].at => k = 0
    BY <2>2, ListFacts
  <2>4. /\ \A k \in 1..n : s[k] # call'[t].at
        /\ \A k \in 0..n : s[k] = call'[t].at => 1..k = {}
    BY <2>3, ListFacts
  <2>5. x.pc = pc
    OBVIOUS
  <2>. HIDE DEF x
  <2>. QED
    BY <2>1, <2>2, <2>4, <2>5 DEF Place, At
<1>3. x.pc = "all" <=> At(t, "all")
  BY <1>1 DEF At
<1>. HIDE DEF x
<1>. QED
  BY <1>1, <1>2, <1>3, Walk

\* A call that stands at a cell goes on to the next.
LEMMA NextCell ==
    ASSUME NEW n, NEW s, Good(n, s), NEW t \in Threads,
           call[t].pc \in {"malloc", "pointer"}
    PROVE  \E k \in 0..n : /\ call[t].at = s[k]
                           /\ Next_(t) = Null => k = n
                           /\ Next_(t) # Null => k < n /\ Next_(t) = s[k + 1]
<1>1. PICK k \in 0..n : call[t].at = s[k]
  BY DEF Good, Listed, Place
<1>2. Next_(t) = IF k = n THEN Null ELSE s[k + 1]
  BY <1>1 DEF Next_, Good, Listed, Forward
<1>3. k # n => k < n /\ k + 1 \in 1..n
  BY ListFacts
<1>4. k # n => s[k + 1] # Null
  BY <1>3, ListFacts
<1>. QED
  BY <1>1, <1>2, <1>3, <1>4

\* RELEASE_LAST goes from a cell to the one before, from the head to the last.
LEMMA PreviousCell ==
    ASSUME NEW n, NEW s, Good(n, s), NEW t \in Threads, At(t, "last")
    PROVE  \/ Prev_(t) = Null /\ n = 0
           \/ \E k \in 1..n : Prev_(t) = s[k] /\ \A j \in k + 1..n : cell[s[j]].id # t
           \/ Prev_(t) = HeadCell /\ ~Mine(t)
<1>1. PICK k \in 0..n : call[t].at = s[k]
  BY DEF Good, Listed, Place, At
<1>2. ~\E u \in Threads : At(u, "all")
  BY DEF Good, Alone, At
<1>3. CASE k = 0
  <2>1. Prev_(t) = IF n = 0 THEN Null ELSE s[n]
    BY <1>1, <1>2, <1>3, ListFacts DEF Prev_, Good, Listed, LastLink
  <2>2. n # 0 => n \in 1..n /\ n + 1..n = {}
    BY ListFacts
  <2>. QED
    BY <2>1, <2>2
<1>4. CASE k # 0
  <2>1. k \in 1..n /\ (k - 1 = 0 \/ k - 1 \in 1..n) /\ k - 1 + 1 = k
    BY <1>4, ListFacts
  <2>2. Prev_(t) = s[k - 1]
    BY <1>1, <2>1 DEF Prev_, Good, Listed, Backward
  <2>3. \A j \in k..n : cell[s[j]].id # t
    BY <1>1, <2>1 DEF Good, Listed, Place
  <2>4. CASE k - 1 = 0
    BY <2>2, <2>4, ListFacts DEF Mine, Good
  <2>5. CASE k - 1 \in 1..n
    BY <2>1, <2>2, <2>3, <2>5
  <2>. QED
    BY <2>1, <2>4, <2>5
<1>. QED
  BY <1>3, <1>4

LEMMA Moves ==
    ASSUME NEW n, NEW s, Good(n, s), NEW t \in Threads, NEW to \in Ptr, Step(t, to)
    PROVE  /\ [call[t] EXCEPT !.at = to] \in Calls
           /\ call' = [call EXCEPT ![t] = [call[t] EXCEPT !.at = to]]
           /\ UNCHANGED <<cell, used>>
  BY ListFacts DEF Step, Calls

LEMMA ToTheEndKeeps ==
    ASSUME NEW n, NEW s, Good(n, s), NEW t \in Threads, ToTheEnd(t)
    PROVE  Good(n, s)'
<1>. DEFINE x == [call[t] EXCEPT !.at = Next_(t)]
<1>1. PICK k \in 0..n : k < n /\ Next_(t) = s[k + 1]
  BY NextCell DEF ToTheEnd, At
<1>2. x \in Calls /\ call' = [call EXCEPT ![t] = x]
  <2>1. Next_(t) \in Ptr
    <3>1. k + 1 \in 1..n
      BY <1>1, ListFacts
    <3>. QED
      BY <1>1, <3>1, ListFacts DEF Ptr
  <2>. QED
    BY <2>1, Moves DEF ToTheEnd
<1>3. Place(t, n, s)'
  <2>1. call'[t] = x
    BY <1>2, ListFacts
  <2>2. k + 1 \in 0..n
    BY <1>1, ListFacts
  <2>. QED
    BY <2>1, <2>2, <1>1, ListFacts DEF Place, At, ToTheEnd, Calls
<1>4. x.pc = call[t].pc
  BY ListFacts DEF Calls
<1>. HIDE DEF x
<1>. QED
  BY <1>2, <1>3, <1>4, Walk DEF ToTheEnd, Step, At

LEMMA AtTheEndKeeps ==
    ASSUME NEW n, NEW s, Good(n, s), NEW t \in Threads, AtTheEnd(t)
    PROVE  Good(n, s)'
<1>. DEFINE x == [call[t] EXCEPT !.pc = "link"]
<1>1. call[t].at = s[n]
  BY NextCell DEF AtTheEnd, At
<1>2. x \in Calls /\ call' = [call EXCEPT ![t] = x]
  BY ListFacts DEF AtTheEnd, Calls
<1>3. Place(t, n, s)'
  <2>1. call'[t] = x
    BY <1>2, ListFacts
  <2>. QED
    BY <2>1, <1>1, ListFacts DEF Place, At, Calls
<1>4. x.pc # "all" /\ ~At(t, "all") /\ ~At(t, "idle")
  BY ListFacts DEF Calls, AtTheEnd, At
<1>. HIDE DEF x
<1>. QED
  BY <1>2, <1>3, <1>4, Walk DEF AtTheEnd

LEMMA BackwardsKeeps ==
    ASSUME NEW n, NEW s, Good(n, s), NEW t \in Threads, Backwards(t)
    PROVE  Good(n, s)'
<1>. DEFINE x == [call[t] EXCEPT !.at = Prev_(t)]
<1>1. \/ \E k \in 1..n : Prev_(t) = s[k] /\ \A j \in k + 1..n : cell[s[j]].id # t
      \/ Prev_(t) = HeadCell
  BY PreviousCell DEF Backwards
<1>2. x \in Calls /\ call' = [call EXCEPT ![t] = x] /\ UNCHANGED <<cell, used>>
  <2>1. Prev_(t) \in Ptr
    BY <1>1, ListFacts DEF Ptr
  <2>. QED
    BY <2>1, ListFacts DEF Backwards, Step, Calls
<1>3. call'[t] = x
  BY <1>2, ListFacts
<1>4. x.pc = "last" /\ x.at = Prev_(t)
  BY ListFacts DEF Backwards, At, Calls
<1>5. cell[Prev_(t)].id # t
  BY DEF Backwards, Mine
<1>6. Place(t, n, s)'
  <2>1. \E k \in 0..n : Prev_(t) = s[k]
    BY <1>1, ListFacts
  <2>2. ASSUME NEW k \in 1..n, Prev_(t) = s[k], NEW j \in k..n
        PROVE  cell[s[j]].id # t
    <3>1. PICK i \in 1..n : Prev_(t) = s[i] /\ \A l \in i + 1..n : cell[s[l]].id # t
      BY <1>1, <2>2, ListFacts
    <3>2. i = k
      <4>1. i \in 0..n /\ k \in 0..n /\ s[i] = s[k]
        BY <3>1, <2>2, ListFacts
      <4>. QED
        BY <4>1, Distinct
    <3>3. j = k \/ j \in k + 1..n
      BY ListFacts
    <3>. QED
      BY <3>1, <3>2, <3>3, <2>2, <1>5
  <2>. HIDE DEF x
  <2>. QED
    BY <2>1, <2>2, <1>2, <1>3, <1>4 DEF Place, At
<1>. HIDE DEF x
<1>. QED
  BY <1>2, <1>4, <1>6, Walk DEF Backwards, At

LEMMA ForwardsKeeps ==
    ASSUME NEW n, NEW s, Good(n, s), NEW t \in Threads, Forwards(t)
    PROVE  Good(n, s)'
<1>. DEFINE x == [call[t] EXCEPT !.at = Next_(t)]
<1>1. PICK k \in 0..n : call[t].at = s[k] /\ k < n /\ Next_(t) = s[k + 1]
  BY NextCell DEF Forwards, At
<1>2. x \in Calls /\ call' = [call EXCEPT ![t] = x] /\ UNCHANGED <<cell, used>>
  <2>1. Next_(t) \in Ptr
    <3>1. k + 1 \in 1..n
      BY <1>1, ListFacts
    <3>. QED
      BY <1>1, <3>1, ListFacts DEF Ptr
  <2>. QED
    BY <2>1, Moves DEF Forwards
<1>3. call'[t] = x
  BY <1>2, ListFacts
<1>4. x.pc = "pointer" /\ x.at = s[k + 1] /\ x.data = call[t].data
  BY <1>1, ListFacts DEF Forwards, At, Calls
<1>5. cell[s[k + 1]].ptr # call[t].data
  BY <1>1 DEF Forwards, Found
<1>6. Place(t, n, s)'
  <2>1. k + 1 \in 0..n
    BY <1>1, ListFacts
  <2>2. ASSUME NEW i \in 0..n, s[k + 1] = s[i], NEW j \in 1..i
        PROVE  cell[s[j]].ptr # call[t].data
    <3>1. i = k + 1
      BY <2>1, <2>2, Distinct
    <3>2. j = k + 1 \/ j \in 1..k
      BY <3>1, ListFacts
    <3>3. \A l \in 1..k : cell[s[l]].ptr # call[t].data
      BY <1>1 DEF Good, Listed, Place, Forwards
    <3>. QED
      BY <3>2, <3>3, <1>5
  <2>. HIDE DEF x
  <2>. QED
    BY <2>1, <2>2, <1>2, <1>3, <1>4 DEF Place, At
<1>. HIDE DEF x
<1>. QED
  BY <1>2, <1>4, <1>6, Walk DEF Forwards, At

\* The head points to no cell but the first and the last: there is nothing to
\* settle.
LEMMA SettledIs ==
    ASSUME NEW n, NEW s, Good(n, s)
    PROVE  Settled(cell) = cell
<1>1. cell[HeadCell].next # HeadCell
  <2>1. 0 \in 0..n /\ (n # 0 => 1 \in 1..n)
    BY ListFacts
  <2>2. cell[HeadCell].next = IF n = 0 THEN Null ELSE s[1]
    BY <2>1, ListFacts DEF Good, Listed, Forward
  <2>. QED
    BY <2>1, <2>2, ListFacts
<1>2. cell[HeadCell].prev # HeadCell
  <2>1. n # 0 => n \in 1..n
    BY ListFacts
  <2>. QED
    BY <2>1, ListFacts DEF Good, Listed, LastLink
<1>. QED
  BY <1>1, <1>2, ListFacts DEF Settled, Record

\* A call that returns having found nothing leaves the list as it is.
LEMMA Returns ==
    ASSUME NEW n, NEW s, Good(n, s), NEW t \in Threads, ~At(t, "idle"),
           n = 0 \/ ~At(t, "all"), Return(t)
    PROVE  Good(n, s)' /\ UNCHANGED <<cell, used>>
<1>1. Idle \in Calls /\ call' = [call EXCEPT ![t] = Idle]
  BY DEF Return, Leave, Idle, Calls, Ptr
<1>2. UNCHANGED <<cell, used>>
  BY SettledIs DEF Return
<1>3. Place(t, n, s)'
  BY <1>1, ListFacts DEF Place, Idle, At
<1>4. Idle.pc # "all"
  BY DEF Idle
<1>. QED
  BY <1>1, <1>2, <1>3, <1>4, Walk

-----------------------------------------------------------------------------
(* The steps that change the list.                                         *)

LinksCell(t, c, ptr) ==
    /\ cell' = [cell EXCEPT ![call[t].at].next = c,
                            ![c] = [next |-> Null, prev |-> call[t].at,
                                    id |-> t, ptr |-> ptr],
                            ![HeadCell].prev = c]
    /\ used' = used \cup {c}

With(n, s, c) == [j \in 0..n + 1 |-> IF j = n + 1 THEN c ELSE s[j]]

\* The cell that roxml_malloc links is the last of the list.
LEMMA Links ==
    ASSUME NEW n, NEW s, Good(n, s), NEW t \in Threads, At(t, "link"),
           NEW c \in Cells, c \notin used, NEW ptr \in {c, Null},
           LinksCell(t, c, ptr), Leave(t)
    PROVE  /\ Good(n + 1, With(n, s, c))'
           /\ cell'[c].id = t /\ cell'[c].ptr = ptr
           /\ \A j \in 1..n : cell'[s[j]].id = cell[s[j]].id /\ cell'[s[j]].ptr = cell[s[j]].ptr
<1>. DEFINE w == With(n, s, c)
<1>1. call[t].at = s[n]
  BY DEF Good, Listed, Place
<1>2. /\ n \in Nat /\ c \in Cells /\ c \notin used /\ c # HeadCell /\ c # Null /\ c \in Ptr
      /\ s[n] \in Cells \cup {HeadCell} /\ s[n] # c /\ s[n] \in Ptr
  <2>1. n = 0 \/ n \in 1..n
    BY ListFacts
  <2>. QED
    BY <2>1, ListFacts DEF Ptr
<1>3. /\ w \in [0..n + 1 -> Cells \cup {HeadCell}]
      /\ w[n + 1] = c /\ \A j \in 0..n : w[j] = s[j]
  BY <1>2, ListFacts DEF With
<1>4. \A j \in 0..n : s[j] # c
  <2>1. \A j \in 0..n : j = 0 \/ j \in 1..n
    BY <1>2
  <2>. QED
    BY <2>1, <1>2, ListFacts
<1>5. /\ cell' \in [Cells \cup {HeadCell} -> Record]
      /\ cell'[c] = [next |-> Null, prev |-> s[n], id |-> t, ptr |-> ptr]
      /\ cell'[HeadCell].prev = c
      /\ cell'[s[n]].next = c
      /\ \A d \in Cells \cup {HeadCell} : d # s[n] /\ d # c => cell'[d].next = cell[d].next
      /\ \A d \in Cells : d # c => cell'[d].prev = cell[d].prev
      /\ \A d \in Cells \cup {HeadCell} :
            d # c => cell'[d].id = cell[d].id /\ cell'[d].ptr = cell[d].ptr
  <2>1. cell \in [Cells \cup {HeadCell} -> Record]
    BY ListFacts
  <2>2. Null \in Ptr
    BY DEF Ptr
  <2>. DEFINE new == [next |-> Null, prev |-> s[n], id |-> t, ptr |-> ptr]
  <2>3. new \in Record
    BY <1>2, <2>2 DEF Record
  <2>4. ASSUME NEW d \in Cells \cup {HeadCell}, d # c
        PROVE  /\ cell'[d] \in Record
               /\ cell'[d].next = IF d = s[n] THEN c ELSE cell[d].next
               /\ cell'[d].prev = IF d = HeadCell THEN c ELSE cell[d].prev
               /\ cell'[d].id = cell[d].id /\ cell'[d].ptr = cell[d].ptr
    BY <1>1, <1>2, <2>1, <2>4 DEF Record, LinksCell
  <2>5. cell'[c] = new
    BY <1>1, <1>2, <2>1 DEF LinksCell
  <2>6. DOMAIN cell' = Cells \cup {HeadCell} /\ cell' = [d \in DOMAIN cell' |-> cell'[d]]
    BY <2>1 DEF LinksCell
  <2>7. \A d \in Cells \cup {HeadCell} : cell'[d] \in Record
    BY <2>3, <2>4, <2>5
  <2>8. cell' \in [Cells \cup {HeadCell} -> Record]
    BY <2>6, <2>7
  <2>9. cell'[HeadCell].prev = c
    BY <1>2, <2>4
  <2>10. cell'[s[n]].next = c
    BY <1>2, <2>4
  <2>11. \A d \in Cells \cup {HeadCell} : d # s[n] /\ d # c => cell'[d].next = cell[d].next
    BY <2>4
  <2>12. \A d \in Cells : d # c => cell'[d].prev = cell[d].prev
    BY <2>4, ListFacts
  <2>13. \A d \in Cells \cup {HeadCell} :
            d # c => cell'[d].id = cell[d].id /\ cell'[d].ptr = cell[d].ptr
    BY <2>4
  <2>. QED
    BY <2>5, <2>8, <2>9, <2>10, <2>11, <2>12, <2>13
<1>6. /\ call' = [call EXCEPT ![t] = Idle] /\ Idle \in Calls
  BY DEF Leave, Idle, Calls, Ptr
<1>7. /\ Alone' /\ call' \in [Threads -> Calls] /\ call'[t] = Idle
      /\ \A u \in Threads : call'[u].pc = "idle"
  <2>1. ~At(t, "idle")
    BY DEF At
  <2>. QED
    BY <1>6, <2>1, OthersIdle DEF Idle
<1>8. TypeOK'
  <2>1. \A d \in Cells : d # c /\ d \notin used => cell'[d] = cell[d]
    <3>1. \A j \in 0..n : s[j] \in used \/ s[j] = HeadCell
      BY <1>2, ListFacts
    <3>2. \A d \in Cells : d # c /\ d \notin used => d # s[n] /\ d # HeadCell
      BY <1>2, <3>1, ListFacts
    <3>. QED
      BY <3>2, <1>1, <1>2, ListFacts DEF LinksCell
  <2>2. \A d \in Cells : IF d \in used' THEN cell'[d].id \in Threads ELSE cell'[d] = Empty
    BY <2>1, <1>2, <1>5 DEF Good, TypeOK, LinksCell
  <2>3. used' \subseteq Cells
    BY <1>2, ListFacts DEF LinksCell
  <2>. QED
    BY <2>2, <2>3, <1>5, <1>7 DEF TypeOK, Record, Calls
<1>9. cell'[HeadCell].id = Null
  BY <1>2, <1>5 DEF Good
<1>10. OrderOf(used', n + 1, w)
  <2>1. OrderOf(used, n, s)
    BY DEF Good, Listed, Order
  <2>2. w[0] = HeadCell /\ \A i \in 1..n + 1 : w[i] \in used'
    <3>1. 0 \in 0..n /\ \A i \in 1..n + 1 : i = n + 1 \/ (i \in 1..n /\ i \in 0..n)
      BY <1>2
    <3>2. \A i \in 1..n : s[i] \in used
      BY ListFacts
    <3>. HIDE DEF w
    <3>. QED
      BY <3>1, <3>2, <1>3, ListFacts DEF LinksCell
  <2>3. \A i, j \in 0..n + 1 : w[i] = w[j] => i = j
    <3>1. \A i \in 0..n + 1 : i = n + 1 \/ i \in 0..n
      BY <1>2
    <3>2. \A i, j \in 0..n : w[i] = w[j] => i = j
      BY <1>3, <2>1 DEF OrderOf
    <3>. QED
      BY <3>1, <3>2, <1>3, <1>4
  <2>4. \A d \in used' : \E i \in 1..n + 1 : w[i] = d
    <3>1. \A d \in used : \E i \in 1..n : s[i] = d
      BY <2>1 DEF OrderOf
    <3>2. \A i \in 1..n : i \in 1..n + 1 /\ i \in 0..n
      BY <1>2
    <3>3. n + 1 \in 1..n + 1
      BY <1>2
    <3>. QED
      BY <3>1, <3>2, <3>3, <1>3 DEF LinksCell
  <2>. HIDE DEF w
  <2>. QED
    BY <2>2, <2>3, <2>4, <1>2, <1>3 DEF OrderOf
<1>11. Forward(n + 1, w)'
  <2>1. ASSUME NEW i \in 0..n
        PROVE  cell'[w[i]].next = w[i + 1]
    <3>1. CASE i = n
      BY <3>1, <1>2, <1>3, <1>5
    <3>2. CASE i # n
      <4>1. i \in 0..n /\ n \in 0..n /\ i + 1 \in 0..n /\ s[i] # s[n] /\ s[i] \in Cells \cup {HeadCell}
        BY <3>2, <1>2, ListFacts, Distinct
      <4>2. cell'[s[i]].next = cell[s[i]].next
        BY <4>1, <1>4, <1>5
      <4>3. cell[s[i]].next = s[i + 1]
        BY <3>2 DEF Good, Listed, Forward
      <4>. QED
        BY <4>1, <4>2, <4>3, <1>3
    <3>. QED
      BY <3>1, <3>2
  <2>2. \A i \in 0..n + 1 : i = n + 1 \/ (i # n + 1 /\ i \in 0..n)
    BY <1>2
  <2>3. cell'[w[n + 1]].next = Null
    BY <1>3, <1>5
  <2>. HIDE DEF w
  <2>. QED
    BY <2>1, <2>2, <2>3 DEF Forward
<1>12. Backward(n + 1, w)'
  <2>1. ASSUME NEW i \in 1..n
        PROVE  cell'[w[i]].prev = w[i - 1]
    <3>1. i \in 0..n /\ i - 1 \in 0..n /\ s[i] \in Cells
      BY <1>2, ListFacts
    <3>2. cell'[s[i]].prev = cell[s[i]].prev
      BY <3>1, <1>4, <1>5
    <3>3. cell[s[i]].prev = s[i - 1]
      BY DEF Good, Listed, Backward
    <3>. QED
      BY <3>1, <3>2, <3>3, <1>3
  <2>2. \A i \in 1..n + 1 : i = n + 1 \/ i \in 1..n
    BY <1>2
  <2>3. cell'[w[n + 1]].prev = w[n]
    BY <1>2, <1>3, <1>5
  <2>. HIDE DEF w
  <2>4. ASSUME NEW i \in 1..n + 1
        PROVE  cell'[w[i]].prev = w[i - 1]
    <3>1. CASE i = n + 1
      <4>1. i - 1 = n
        BY <3>1, <1>2
      <4>. QED
        BY <4>1, <3>1, <2>3
    <3>. QED
      BY <3>1, <2>1, <2>2
  <2>. QED
    BY <2>4 DEF Backward
<1>13. LastLink(n + 1, w)'
  BY <1>2, <1>3, <1>5, <1>7 DEF LastLink, At
<1>14. \A u \in Threads : Place(u, n + 1, w)'
  BY <1>7 DEF Place, At
<1>15. Good(n + 1, w)'
  <2>. HIDE DEF w
  <2>. QED
    BY <1>7, <1>8, <1>9, <1>10, <1>11, <1>12, <1>13, <1>14 DEF Good, Listed, Order
<1>. QED
  <2>1. \A j \in 1..n : j \in 0..n /\ s[j] \in Cells
    BY ListFacts
  <2>. QED
    BY <2>1, <1>4, <1>5, <1>15

\* When calloc fails the list stays as it is.
LEMMA LinkKeeps ==
    ASSUME NEW n, NEW s, Good(n, s), NEW t \in Threads, Link(t)
    PROVE  \/ \E c \in Cells \ used : \E ptr \in {c, Null} :
                 /\ Good(n + 1, With(n, s, c))'
                 /\ cell'[c].id = t /\ cell'[c].ptr = ptr
                 /\ \A j \in 1..n : /\ cell'[s[j]].id = cell[s[j]].id
                                    /\ cell'[s[j]].ptr = cell[s[j]].ptr
           \/ Good(n, s)' /\ UNCHANGED <<cell, used>>
<1>1. CASE \E c \in Cells \ used : \E ptr \in {c, Null} : LinksCell(t, c, ptr)
  <2>1. PICK c \in Cells \ used : \E ptr \in {c, Null} : LinksCell(t, c, ptr)
    BY <1>1
  <2>2. PICK ptr \in {c, Null} : LinksCell(t, c, ptr)
    BY <2>1
  <2>3. At(t, "link") /\ Leave(t)
    BY DEF Link
  <2>4. /\ Good(n + 1, With(n, s, c))'
        /\ cell'[c].id = t /\ cell'[c].ptr = ptr
        /\ \A j \in 1..n : cell'[s[j]].id = cell[s[j]].id /\ cell'[s[j]].ptr = cell[s[j]].ptr
    BY <2>2, <2>3, Links
  <2>. QED
    BY <2>4
<1>2. CASE cell' = [cell EXCEPT ![call[t].at].next = Null] /\ UNCHANGED used
  <2>1. n \in 0..n /\ s[n] \in Cells \cup {HeadCell}
    BY ListFacts
  <2>5. call[t].at = s[n]
    BY DEF Link, Good, Listed, Place
  <2>6. cell[s[n]].next = Null
    BY <2>1 DEF Good, Listed, Forward
  <2>2. cell' = cell
    BY <1>2, <2>1, <2>5, <2>6, ListFacts DEF Record
  <2>3. Idle \in Calls /\ call' = [call EXCEPT ![t] = Idle]
    BY DEF Link, Leave, Idle, Calls, Ptr
  <2>4. Place(t, n, s)'
    BY <2>3, ListFacts DEF Place, Idle, At
  <2>. QED
    BY <1>2, <2>2, <2>3, <2>4, Walk DEF Link, Idle, At
<1>. QED
  BY <1>1, <1>2 DEF Link, LinksCell

Without(n, s, i) == [j \in 0..n - 1 |-> IF j < i THEN s[j] ELSE s[j + 1]]

\* The i-th cell is taken out, its neighbours are linked to each other, and
\* thread t goes on with x.
Cuts(n, s, i, t, x) ==
    /\ call' = [call EXCEPT ![t] = x]
    /\ used' = used \ {s[i]}
    /\ cell' \in [Cells \cup {HeadCell} -> Record]
    /\ cell'[s[i]] = Empty
    /\ \A d \in Cells : d \notin used => cell'[d] = cell[d]
    /\ \A d \in Cells \cup {HeadCell} : d # s[i] =>
          /\ cell'[d].next = IF d = s[i - 1] THEN cell[s[i]].next ELSE cell[d].next
          /\ cell'[d].id = cell[d].id /\ cell'[d].ptr = cell[d].ptr
    /\ \A d \in Cells : d # s[i] =>
          cell'[d].prev = IF i < n /\ d = s[i + 1] THEN s[i - 1] ELSE cell[d].prev
    /\ cell'[HeadCell].prev = IF n = 1 \/ x.pc = "all" THEN Null
                              ELSE IF i = n THEN s[n - 1] ELSE s[n]

\* Releasing a cell leaves the list of the others.
LEMMA CutKeeps ==
    ASSUME NEW n, NEW s, Good(n, s), NEW i \in 1..n, NEW t \in Threads, NEW x \in Calls,
           Cuts(n, s, i, t, x), ~At(t, "idle"),
           x.pc = "idle" \/ (x.pc = "all" /\ At(t, "all"))
    PROVE  /\ Good(n - 1, Without(n, s, i))'
           /\ \A j \in 1..n : j # i => /\ cell'[s[j]].id = cell[s[j]].id
                                       /\ cell'[s[j]].ptr = cell[s[j]].ptr
<1>. DEFINE w == Without(n, s, i)
<1>1. /\ n \in Nat /\ n - 1 \in Nat /\ n # 0 /\ i \in 0..n /\ i - 1 \in 0..n - 1 /\ i - 1 \in 0..n
      /\ s \in [0..n -> Cells \cup {HeadCell}] /\ s[i] \in Cells /\ s[i] \in used
      /\ s[i] # HeadCell
  BY ListFacts
<1>2. /\ w \in [0..n - 1 -> Cells \cup {HeadCell}]
      /\ \A j \in 0..n - 1 : w[j] = IF j < i THEN s[j] ELSE s[j + 1]
  <2>1. \A j \in 0..n - 1 : j \in 0..n /\ j + 1 \in 0..n
    BY <1>1
  <2>. QED
    BY <2>1, <1>1 DEF Without
<1>3. \A j \in 0..n : j # i => s[j] # s[i]
  BY <1>1, Distinct
<1>4. /\ Alone' /\ call' \in [Threads -> Calls] /\ call'[t] = x
      /\ \A u \in Threads : u # t => call'[u].pc = "idle"
  BY OthersIdle DEF Cuts
<1>5. TypeOK'
  <2>1. \A d \in Cells : IF d \in used' THEN cell'[d].id \in Threads ELSE cell'[d] = Empty
    BY <1>1 DEF Cuts, Good, TypeOK
  <2>2. used' \subseteq Cells
    BY ListFacts DEF Cuts
  <2>3. cell' \in [Cells \cup {HeadCell} -> Record]
    BY DEF Cuts
  <2>. QED
    BY <2>1, <2>2, <2>3, <1>4 DEF TypeOK, Record, Calls
<1>6. cell'[HeadCell].id = Null
  BY <1>1 DEF Good, Cuts
<1>7. \A j \in 0..n - 1 : \E l \in 0..n : /\ l # i /\ w[j] = s[l]
                                          /\ j < i => l = j
                                          /\ ~(j < i) => l = j + 1
  <2>1. \A j \in 0..n - 1 : j \in 0..n /\ j + 1 \in 0..n
    BY <1>1
  <2>. HIDE DEF w
  <2>. QED
    BY <2>1, <1>1, <1>2
<1>8. OrderOf(used', n - 1, w)
  <2>1. OrderOf(used, n, s)
    BY DEF Good, Listed, Order
  <2>2. w[0] = HeadCell
    BY <1>1, <1>2, ListFacts
  <2>3. ASSUME NEW j \in 1..n - 1
        PROVE  w[j] \in used'
    <3>1. PICK l \in 0..n : l # i /\ w[j] = s[l] /\ (l = j \/ l = j + 1)
      BY <1>1, <1>7
    <3>2. l \in 1..n
      BY <3>1, <1>1
    <3>. QED
      BY <3>1, <3>2, <1>3, ListFacts DEF Cuts
  <2>4. ASSUME NEW j \in 0..n - 1, NEW k \in 0..n - 1, w[j] = w[k]
        PROVE  j = k
    <3>1. PICK l \in 0..n : /\ l # i /\ w[j] = s[l]
                            /\ j < i => l = j
                            /\ ~(j < i) => l = j + 1
      BY <1>7
    <3>2. PICK m \in 0..n : /\ m # i /\ w[k] = s[m]
                            /\ k < i => m = k
                            /\ ~(k < i) => m = k + 1
      BY <1>7
    <3>3. l = m
      BY <3>1, <3>2, <2>4, Distinct
    <3>. HIDE DEF w
    <3>. QED
      BY <3>1, <3>2, <3>3, <1>1
  <2>5. ASSUME NEW d \in used'
        PROVE  \E j \in 1..n - 1 : w[j] = d
    <3>1. d \in used /\ d # s[i]
      BY DEF Cuts
    <3>2. PICK l \in 1..n : s[l] = d
      BY <3>1, <2>1 DEF OrderOf
    <3>3. l # i
      BY <3>1, <3>2
    <3>. HIDE DEF w
    <3>4. CASE l < i
      <4>1. l \in 1..n - 1 /\ l \in 0..n - 1
        BY <3>4, <1>1
      <4>. QED
        BY <4>1, <3>2, <3>4, <1>2
    <3>5. CASE i < l
      <4>1. l - 1 \in 1..n - 1 /\ l - 1 \in 0..n - 1 /\ ~(l - 1 < i) /\ l - 1 + 1 = l
        BY <3>5, <1>1
      <4>. QED
        BY <4>1, <3>2, <1>2
    <3>. QED
      BY <3>3, <3>4, <3>5, <1>1
  <2>. HIDE DEF w
  <2>. QED
    BY <1>1, <1>2, <2>2, <2>3, <2>4, <2>5 DEF OrderOf
<1>9. Forward(n - 1, w)'
  <2>. SUFFICES ASSUME NEW j \in 0..n - 1
                PROVE  cell'[w[j]].next = IF j = n - 1 THEN Null ELSE w[j + 1]
    BY DEF Forward
  <2>1. \A l \in 0..n : cell[s[l]].next = IF l = n THEN Null ELSE s[l + 1]
    BY DEF Good, Listed, Forward
  <2>2. \A l \in 0..n : l # i =>
           cell'[s[l]].next = IF s[l] = s[i - 1] THEN cell[s[i]].next ELSE cell[s[l]].next
    BY <1>1, <1>3 DEF Cuts
  <2>. HIDE DEF w
  <2>3. CASE j = i - 1
    <3>1. w[j] = s[i - 1] /\ i - 1 # i
      BY <2>3, <1>1, <1>2
    <3>2. cell'[w[j]].next = IF i = n THEN Null ELSE s[i + 1]
      BY <3>1, <2>1, <2>2, <1>1
    <3>3. i # n => i \in 0..n - 1 /\ ~(i < i) /\ j + 1 = i
      BY <2>3, <1>1
    <3>4. i = n <=> j = n - 1
      BY <2>3, <1>1
    <3>. QED
      BY <3>2, <3>3, <3>4, <1>2
  <2>4. CASE j < i - 1
    <3>1. /\ j \in 0..n /\ j # i /\ j # n /\ j # n - 1 /\ j < i /\ j + 1 < i
          /\ j + 1 \in 0..n - 1 /\ j # i - 1
      BY <2>4, <1>1
    <3>2. s[j] # s[i - 1]
      BY <3>1, <1>1, Distinct
    <3>3. cell'[s[j]].next = s[j + 1]
      BY <3>1, <3>2, <2>1, <2>2
    <3>. QED
      BY <3>1, <3>3, <1>2
  <2>5. CASE i - 1 < j
    <3>1. /\ j + 1 \in 0..n /\ j + 1 # i /\ ~(j < i) /\ ~(j + 1 < i) /\ j + 1 # i - 1
          /\ (j = n - 1 <=> j + 1 = n) /\ (j # n - 1 => j + 1 \in 0..n - 1)
      BY <2>5, <1>1
    <3>2. s[j + 1] # s[i - 1]
      BY <3>1, <1>1, Distinct
    <3>3. cell'[s[j + 1]].next = IF j + 1 = n THEN Null ELSE s[j + 1 + 1]
      BY <3>1, <3>2, <2>1, <2>2
    <3>. QED
      BY <3>1, <3>3, <1>2
  <2>. QED
    BY <2>3, <2>4, <2>5, <1>1
<1>10. Backward(n - 1, w)'
  <2>. SUFFICES ASSUME NEW j \in 1..n - 1
                PROVE  cell'[w[j]].prev = w[j - 1]
    BY DEF Backward
  <2>1. \A l \in 1..n : cell[s[l]].prev = s[l - 1]
    BY DEF Good, Listed, Backward
  <2>2. \A l \in 1..n : l # i =>
           cell'[s[l]].prev = IF i < n /\ s[l] = s[i + 1] THEN s[i - 1] ELSE cell[s[l]].prev
    <3>1. \A l \in 1..n : l \in 0..n /\ s[l] \in Cells
      BY ListFacts
    <3>. QED
      BY <3>1, <1>3 DEF Cuts
  <2>. HIDE DEF w
  <2>3. CASE j = i
    <3>1. j \in 0..n - 1 /\ j - 1 \in 0..n - 1 /\ ~(j < i) /\ j - 1 < i
      BY <2>3, <1>1
    <3>2. w[j] = s[i + 1] /\ w[j - 1] = s[i - 1]
      BY <3>1, <2>3, <1>2
    <3>3. i + 1 \in 1..n /\ i + 1 # i /\ i < n
      BY <2>3, <1>1
    <3>. QED
      BY <3>2, <3>3, <2>2
  <2>4. CASE j < i
    <3>1. j \in 0..n - 1 /\ j - 1 \in 0..n - 1 /\ j - 1 < i /\ j \in 1..n /\ j # i
      BY <2>4, <1>1
    <3>2. i < n => s[j] # s[i + 1]
      <4>1. j \in 0..n /\ j # i + 1 /\ (i < n => i + 1 \in 0..n)
        BY <2>4, <1>1
      <4>. QED
        BY <4>1, Distinct
    <3>3. cell'[s[j]].prev = s[j - 1]
      BY <3>1, <3>2, <2>1, <2>2
    <3>. QED
      BY <3>1, <3>3, <2>4, <1>2
  <2>5. CASE i < j
    <3>1. /\ j \in 0..n - 1 /\ j - 1 \in 0..n - 1 /\ ~(j - 1 < i) /\ ~(j < i)
          /\ j + 1 \in 1..n /\ j + 1 # i /\ j + 1 - 1 = j /\ j - 1 + 1 = j
      BY <2>5, <1>1
    <3>2. i < n => s[j + 1] # s[i + 1]
      <4>1. j + 1 \in 0..n /\ j + 1 # i + 1 /\ (i < n => i + 1 \in 0..n)
        BY <2>5, <1>1
      <4>. QED
        BY <4>1, Distinct
    <3>3. cell'[s[j + 1]].prev = s[j]
      BY <3>1, <3>2, <2>1, <2>2
    <3>. QED
      BY <3>1, <3>3, <1>2
  <2>. QED
    BY <2>3, <2>4, <2>5, <1>1
<1>11. LastLink(n - 1, w)'
  <2>1. (\E u \in Threads : At(u, "all")') <=> x.pc = "all"
    BY <1>4 DEF At
  <2>2. n - 1 = 0 <=> n = 1
    BY <1>1
  <2>3. ASSUME n # 1
        PROVE  w[n - 1] = IF i = n THEN s[n - 1] ELSE s[n]
    <3>1. n - 1 \in 0..n - 1 /\ (n - 1 < i <=> i = n) /\ n - 1 + 1 = n
      BY <1>1
    <3>. HIDE DEF w
    <3>. QED
      BY <3>1, <1>2
  <2>4. cell'[HeadCell].prev = IF n = 1 \/ x.pc = "all" THEN Null
                               ELSE IF i = n THEN s[n - 1] ELSE s[n]
    BY DEF Cuts
  <2>. HIDE DEF w
  <2>. QED
    BY <2>1, <2>2, <2>3, <2>4 DEF LastLink
<1>12. \A j \in 1..n : j # i => /\ cell'[s[j]].id = cell[s[j]].id
                                /\ cell'[s[j]].ptr = cell[s[j]].ptr
  <2>1. \A j \in 1..n : j \in 0..n /\ s[j] \in Cells
    BY ListFacts
  <2>. QED
    BY <2>1, <1>3 DEF Cuts
<1>13. \A u \in Threads : Place(u, n - 1, w)'
  <2>1. CASE x.pc = "idle"
    BY <2>1, <1>4 DEF Place, At
  <2>2. CASE x.pc = "all" /\ At(t, "all")
    <3>1. ASSUME "shared all" \notin Callers, NEW j \in 1..n - 1
          PROVE  cell'[w[j]].id = t
      <4>1. PICK l \in 0..n : l # i /\ w[j] = s[l] /\ (l = j \/ l = j + 1)
        BY <1>1, <1>7
      <4>2. l \in 1..n
        BY <4>1, <1>1
      <4>3. cell[s[l]].id = t
        BY <2>2, <3>1, <4>2 DEF Good, Listed, Place
      <4>. QED
        BY <4>1, <4>2, <4>3, <1>12
    <3>. HIDE DEF w
    <3>. QED
      BY <2>2, <3>1, <1>4 DEF Place, At
  <2>. QED
    BY <2>1, <2>2
<1>14. Good(n - 1, w)'
  <2>. HIDE DEF w
  <2>. QED
    BY <1>4, <1>5, <1>6, <1>8, <1>9, <1>10, <1>11, <1>13 DEF Good, Listed, Order
<1>. QED
  BY <1>12, <1>14

\* The end of roxml_release settles a head that points to itself, and the head
\* of no list does.
LEMMA SettledOf ==
    ASSUME NEW cs, cs \in [Cells \cup {HeadCell} -> Record],
           cs[HeadCell].next # HeadCell, cs[HeadCell].prev # HeadCell
    PROVE  Settled(cs) = cs
  BY DEF Settled, Record

\* The head points to the first cell and to the last.
LEMMA HeadLinks ==
    ASSUME NEW n, NEW s, Good(n, s)
    PROVE  /\ cell[HeadCell].next = IF n = 0 THEN Null ELSE s[1]
           /\ cell[HeadCell].next # HeadCell /\ cell[HeadCell].prev # HeadCell
           /\ \A i \in 1..n : /\ cell[s[i]].next = IF i = n THEN Null ELSE s[i + 1]
                              /\ cell[s[i]].prev = s[i - 1]
<1>1. 0 \in 0..n /\ (n # 0 => 1 \in 1..n /\ n \in 1..n) /\ \A i \in 1..n : i \in 0..n
  BY ListFacts
<1>2. cell[HeadCell].next = IF n = 0 THEN Null ELSE s[1]
  BY <1>1, ListFacts DEF Good, Listed, Forward
<1>3. cell[HeadCell].prev # HeadCell
  BY <1>1, ListFacts DEF Good, Listed, LastLink
<1>4. \A i \in 1..n : /\ cell[s[i]].next = IF i = n THEN Null ELSE s[i + 1]
                      /\ cell[s[i]].prev = s[i - 1]
  BY <1>1 DEF Good, Listed, Forward, Backward
<1>. QED
  BY <1>1, <1>2, <1>3, <1>4, ListFacts

\* cs is the list f after the link to the previous cell of a is set to v and
\* the link to the next one of b to w, in either order.
Linked(f, cs, a, v, b, w) ==
    /\ cs \in [Cells \cup {HeadCell} -> Record]
    /\ \A c \in Cells \cup {HeadCell} :
          /\ cs[c].prev = IF c = a THEN v ELSE f[c].prev
          /\ cs[c].next = IF c = b THEN w ELSE f[c].next
          /\ cs[c].id = f[c].id /\ cs[c].ptr = f[c].ptr
          /\ c # a /\ c # b => cs[c] = f[c]

LEMMA TwoLinks ==
    ASSUME NEW f \in [Cells \cup {HeadCell} -> Record],
           NEW a \in Cells \cup {HeadCell}, NEW v \in Ptr,
           NEW b \in Cells \cup {HeadCell}, NEW w \in Ptr
    PROVE  /\ Linked(f, [[f EXCEPT ![b].next = w] EXCEPT ![a].prev = v], a, v, b, w)
           /\ Linked(f, [[f EXCEPT ![a].prev = v] EXCEPT ![b].next = w], a, v, b, w)
           /\ Linked(f, [f EXCEPT ![a].prev = v, ![b].next = w], a, v, b, w)
<1>1. Linked(f, [[f EXCEPT ![b].next = w] EXCEPT ![a].prev = v], a, v, b, w)
  BY DEF Linked, Record
<1>2. Linked(f, [[f EXCEPT ![a].prev = v] EXCEPT ![b].next = w], a, v, b, w)
  BY DEF Linked, Record
<1>3. Linked(f, [f EXCEPT ![a].prev = v, ![b].next = w], a, v, b, w)
  BY DEF Linked, Record
<1>. QED
  BY <1>1, <1>2, <1>3

\* Where the i-th cell stands.
Neighbours(n, s, i) ==
    /\ s[i - 1] \in Cells \cup {HeadCell} /\ s[i - 1] \in Ptr
    /\ s[i - 1] = HeadCell <=> i = 1
    /\ cell[s[i]].next = IF i = n THEN Null ELSE s[i + 1]
    /\ i # n => s[i + 1] \in Cells /\ s[i + 1] # Null
    /\ cell[s[i]].next \in Ptr /\ Null \in Ptr

LEMMA NeighbourFacts ==
    ASSUME NEW n, NEW s, Good(n, s), NEW i \in 1..n
    PROVE  Neighbours(n, s, i)
<1>1. /\ i - 1 = 0 \/ i - 1 \in 1..n
      /\ i # n => i + 1 \in 1..n
      /\ i - 1 = 0 <=> i = 1
  BY ListFacts
<1>2. s[i - 1] \in Cells \cup {HeadCell} /\ (s[i - 1] = HeadCell <=> i = 1)
  BY <1>1, ListFacts
<1>3. i # n => s[i + 1] \in Cells /\ s[i + 1] # Null
  BY <1>1, ListFacts
<1>4. cell[s[i]].next = IF i = n THEN Null ELSE s[i + 1]
  BY HeadLinks
<1>. QED
  BY <1>2, <1>3, <1>4 DEF Neighbours, Ptr

\* Unlinking the i-th cell and freeing it cuts it out of the list.
LEMMA UnlinkCuts ==
    ASSUME NEW n, NEW s, Good(n, s), NEW i \in 1..n, NEW t \in Threads, NEW cs,
           ~\E u \in Threads : At(u, "all"), Leave(t),
           Linked(cell, cs, IF i = n THEN HeadCell ELSE s[i + 1],
                            IF i = 1 /\ i = n THEN Null ELSE s[i - 1],
                            s[i - 1], cell[s[i]].next),
           cell' = [Settled(cs) EXCEPT ![s[i]] = Empty],
           used' = used \ {s[i]}
    PROVE  Cuts(n, s, i, t, Idle)
<1>. DEFINE a == IF i = n THEN HeadCell ELSE s[i + 1]
            v == IF i = 1 /\ i = n THEN Null ELSE s[i - 1]
            p == s[i - 1]
            d == s[i]
<1>1. /\ n \in Nat /\ i \in 0..n /\ i - 1 \in 0..n
      /\ i # n => i + 1 \in 1..n /\ i + 1 \in 0..n /\ i < n
      /\ i - 1 = 0 <=> i = 1
  BY ListFacts
<1>2. /\ d \in Cells /\ d \in used /\ d # HeadCell
      /\ p \in Cells \cup {HeadCell} /\ p # d /\ (p = HeadCell <=> i = 1) /\ p # Null
      /\ p \in used \/ p = HeadCell
  <2>1. p # d
    BY <1>1, Distinct
  <2>2. p = HeadCell <=> i = 1
    BY <1>1, ListFacts
  <2>3. i - 1 = 0 \/ i - 1 \in 1..n
    BY <1>1
  <2>. QED
    BY <2>1, <2>2, <2>3, ListFacts
<1>3. i # n => a = s[i + 1] /\ a \in Cells /\ a \in used /\ a # d /\ a # HeadCell
  <2>1. i # n => s[i + 1] # d
    BY <1>1, Distinct
  <2>. QED
    BY <2>1, <1>1, ListFacts
<1>4. i = n => a = HeadCell
  OBVIOUS
<1>5. cell[d].next = IF i = n THEN Null ELSE a
  BY HeadLinks
<1>6. v = IF i = 1 /\ i = n THEN Null ELSE p
  OBVIOUS
<1>. HIDE DEF a, v
<1>7. Linked(cell, cs, a, v, p, cell[d].next)
  BY DEF a, v
<1>8. Settled(cs) = cs
  <2>1. cs[HeadCell].next # HeadCell
    BY <1>2, <1>3, <1>5, <1>7, HeadLinks, ListFacts DEF Linked
  <2>2. cs[HeadCell].prev # HeadCell
    BY <1>2, <1>3, <1>4, <1>6, <1>7, HeadLinks, ListFacts DEF Linked
  <2>. QED
    BY <1>7, <2>1, <2>2, SettledOf DEF Linked
<1>9. /\ cell' \in [Cells \cup {HeadCell} -> Record] /\ cell'[d] = Empty
      /\ \A c \in Cells \cup {HeadCell} : c # d => cell'[c] = cs[c]
  <2>1. Empty \in Record
    BY DEF Empty, Record, Ptr
  <2>. QED
    BY <2>1, <1>2, <1>7, <1>8 DEF Linked
<1>10. \A c \in Cells : c \notin used => cell'[c] = cell[c]
  <2>1. \A c \in Cells : c \notin used => c # d /\ c # a /\ c # p
    BY <1>2, <1>3, <1>4, ListFacts
  <2>. QED
    BY <2>1, <1>9, <1>7 DEF Linked
<1>11. \A c \in Cells \cup {HeadCell} : c # d =>
          /\ cell'[c].next = IF c = p THEN cell[d].next ELSE cell[c].next
          /\ cell'[c].id = cell[c].id /\ cell'[c].ptr = cell[c].ptr
  BY <1>9, <1>7 DEF Linked
<1>12. \A c \in Cells : c # d =>
          cell'[c].prev = IF i < n /\ c = s[i + 1] THEN p ELSE cell[c].prev
  <2>1. \A c \in Cells \cup {HeadCell} : c # d =>
           cell'[c].prev = IF c = a THEN v ELSE cell[c].prev
    BY <1>9, <1>7 DEF Linked
  <2>2. HeadCell \notin Cells
    BY ListFacts
  <2>3. CASE i = n
    BY <2>1, <2>2, <2>3, <1>1, <1>4
  <2>4. CASE i # n
    BY <2>1, <2>4, <1>1, <1>3, <1>6
  <2>. QED
    BY <2>3, <2>4
<1>13. cell'[HeadCell].prev = IF n = 1 THEN Null ELSE IF i = n THEN s[n - 1] ELSE s[n]
  <2>1. cell'[HeadCell].prev = IF HeadCell = a THEN v ELSE cell[HeadCell].prev
    BY <1>2, <1>9, <1>7 DEF Linked
  <2>2. cell[HeadCell].prev = IF n = 0 THEN Null ELSE s[n]
    BY DEF Good, Listed, LastLink
  <2>3. CASE i = n
    BY <2>1, <2>3, <1>4, <1>6
  <2>4. CASE i # n
    BY <2>1, <2>2, <2>4, <1>1, <1>3
  <2>. QED
    BY <2>3, <2>4
<1>. QED
  BY <1>9, <1>10, <1>11, <1>12, <1>13 DEF Cuts, Leave, Idle

\* RELEASE_LAST frees the latest cell of the calling thread.
LEMMA FreeLastCuts ==
    ASSUME NEW n, NEW s, Good(n, s), NEW t \in Threads, FreeLast(t)
    PROVE  \E i \in 1..n : /\ cell[s[i]].id = t /\ \A j \in i + 1..n : cell[s[j]].id # t
                           /\ Cuts(n, s, i, t, Idle)
<1>1. PICK i \in 1..n : Prev_(t) = s[i] /\ \A j \in i + 1..n : cell[s[j]].id # t
  BY PreviousCell DEF FreeLast, Mine
<1>2. cell[s[i]].id = t
  BY <1>1 DEF FreeLast, Mine
<1>. DEFINE p == s[i - 1]
            nn == cell[s[i]].next
            a == IF i = n THEN HeadCell ELSE s[i + 1]
            v == IF i = 1 /\ i = n THEN Null ELSE p
            cs == IF nn # Null
                  THEN [[cell EXCEPT ![p].next = nn] EXCEPT ![nn].prev = p]
                  ELSE [cell EXCEPT ![HeadCell].prev = IF p = HeadCell THEN Null ELSE p,
                                    ![p].next = Null]
<1>3. /\ cell' = [Settled(cs) EXCEPT ![s[i]] = Empty] /\ used' = used \ {s[i]}
      /\ Leave(t)
  <2>1. cell[s[i]].prev = p
    BY HeadLinks
  <2>. QED
    BY <1>1, <2>1 DEF FreeLast, Free
<1>4. Neighbours(n, s, i)
  BY NeighbourFacts
<1>5. Linked(cell, cs, a, v, p, nn)
  <2>1. CASE i = n
    <3>1. cs = [cell EXCEPT ![HeadCell].prev = v, ![p].next = nn] /\ a = HeadCell
      BY <1>4, <2>1 DEF Neighbours
    <3>2. v \in Ptr /\ nn \in Ptr
      BY <1>4, <2>1 DEF Neighbours
    <3>3. cell \in [Cells \cup {HeadCell} -> Record] /\ p \in Cells \cup {HeadCell}
      BY <1>4, ListFacts DEF Neighbours
    <3>4. HeadCell \in Cells \cup {HeadCell}
      OBVIOUS
    <3>. HIDE DEF cs, a, v, nn, p
    <3>5. Linked(cell, [cell EXCEPT ![HeadCell].prev = v, ![p].next = nn], HeadCell, v, p, nn)
      BY <3>2, <3>3, <3>4, TwoLinks
    <3>. QED
      BY <3>1, <3>5
  <2>2. CASE i # n
    <3>1. cs = [[cell EXCEPT ![p].next = nn] EXCEPT ![a].prev = v] /\ a = nn
      BY <1>4, <2>2 DEF Neighbours
    <3>2. v \in Ptr /\ nn \in Ptr /\ a \in Cells \cup {HeadCell}
      BY <1>4, <2>2 DEF Neighbours
    <3>3. cell \in [Cells \cup {HeadCell} -> Record] /\ p \in Cells \cup {HeadCell}
      BY <1>4, ListFacts DEF Neighbours
    <3>4. HeadCell \in Cells \cup {HeadCell}
      OBVIOUS
    <3>. HIDE DEF cs, a, v, nn, p
    <3>5. Linked(cell, [[cell EXCEPT ![p].next = nn] EXCEPT ![a].prev = v], a, v, p, nn)
      BY <3>2, <3>3, <3>4, TwoLinks
    <3>. QED
      BY <3>1, <3>5
  <2>. QED
    BY <2>1, <2>2
<1>6. ~\E u \in Threads : At(u, "all")
  BY DEF Good, Alone, At, FreeLast
<1>7. Cuts(n, s, i, t, Idle)
  <2>. HIDE DEF cs
  <2>. QED
    BY <1>3, <1>5, <1>6, UnlinkCuts
<1>. QED
  BY <1>1, <1>2, <1>7

\* The release of a pointer frees the first cell with that address.
LEMMA FreePointerCuts ==
    ASSUME NEW n, NEW s, Good(n, s), NEW t \in Threads, FreePointer(t)
    PROVE  \E i \in 1..n : /\ cell[s[i]].ptr = call[t].data
                           /\ \A j \in 1..i - 1 : cell[s[j]].ptr # call[t].data
                           /\ Cuts(n, s, i, t, Idle)
<1>1. PICK k \in 0..n : call[t].at = s[k] /\ k < n /\ Next_(t) = s[k + 1]
  BY NextCell DEF FreePointer, Found, At
<1>. DEFINE i == k + 1
            p == s[i - 1]
            nn == cell[s[i]].next
            a == IF i = n THEN HeadCell ELSE s[i + 1]
            v == IF i = 1 /\ i = n THEN Null ELSE p
            last == IF call[t].at = HeadCell THEN Null ELSE cell[s[i]].prev
            g == IF nn # Null THEN [cell EXCEPT ![nn].prev = call[t].at]
                 ELSE [cell EXCEPT ![HeadCell].prev = last]
            cs == [g EXCEPT ![call[t].at].next = nn]
<1>2. i \in 1..n /\ i - 1 = k /\ call[t].at = p
  BY <1>1, ListFacts
<1>3. cell[s[i]].ptr = call[t].data
  BY <1>1 DEF FreePointer, Found
<1>4. \A j \in 1..i - 1 : cell[s[j]].ptr # call[t].data
  <2>1. At(t, "pointer")
    BY DEF FreePointer
  <2>2. Place(t, n, s)
    BY DEF Good, Listed
  <2>3. \A j \in 1..k : cell[s[j]].ptr # call[t].data
    BY <1>1, <2>1, <2>2 DEF Place
  <2>. QED
    BY <1>2, <2>3
<1>5. /\ cell' = [Settled(cs) EXCEPT ![s[i]] = Empty] /\ used' = used \ {s[i]}
      /\ Leave(t)
  BY <1>1 DEF FreePointer, Free
<1>. HIDE DEF i
<1>6. Neighbours(n, s, i)
  BY <1>2, NeighbourFacts
<1>7. Linked(cell, cs, a, v, p, nn)
  <2>1. cell \in [Cells \cup {HeadCell} -> Record] /\ p \in Cells \cup {HeadCell}
    BY <1>6, ListFacts DEF Neighbours
  <2>2. HeadCell \in Cells \cup {HeadCell}
    OBVIOUS
  <2>3. CASE i = n
    <3>1. last = v
      <4>1. cell[s[i]].prev = p
        BY <1>2, HeadLinks
      <4>. QED
        BY <4>1, <2>3, <1>2, <1>6 DEF Neighbours
    <3>2. g = [cell EXCEPT ![HeadCell].prev = v] /\ a = HeadCell
      BY <3>1, <2>3, <1>6 DEF Neighbours
    <3>3. v \in Ptr /\ nn \in Ptr
      BY <2>3, <1>6 DEF Neighbours
    <3>4. cs = [[cell EXCEPT ![HeadCell].prev = v] EXCEPT ![p].next = nn]
      BY <3>2, <1>2
    <3>. HIDE DEF cs, a, v, nn, p
    <3>5. Linked(cell, [[cell EXCEPT ![HeadCell].prev = v] EXCEPT ![p].next = nn],
                 HeadCell, v, p, nn)
      BY <2>1, <2>2, <3>3, TwoLinks
    <3>. QED
      BY <3>2, <3>4, <3>5
  <2>4. CASE i # n
    <3>1. nn = a /\ v = p /\ nn # Null
      BY <2>4, <1>6 DEF Neighbours
    <3>2. g = [cell EXCEPT ![a].prev = v]
      BY <3>1, <1>2
    <3>3. v \in Ptr /\ nn \in Ptr /\ a \in Cells \cup {HeadCell}
      BY <2>4, <3>1, <1>6 DEF Neighbours
    <3>4. cs = [[cell EXCEPT ![a].prev = v] EXCEPT ![p].next = nn]
      BY <3>2, <1>2
    <3>. HIDE DEF cs, a, v, nn, p
    <3>5. Linked(cell, [[cell EXCEPT ![a].prev = v] EXCEPT ![p].next = nn], a, v, p, nn)
      BY <2>1, <3>3, TwoLinks
    <3>. QED
      BY <3>4, <3>5
  <2>. QED
    BY <2>3, <2>4
<1>8. ~\E u \in Threads : At(u, "all")
  BY DEF Good, Alone, At, FreePointer
<1>9. Cuts(n, s, i, t, Idle)
  <2>. HIDE DEF cs
  <2>. QED
    BY <1>2, <1>5, <1>7, <1>8, UnlinkCuts
<1>. QED
  BY <1>2, <1>3, <1>4, <1>9

\* A turn of RELEASE_ALL frees the first cell.
LEMMA FreeFirstCuts ==
    ASSUME NEW n, NEW s, Good(n, s), NEW t \in Threads, FreeFirst(t)
    PROVE  1 \in 1..n /\ Cuts(n, s, 1, t, call[t])
<1>. DEFINE d == s[1]
            nn == cell[d].next
            cs == [c \in Cells \cup {HeadCell} |->
                      CASE c = HeadCell -> [cell[c] EXCEPT !.next = nn]
                        [] c = nn -> [cell[c] EXCEPT !.prev = HeadCell]
                        [] OTHER -> cell[c]]
<1>1. n \in Nat /\ n # 0 /\ 1 \in 1..n /\ cell[HeadCell].next = d
  BY HeadLinks, ListFacts DEF FreeFirst
<1>2. Neighbours(n, s, 1) /\ s[1 - 1] = HeadCell
  BY <1>1, NeighbourFacts, ListFacts
<1>3. /\ d \in Cells /\ d \in used /\ d # HeadCell
      /\ 1 # n => s[1 + 1] \in used /\ s[1 + 1] \in Cells /\ s[1 + 1] # d
  <2>1. 1 # n => 1 + 1 \in 1..n /\ 1 + 1 \in 0..n /\ 1 \in 0..n
    BY <1>1
  <2>2. 1 # n => s[1 + 1] # s[1]
    BY <2>1, Distinct
  <2>. QED
    BY <1>1, <2>1, <2>2, ListFacts
<1>4. nn \in Ptr /\ nn # HeadCell /\ nn # d /\ (nn = Null \/ nn \in used)
      /\ (nn = IF 1 = n THEN Null ELSE s[1 + 1])
  <2>1. nn = IF 1 = n THEN Null ELSE s[1 + 1]
    BY <1>2 DEF Neighbours
  <2>. HIDE DEF nn
  <2>. QED
    BY <2>1, <1>2, <1>3, ListFacts DEF Neighbours
<1>5. cell' = [cs EXCEPT ![d] = Empty] /\ used' = used \ {d} /\ call' = call /\ At(t, "all")
  BY <1>1 DEF FreeFirst, Free
<1>6. /\ cs \in [Cells \cup {HeadCell} -> Record]
      /\ \A c \in Cells \cup {HeadCell} :
            /\ cs[c].next = IF c = HeadCell THEN nn ELSE cell[c].next
            /\ cs[c].prev = IF c = nn THEN HeadCell ELSE cell[c].prev
            /\ cs[c].id = cell[c].id /\ cs[c].ptr = cell[c].ptr
            /\ c # HeadCell /\ c # nn => cs[c] = cell[c]
  <2>1. HeadCell \in Ptr /\ cell \in [Cells \cup {HeadCell} -> Record]
    BY ListFacts DEF Ptr
  <2>. HIDE DEF nn
  <2>. QED
    BY <2>1, <1>4 DEF Record
<1>. HIDE DEF cs, nn
<1>7. /\ cell' \in [Cells \cup {HeadCell} -> Record] /\ cell'[d] = Empty
      /\ \A c \in Cells \cup {HeadCell} : c # d => cell'[c] = cs[c]
  <2>1. Empty \in Record
    BY DEF Empty, Record, Ptr
  <2>. QED
    BY <2>1, <1>3, <1>5, <1>6
<1>8. \A c \in Cells : c \notin used => cell'[c] = cell[c]
  <2>1. \A c \in Cells : c \notin used => c # d /\ c # HeadCell /\ c # nn
    BY <1>3, <1>4, ListFacts
  <2>. QED
    BY <2>1, <1>6, <1>7
<1>9. \A c \in Cells \cup {HeadCell} : c # d =>
         /\ cell'[c].next = IF c = s[1 - 1] THEN cell[d].next ELSE cell[c].next
         /\ cell'[c].id = cell[c].id /\ cell'[c].ptr = cell[c].ptr
  BY <1>2, <1>6, <1>7 DEF nn
<1>10. \A c \in Cells : c # d =>
          cell'[c].prev = IF 1 < n /\ c = s[1 + 1] THEN s[1 - 1] ELSE cell[c].prev
  <2>1. \A c \in Cells : c # d => cell'[c].prev = IF c = nn THEN HeadCell ELSE cell[c].prev
    BY <1>6, <1>7
  <2>2. 1 # n <=> 1 < n
    BY <1>1
  <2>3. Null \notin Cells
    BY ListFacts
  <2>. QED
    BY <2>1, <2>2, <2>3, <1>2, <1>4
<1>11. cell'[HeadCell].prev = Null
  <2>1. cell[HeadCell].prev = Null
    BY <1>5 DEF Good, Listed, LastLink
  <2>. QED
    BY <2>1, <1>3, <1>4, <1>6, <1>7
<1>12. call' = [call EXCEPT ![t] = call[t]] /\ call[t].pc = "all"
  BY <1>5, ListFacts DEF At
<1>. QED
  BY <1>1, <1>5, <1>7, <1>8, <1>9, <1>10, <1>11, <1>12 DEF Cuts

LEMMA ReleaseAllKeeps ==
    ASSUME Serial, NEW n, NEW s, Good(n, s), NEW t \in Threads, ReleaseAll(t)
    PROVE  /\ Good(n, s)'
           /\ \A j \in 1..n : cell'[s[j]] = cell[s[j]]
<1>. DEFINE x == [pc |-> "all", at |-> HeadCell, data |-> Null]
<1>1. /\ At(t, "idle") /\ \A u \in Threads : At(u, "idle")
      /\ call' = [call EXCEPT ![t] = x] /\ x \in Calls
  BY EnterCall DEF ReleaseAll, Calls
<1>2. /\ Alone' /\ call' \in [Threads -> Calls] /\ call'[t] = x
      /\ \A u \in Threads : u # t => call'[u].pc = "idle"
  BY <1>1, OthersIdle
<1>3. /\ cell' \in [Cells \cup {HeadCell} -> Record]
      /\ \A c \in Cells : cell'[c] = cell[c]
      /\ cell'[HeadCell].next = cell[HeadCell].next /\ cell'[HeadCell].prev = Null
      /\ cell'[HeadCell].id = cell[HeadCell].id
      /\ UNCHANGED used
  <2>1. cell' = [cell EXCEPT ![HeadCell].prev = Null] /\ UNCHANGED used
    BY DEF ReleaseAll
  <2>2. Null \in Ptr /\ HeadCell \notin Cells /\ cell \in [Cells \cup {HeadCell} -> Record]
    BY ListFacts DEF Ptr
  <2>3. cell[HeadCell] \in Record
    BY <2>2
  <2>4. cell'[HeadCell] = [cell[HeadCell] EXCEPT !.prev = Null]
    BY <2>1, <2>2
  <2>5. \A c \in Cells : cell'[c] = cell[c]
    BY <2>1, <2>2
  <2>6. cell' \in [Cells \cup {HeadCell} -> Record]
    BY <2>1, <2>2, <2>3 DEF Record
  <2>. QED
    BY <2>1, <2>3, <2>4, <2>5, <2>6 DEF Record
<1>4. /\ TypeOK' /\ cell'[HeadCell].id = Null
  BY <1>2, <1>3 DEF Good, TypeOK, Record, Calls
<1>5. \A j \in 1..n : cell'[s[j]] = cell[s[j]]
  BY <1>3, ListFacts
<1>6. Order(n, s)'
  BY <1>3 DEF Good, Listed, Order
<1>7. Forward(n, s)'
  <2>1. \A i \in 0..n : s[i] = HeadCell \/ s[i] \in Cells
    BY ListFacts
  <2>2. \A i \in 0..n : cell'[s[i]].next = cell[s[i]].next
    BY <2>1, <1>3
  <2>. QED
    BY <2>2 DEF Good, Listed, Forward
<1>8. Backward(n, s)'
  BY <1>5 DEF Good, Listed, Backward
<1>9. LastLink(n, s)'
  BY <1>2, <1>3 DEF LastLink, At
<1>10. \A u \in Threads : Place(u, n, s)'
  <2>1. ASSUME "shared all" \notin Callers, NEW j \in 1..n
        PROVE  cell'[s[j]].id = t
    <3>1. s[j] \in used
      BY ListFacts
    <3>. QED
      BY <3>1, <2>1, <1>5 DEF ReleaseAll
  <2>2. call'[t].pc = "all"
    BY <1>2
  <2>. HIDE DEF x
  <2>. QED
    BY <2>1, <2>2, <1>2 DEF Place, At
<1>11. Good(n, s)'
  BY <1>2, <1>4, <1>6, <1>7, <1>8, <1>9, <1>10 DEF Good, Listed
<1>. QED
  BY <1>5, <1>11

-----------------------------------------------------------------------------
(* The invariant, and what follows from it.                                *)

LEMMA GoodAgain ==
    ASSUME NEW n, NEW s, Good(n, s)'
    PROVE  MemInv'
<1>1. OrderOf(used', n, s) /\ used' \subseteq Cells
  BY DEF Good, Listed, Order, TypeOK
<1>2. N \in Nat /\ n <= N
  BY <1>1, Counted
<1>3. n \in 0..N /\ s \in [0..n -> Cells \cup {HeadCell}]
  BY <1>1, <1>2 DEF OrderOf
<1>. QED
  BY <1>3 DEF MemInv

LEMMA InitInv == Init => MemInv
<1>. SUFFICES ASSUME Init
              PROVE  MemInv
  OBVIOUS
<1>. DEFINE s == [j \in 0..0 |-> HeadCell]
<1>1. TypeOK /\ Alone /\ cell[HeadCell].id = Null
  BY DEF Init, TypeOK, Alone, At, Idle, Empty, Ptr
<1>2. Order(0, s)
  BY DEF Order, OrderOf, Init
<1>3. Forward(0, s) /\ Backward(0, s) /\ LastLink(0, s)
  BY DEF Forward, Backward, LastLink, Init, Empty
<1>4. \A t \in Threads : Place(t, 0, s)
  BY DEF Place, Init, Idle, At
<1>5. Good(0, s)
  BY <1>1, <1>2, <1>3, <1>4 DEF Good, Listed
<1>6. 0 \in 0..N /\ s \in [0..0 -> Cells \cup {HeadCell}]
  <2>1. N \in Nat
    BY CellsAssumption, FS_CardinalityType DEF N
  <2>. QED
    BY <2>1
<1>. HIDE DEF s
<1>. QED
  BY <1>5, <1>6 DEF MemInv

\* Every step keeps the list of the same cells, or adds one, or takes one out.
LEMMA StepKeeps ==
    ASSUME Serial, NEW n, NEW s, Good(n, s), [Next]_vars
    PROVE  MemInv'
<1>1. CASE UNCHANGED vars
  <2>1. Good(n, s)'
    <3>1. TypeOK' /\ Alone' /\ (cell[HeadCell].id = Null)'
      BY <1>1 DEF vars, Good, TypeOK, Alone, At
    <3>2. Order(n, s)' /\ Forward(n, s)' /\ Backward(n, s)' /\ LastLink(n, s)'
      BY <1>1 DEF vars, Good, Listed, Order, Forward, Backward, LastLink, At
    <3>3. \A u \in Threads : Place(u, n, s)'
      <4>1. cell' = cell /\ call' = call
        BY <1>1 DEF vars
      <4>2. \A u \in Threads : Place(u, n, s)
        BY DEF Good, Listed
      <4>3. ASSUME NEW u \in Threads, Place(u, n, s)
            PROVE  Place(u, n, s)'
        BY <4>1, <4>3 DEF Place, At
      <4>. QED
        BY <4>2, <4>3
    <3>. QED
      BY <3>1, <3>2, <3>3 DEF Good, Listed
  <2>. QED
    BY <2>1, GoodAgain
<1>2. ASSUME NEW t \in Threads, Malloc(t)
      PROVE  MemInv'
  <2>1. Good(n, s)'
    BY <1>2, Starts DEF Malloc
  <2>. QED
    BY <2>1, GoodAgain
<1>3. ASSUME NEW t \in Threads, ReleaseLast(t)
      PROVE  MemInv'
  <2>1. Good(n, s)'
    BY <1>3, Starts DEF ReleaseLast
  <2>. QED
    BY <2>1, GoodAgain
<1>4. ASSUME NEW t \in Threads, ReleaseAll(t)
      PROVE  MemInv'
  BY <1>4, ReleaseAllKeeps, GoodAgain
<1>5. ASSUME NEW t \in Threads, NEW data \in Cells \cup {Null}, ReleasePointer(t, data)
      PROVE  MemInv'
  <2>1. Good(n, s)'
    BY <1>5, Starts DEF ReleasePointer
  <2>. QED
    BY <2>1, GoodAgain
<1>6. ASSUME NEW t \in Threads, ToTheEnd(t)
      PROVE  MemInv'
  BY <1>6, ToTheEndKeeps, GoodAgain
<1>7. ASSUME NEW t \in Threads, AtTheEnd(t)
      PROVE  MemInv'
  BY <1>7, AtTheEndKeeps, GoodAgain
<1>8. ASSUME NEW t \in Threads, Link(t)
      PROVE  MemInv'
  BY <1>8, LinkKeeps, GoodAgain
<1>9. ASSUME NEW t \in Threads, Backwards(t)
      PROVE  MemInv'
  BY <1>9, BackwardsKeeps, GoodAgain
<1>10. ASSUME NEW t \in Threads, NothingLast(t)
       PROVE  MemInv'
  <2>1. ~At(t, "idle") /\ ~At(t, "all") /\ Return(t)
    BY <1>10 DEF NothingLast, At
  <2>. QED
    BY <2>1, Returns, GoodAgain
<1>11. ASSUME NEW t \in Threads, FreeLast(t)
       PROVE  MemInv'
  <2>1. PICK i \in 1..n : Cuts(n, s, i, t, Idle)
    BY <1>11, FreeLastCuts
  <2>2. ~At(t, "idle") /\ Idle \in Calls /\ Idle.pc = "idle"
    BY <1>11 DEF FreeLast, At, Idle, Calls, Ptr
  <2>3. Good(n - 1, Without(n, s, i))'
    BY <2>1, <2>2, CutKeeps
  <2>. QED
    BY <2>3, GoodAgain
<1>12. ASSUME NEW t \in Threads, FreeFirst(t)
       PROVE  MemInv'
  <2>1. 1 \in 1..n /\ Cuts(n, s, 1, t, call[t])
    BY <1>12, FreeFirstCuts
  <2>2. ~At(t, "idle") /\ At(t, "all") /\ call[t] \in Calls /\ call[t].pc = "all"
    BY <1>12, ListFacts DEF FreeFirst, At
  <2>3. Good(n - 1, Without(n, s, 1))'
    BY <2>1, <2>2, CutKeeps
  <2>. QED
    BY <2>3, GoodAgain
<1>13. ASSUME NEW t \in Threads, NothingFirst(t)
       PROVE  MemInv'
  <2>1. ~At(t, "idle") /\ Return(t)
    BY <1>13 DEF NothingFirst, At
  <2>2. n = 0
    BY <1>13, HeadLinks, ListFacts DEF NothingFirst
  <2>. QED
    BY <2>1, <2>2, Returns, GoodAgain
<1>14. ASSUME NEW t \in Threads, Forwards(t)
       PROVE  MemInv'
  BY <1>14, ForwardsKeeps, GoodAgain
<1>15. ASSUME NEW t \in Threads, NotFound(t)
       PROVE  MemInv'
  <2>1. ~At(t, "idle") /\ ~At(t, "all") /\ Return(t)
    BY <1>15 DEF NotFound, At
  <2>. QED
    BY <2>1, Returns, GoodAgain
<1>16. ASSUME NEW t \in Threads, FreePointer(t)
       PROVE  MemInv'
  <2>1. PICK i \in 1..n : Cuts(n, s, i, t, Idle)
    BY <1>16, FreePointerCuts
  <2>2. ~At(t, "idle") /\ Idle \in Calls /\ Idle.pc = "idle"
    BY <1>16 DEF FreePointer, At, Idle, Calls, Ptr
  <2>3. Good(n - 1, Without(n, s, i))'
    BY <2>1, <2>2, CutKeeps
  <2>. QED
    BY <2>3, GoodAgain
<1>. QED
  BY <1>1, <1>2, <1>3, <1>4, <1>5, <1>6, <1>7, <1>8, <1>9, <1>10, <1>11, <1>12,
     <1>13, <1>14, <1>15, <1>16 DEF Next, Go

LEMMA InvLinks == MemInv => WellLinked
<1>. SUFFICES ASSUME NEW n, NEW s, Good(n, s), Quiet
              PROVE  /\ {Chain[i] : i \in 1..Len(Chain)} = used
                     /\ Len(Chain) = Cardinality(used)
                     /\ cell[HeadCell].prev = IF Len(Chain) = 0 THEN Null
                                              ELSE Chain[Len(Chain)]
                     /\ \A i \in 1..Len(Chain) :
                           cell[Chain[i]].prev = IF i = 1 THEN HeadCell ELSE Chain[i - 1]
  BY DEF MemInv, WellLinked
<1>1. Chain = [i \in 1..n |-> s[i]] /\ n \in Nat
  BY ChainIs, ListFacts DEF Good, Listed
<1>2. Len(Chain) = n /\ \A i \in 1..n : Chain[i] = s[i]
  BY <1>1
<1>3. {s[i] : i \in 1..n} = used
  BY DEF Good, Listed, Order, OrderOf
<1>4. Cardinality(used) = n
  <2>1. OrderOf(used, n, s) /\ used \subseteq Cells
    BY DEF Good, Listed, Order, TypeOK
  <2>. QED
    BY <2>1, Counted
<1>5. cell[HeadCell].prev = IF n = 0 THEN Null ELSE s[n]
  BY DEF Good, Listed, LastLink, Quiet, At
<1>6. \A i \in 1..n : cell[s[i]].prev = IF i = 1 THEN HeadCell ELSE s[i - 1]
  BY HeadLinks, ListFacts
<1>. QED
  BY <1>1, <1>2, <1>3, <1>4, <1>5, <1>6

\* When the calls of the threads do not overlap, the list is always that of
\* the cells in use: the inductive invariant.
THEOREM SerialInv ==
    ASSUME Serial
    PROVE  Spec => []MemInv
<1>1. Init => MemInv
  BY InitInv
<1>2. MemInv /\ [Next]_vars => MemInv'
  BY StepKeeps DEF MemInv
<1>. QED
  BY <1>1, <1>2, PTL DEF Spec

\* Nothing is written to a cell after it was freed, and each cell in use
\* belongs to a thread, whatever the calls and their order (roxml_malloc,
\* roxml_release).
THEOREM SerialTypes ==
    ASSUME Serial
    PROVE  Spec => []TypeOK
<1>1. MemInv => TypeOK
  BY DEF MemInv, Good
<1>. QED
  BY <1>1, SerialInv, PTL

\* Between calls the list holds the cells not released and no other, each
\* once, and reads the same from both ends (roxml_malloc, roxml_release).
THEOREM SerialLinks ==
    ASSUME Serial
    PROVE  Spec => []WellLinked
  BY InvLinks, SerialInv, PTL

-----------------------------------------------------------------------------
(***************************************************************************)
(* That the memory manager implements ThreadBlocks: every step of the list *)
(* of RoxmlMem is a step of its sequence of blocks or leaves it alone,     *)
(* when the calls do not overlap and RELEASE_ALL is called by a thread     *)
(* that is alone with its cells (Private).                                 *)
(***************************************************************************)

\* The blocks of the cells s[1] to s[n].
Listing(n, s) ==
    [i \in 1..n |-> [owner |-> cell[s[i]].id, data |-> cell[s[i]].ptr]]

HeldIs == \A n, s : Good(n, s) => Held = Listing(n, s)

LEMMA HeldNow == HeldIs
<1>. SUFFICES ASSUME NEW n, NEW s, Good(n, s)
              PROVE  Held = Listing(n, s)
  BY DEF HeldIs
<1>1. Chain = [i \in 1..n |-> s[i]] /\ n \in Nat
  BY ChainIs, ListFacts DEF Good, Listed
<1>2. Len(Chain) = n /\ \A i \in 1..n : Chain[i] = s[i]
  BY <1>1
<1>. QED
  BY <1>2 DEF Held, Listing

\* It holds at every state, so after a step too.
LEMMA HeldNext == HeldIs'
  BY HeldNow, PTL

LEMMA SeqIs ==
    ASSUME NEW S, NEW q \in Seq(S)
    PROVE  q = [j \in 1..Len(q) |-> q[j]]
  OBVIOUS

LEMMA AppendIs ==
    ASSUME NEW S, NEW q \in Seq(S), NEW e
    PROVE  Append(q, e) = [j \in 1..Len(q) + 1 |-> IF j = Len(q) + 1 THEN e ELSE q[j]]
<1>1. q \in Seq(S \cup {e}) /\ e \in S \cup {e}
  OBVIOUS
<1>2. /\ Append(q, e) \in Seq(S \cup {e}) /\ Len(Append(q, e)) = Len(q) + 1
      /\ \A j \in 1..Len(q) : Append(q, e)[j] = q[j]
      /\ Append(q, e)[Len(q) + 1] = e
  BY <1>1, AppendProperties
<1>3. Append(q, e) = [j \in 1..Len(q) + 1 |-> Append(q, e)[j]]
  BY <1>2, SeqIs
<1>4. \A j \in 1..Len(q) + 1 : Append(q, e)[j] = IF j = Len(q) + 1 THEN e ELSE q[j]
  BY <1>2
<1>. QED
  BY <1>3, <1>4

\* Taking the i-th element out moves those behind it one to the front.
LEMMA RemoveAtIs ==
    ASSUME NEW S, NEW q \in Seq(S), NEW i \in 1..Len(q)
    PROVE  Blocks!RemoveAt(q, i) = [j \in 1..Len(q) - 1 |-> IF j < i THEN q[j] ELSE q[j + 1]]
<1>. DEFINE a == SubSeq(q, 1, i - 1)
            b == SubSeq(q, i + 1, Len(q))
            r == [j \in 1..Len(q) - 1 |-> IF j < i THEN q[j] ELSE q[j + 1]]
<1>1. /\ a \in Seq(S) /\ Len(a) = i - 1
      /\ \A j \in 1..i - 1 : a[j] = q[j]
  BY SubSeqProperties
<1>2. /\ b \in Seq(S) /\ Len(b) = Len(q) - i
      /\ \A j \in 1..Len(q) - i : b[j] = q[i + j]
  BY SubSeqProperties
<1>3. Blocks!RemoveAt(q, i) = a \o b
  BY DEF Blocks!RemoveAt
<1>. HIDE DEF a, b
<1>4. /\ a \o b \in Seq(S) /\ Len(a \o b) = Len(q) - 1
      /\ \A j \in 1..Len(q) - 1 :
            (a \o b)[j] = IF j <= i - 1 THEN a[j] ELSE b[j - (i - 1)]
  <2>1. /\ a \o b \in Seq(S)
        /\ Len(a \o b) = Len(a) + Len(b)
        /\ \A j \in 1..Len(a) + Len(b) : (a \o b)[j] = IF j <= Len(a) THEN a[j] ELSE b[j - Len(a)]
    BY <1>1, <1>2, ConcatProperties
  <2>2. Len(a) + Len(b) = Len(q) - 1
    BY <1>1, <1>2
  <2>. QED
    BY <2>1, <2>2, <1>1
<1>5. ASSUME NEW j \in 1..Len(q) - 1
      PROVE  (a \o b)[j] = IF j < i THEN q[j] ELSE q[j + 1]
  <2>1. CASE j < i
    <3>1. j <= i - 1 /\ j \in 1..i - 1
      BY <2>1
    <3>. QED
      BY <3>1, <2>1, <1>1, <1>4
  <2>2. CASE ~(j < i)
    <3>1. ~(j <= i - 1) /\ j - (i - 1) \in 1..Len(q) - i /\ i + (j - (i - 1)) = j + 1
      BY <2>2
    <3>. QED
      BY <3>1, <2>2, <1>2, <1>4
  <2>. QED
    BY <2>1, <2>2
<1>6. a \o b = [j \in 1..Len(q) - 1 |-> (a \o b)[j]]
  BY <1>4, SeqIs
<1>. QED
  BY <1>3, <1>5, <1>6

\* What a thread with the call x has asked for.
Request(x) ==
    CASE x.pc = "link" -> <<"malloc">>
      [] x.pc = "pointer" -> <<"pointer", x.data>>
      [] OTHER -> <<x.pc>>

\* A step of thread t changes what t asks for, and no other request.
LEMMA AskedIs ==
    ASSUME NEW n, NEW s, Good(n, s), NEW t \in Threads, NEW x \in Calls,
           call' = [call EXCEPT ![t] = x]
    PROVE  Asked[t] = Request(call[t]) /\ Asked' = [Asked EXCEPT ![t] = Request(x)]
<1>1. call \in [Threads -> Calls]
  BY ListFacts
<1>2. Asked = [u \in Threads |-> Request(call[u])]
  BY DEF Asked, Request, At
<1>3. Asked' = [u \in Threads |-> Request(call'[u])]
  BY DEF Asked, Request, At
<1>. QED
  BY <1>1, <1>2, <1>3

\* A list whose cells are the same holds the same blocks.
LEMMA SameBlocks ==
    ASSUME NEW n, NEW s, Good(n, s), Good(n, s)',
           \A j \in 1..n : cell'[s[j]].id = cell[s[j]].id /\ cell'[s[j]].ptr = cell[s[j]].ptr
    PROVE  Held' = Held
<1>1. Held = Listing(n, s) /\ Held' = Listing(n, s)'
  BY HeldNow, HeldNext DEF HeldIs
<1>. QED
  BY <1>1 DEF Listing

\* A cell that is linked is a block more at the end ...
LEMMA OneMore ==
    ASSUME NEW n, NEW s, Good(n, s), NEW c, Good(n + 1, With(n, s, c))',
           \A j \in 1..n : cell'[s[j]].id = cell[s[j]].id /\ cell'[s[j]].ptr = cell[s[j]].ptr
    PROVE  Held' = Append(Held, [owner |-> cell'[c].id, data |-> cell'[c].ptr])
<1>1. Held = Listing(n, s) /\ Held' = Listing(n + 1, With(n, s, c))'
  BY HeldNow, HeldNext DEF HeldIs
<1>2. n \in Nat
  BY ListFacts
<1>. DEFINE new == [owner |-> cell'[c].id, data |-> cell'[c].ptr]
<1>3. Held' = [i \in 1..n + 1 |-> IF i = n + 1 THEN new ELSE Listing(n, s)[i]]
  <2>1. \A i \in 1..n + 1 : With(n, s, c)[i] = IF i = n + 1 THEN c ELSE s[i]
    BY <1>2 DEF With
  <2>2. \A i \in 1..n + 1 : i # n + 1 => i \in 1..n
    BY <1>2
  <2>3. \A i \in 1..n + 1 :
          [owner |-> cell'[With(n, s, c)[i]].id, data |-> cell'[With(n, s, c)[i]].ptr]
             = IF i = n + 1 THEN new ELSE Listing(n, s)[i]
    BY <2>1, <2>2 DEF Listing
  <2>. QED
    BY <1>1, <2>3 DEF Listing
<1>4. Len(Listing(n, s)) = n /\ DOMAIN Listing(n, s) = 1..n
  BY <1>2 DEF Listing
<1>5. Append(Listing(n, s), new) = [i \in 1..n + 1 |-> IF i = n + 1 THEN new ELSE Listing(n, s)[i]]
  <2>. DEFINE l == Listing(n, s)
  <2>1. l \in Seq({l[i] : i \in 1..n})
    BY <1>2 DEF Listing
  <2>2. Len(l) = n
    BY <1>4
  <2>. HIDE DEF l
  <2>3. Append(l, new) = [i \in 1..n + 1 |-> IF i = n + 1 THEN new ELSE l[i]]
    BY <2>1, <2>2, AppendIs
  <2>. QED
    BY <2>3 DEF l
<1>. QED
  BY <1>1, <1>3, <1>5

\* ... and one that is cut out a block less.
LEMMA OneLess ==
    ASSUME NEW n, NEW s, Good(n, s), NEW i \in 1..n, Good(n - 1, Without(n, s, i))',
           \A j \in 1..n : j # i => /\ cell'[s[j]].id = cell[s[j]].id
                                    /\ cell'[s[j]].ptr = cell[s[j]].ptr
    PROVE  Held' = Blocks!RemoveAt(Held, i)
<1>1. Held = Listing(n, s) /\ Held' = Listing(n - 1, Without(n, s, i))'
  BY HeldNow, HeldNext DEF HeldIs
<1>2. n \in Nat
  BY ListFacts
<1>. DEFINE l == Listing(n, s)
<1>3. l \in Seq({l[j] : j \in 1..n}) /\ Len(l) = n
  BY <1>2 DEF Listing
<1>4. Blocks!RemoveAt(l, i) = [j \in 1..n - 1 |-> IF j < i THEN l[j] ELSE l[j + 1]]
  <2>. HIDE DEF l
  <2>. QED
    BY <1>3, RemoveAtIs
<1>5. ASSUME NEW j \in 1..n - 1
      PROVE  [owner |-> cell'[Without(n, s, i)[j]].id, data |-> cell'[Without(n, s, i)[j]].ptr]
               = IF j < i THEN l[j] ELSE l[j + 1]
  <2>1. Without(n, s, i)[j] = IF j < i THEN s[j] ELSE s[j + 1]
    BY <1>2 DEF Without
  <2>2. j \in 1..n /\ j + 1 \in 1..n /\ (j < i => j # i) /\ (~(j < i) => j + 1 # i)
    BY <1>2
  <2>. QED
    BY <2>1, <2>2 DEF Listing
<1>. QED
  BY <1>1, <1>4, <1>5 DEF Listing

\* What the abstract actions see of the list.
LEMMA HeldFacts ==
    ASSUME NEW n, NEW s, Good(n, s)
    PROVE  /\ n \in Nat /\ Len(Held) = n
           /\ \A i \in 1..n : Held[i].owner = cell[s[i]].id /\ Held[i].data = cell[s[i]].ptr
           /\ \A t : Blocks!Own(t) = {i \in 1..n : cell[s[i]].id = t}
<1>1. Held = Listing(n, s) /\ n \in Nat
  BY HeldNow, ListFacts DEF HeldIs
<1>2. Len(Held) = n /\ \A i \in 1..n : Held[i].owner = cell[s[i]].id /\ Held[i].data = cell[s[i]].ptr
  BY <1>1 DEF Listing
<1>. QED
  BY <1>1, <1>2 DEF Blocks!Own

-----------------------------------------------------------------------------
(* The steps.                                                              *)

Private == "shared all" \notin Callers

\* A call starts.
LEMMA AskMaps ==
    ASSUME Serial, NEW n, NEW s, Good(n, s), Good(n, s)', NEW t \in Threads,
           NEW pc \in {"malloc", "last", "all", "pointer"}, NEW data \in Cells \cup {Null},
           Enter(t, pc, data),
           \A j \in 1..n : cell'[s[j]].id = cell[s[j]].id /\ cell'[s[j]].ptr = cell[s[j]].ptr
    PROVE  Blocks!Ask(t)
<1>. DEFINE x == [pc |-> pc, at |-> HeadCell, data |-> data]
<1>1. At(t, "idle") /\ call' = [call EXCEPT ![t] = x] /\ x \in Calls
  BY EnterCall DEF Calls
<1>2. Held' = Held
  BY SameBlocks
<1>3. Asked[t] = Request(call[t]) /\ Asked' = [Asked EXCEPT ![t] = Request(x)]
  <2>. HIDE DEF x
  <2>. QED
    BY <1>1, AskedIs
<1>4. Request(call[t]) = <<"idle">>
  BY <1>1 DEF Request, At
<1>5. Request(x) \in Blocks!Requests
  BY DEF Request, Blocks!Requests
<1>. HIDE DEF x
<1>. QED
  BY <1>2, <1>3, <1>4, <1>5 DEF Blocks!Ask

\* A turn of a loop is no step of the blocks.
LEMMA WalkMaps ==
    ASSUME NEW n, NEW s, Good(n, s), Good(n, s)', NEW t \in Threads, NEW x \in Calls,
           UNCHANGED <<cell, used>>, call' = [call EXCEPT ![t] = x],
           Request(x) = Request(call[t])
    PROVE  UNCHANGED <<Held, Asked>>
<1>1. Held' = Held
  BY SameBlocks
<1>2. Asked' = [Asked EXCEPT ![t] = Asked[t]]
  BY AskedIs
<1>3. Asked' = Asked
  <2>1. Asked = [u \in Threads |-> Asked[u]]
    BY DEF Asked
  <2>. QED
    BY <1>2, <2>1
<1>. QED
  BY <1>1, <1>3

\* A call ends.
LEMMA DoneMaps ==
    ASSUME NEW n, NEW s, Good(n, s), NEW t \in Threads, Leave(t)
    PROVE  Asked[t] = Request(call[t]) /\ Blocks!Done(t)
<1>1. Idle \in Calls /\ Request(Idle) = <<"idle">>
  BY DEF Idle, Calls, Ptr, Request
<1>2. Asked[t] = Request(call[t]) /\ Asked' = [Asked EXCEPT ![t] = Request(Idle)]
  BY <1>1, AskedIs DEF Leave
<1>. QED
  BY <1>1, <1>2 DEF Blocks!Done

LEMMA LinkMaps ==
    ASSUME NEW n, NEW s, Good(n, s), NEW t \in Threads, Link(t)
    PROVE  Blocks!Alloc(t)
<1>1. Asked[t] = <<"malloc">> /\ Blocks!Done(t)
  BY DoneMaps DEF Link, Request, At
<1>2. CASE Good(n, s)' /\ UNCHANGED <<cell, used>>
  <2>1. Held' = Held
    BY <1>2, SameBlocks
  <2>. QED
    BY <1>1, <2>1 DEF Blocks!Alloc
<1>3. CASE \E c \in Cells \ used : \E ptr \in {c, Null} :
              /\ Good(n + 1, With(n, s, c))'
              /\ cell'[c].id = t /\ cell'[c].ptr = ptr
              /\ \A j \in 1..n : /\ cell'[s[j]].id = cell[s[j]].id
                                 /\ cell'[s[j]].ptr = cell[s[j]].ptr
  <2>1. PICK c \in Cells \ used :
              /\ Good(n + 1, With(n, s, c))'
              /\ cell'[c].id = t /\ cell'[c].ptr \in {c, Null}
              /\ \A j \in 1..n : /\ cell'[s[j]].id = cell[s[j]].id
                                 /\ cell'[s[j]].ptr = cell[s[j]].ptr
    BY <1>3
  <2>2. Held' = Append(Held, [owner |-> cell'[c].id, data |-> cell'[c].ptr])
    BY <2>1, OneMore
  <2>3. Held' = Append(Held, [owner |-> t, data |-> cell'[c].ptr])
    BY <2>1, <2>2
  <2>4. cell'[c].ptr \in Cells \cup {Null}
    BY <2>1
  <2>. QED
    BY <1>1, <2>3, <2>4 DEF Blocks!Alloc
<1>. QED
  BY <1>2, <1>3, LinkKeeps

\* What a release that frees a cell does to the blocks.
LEMMA CutMaps ==
    ASSUME NEW n, NEW s, Good(n, s), NEW i \in 1..n, NEW t \in Threads, NEW x \in Calls,
           Cuts(n, s, i, t, x), ~At(t, "idle"),
           x.pc = "idle" \/ (x.pc = "all" /\ At(t, "all"))
    PROVE  Held' = Blocks!RemoveAt(Held, i)
  BY CutKeeps, OneLess

LEMMA FreeLastMaps ==
    ASSUME NEW n, NEW s, Good(n, s), NEW t \in Threads, FreeLast(t)
    PROVE  Blocks!Latest(t)
<1>1. PICK i \in 1..n : /\ cell[s[i]].id = t /\ \A j \in i + 1..n : cell[s[j]].id # t
                        /\ Cuts(n, s, i, t, Idle)
  BY FreeLastCuts
<1>2. Asked[t] = <<"last">> /\ Blocks!Done(t)
  BY DoneMaps DEF FreeLast, Request, At
<1>3. Held' = Blocks!RemoveAt(Held, i)
  <2>1. Idle \in Calls /\ Idle.pc = "idle" /\ ~At(t, "idle")
    BY DEF Idle, Calls, Ptr, FreeLast, At
  <2>. QED
    BY <1>1, <2>1, CutMaps
<1>4. n \in Nat /\ Blocks!Own(t) = {j \in 1..n : cell[s[j]].id = t}
  BY HeldFacts
<1>5. i \in Blocks!Own(t)
  BY <1>1, <1>4
<1>6. ASSUME NEW j \in Blocks!Own(t)
      PROVE  j <= i
  <2>1. j \in 1..n /\ cell[s[j]].id = t
    BY <1>4
  <2>2. j \notin i + 1..n
    BY <1>1, <2>1
  <2>. QED
    BY <1>4, <2>1, <2>2
<1>. QED
  BY <1>2, <1>3, <1>5, <1>6 DEF Blocks!Latest

LEMMA FreeFirstMaps ==
    ASSUME Private, NEW n, NEW s, Good(n, s), NEW t \in Threads, FreeFirst(t)
    PROVE  Blocks!OneOfAll(t)
<1>1. 1 \in 1..n /\ Cuts(n, s, 1, t, call[t])
  BY FreeFirstCuts
<1>2. call[t] \in Calls /\ At(t, "all") /\ ~At(t, "idle") /\ call[t].pc = "all"
  BY ListFacts DEF FreeFirst, At
<1>3. Held' = Blocks!RemoveAt(Held, 1)
  BY <1>1, <1>2, CutMaps
<1>4. Asked[t] = <<"all">>
  BY <1>2 DEF Asked, At
<1>5. Asked' = Asked
  BY DEF Asked, FreeFirst, At
<1>6. 1 \in Blocks!Own(t)
  <2>1. cell[s[1]].id = t
    BY <1>1, <1>2 DEF Private, Good, Listed, Place
  <2>. QED
    BY <1>1, <2>1, HeldFacts
<1>. QED
  BY <1>3, <1>4, <1>5, <1>6 DEF Blocks!OneOfAll

LEMMA FreePointerMaps ==
    ASSUME NEW n, NEW s, Good(n, s), NEW t \in Threads, FreePointer(t)
    PROVE  Blocks!One(t)
<1>. DEFINE d == call[t].data
<1>1. PICK i \in 1..n : /\ cell[s[i]].ptr = d
                        /\ \A j \in 1..i - 1 : cell[s[j]].ptr # d
                        /\ Cuts(n, s, i, t, Idle)
  BY FreePointerCuts
<1>2. Asked[t] = <<"pointer", d>> /\ Blocks!Done(t)
  BY DoneMaps DEF FreePointer, Request, At
<1>3. Held' = Blocks!RemoveAt(Held, i)
  <2>1. Idle \in Calls /\ Idle.pc = "idle" /\ ~At(t, "idle")
    BY DEF Idle, Calls, Ptr, FreePointer, At
  <2>. QED
    BY <1>1, <2>1, CutMaps
<1>4. d \in Cells \cup {Null}
  BY ListFacts DEF Calls
<1>5. /\ i \in 1..Len(Held) /\ Held[i].data = d
      /\ \A j \in 1..i - 1 : Held[j].data # d
  <2>1. \A j \in 1..i - 1 : j \in 1..n
    BY ListFacts
  <2>. QED
    BY <1>1, <2>1, HeldFacts
<1>. HIDE DEF d
<1>. QED
  BY <1>2, <1>3, <1>4, <1>5 DEF Blocks!One

\* The calls that find nothing to free.
LEMMA NothingMaps ==
    ASSUME NEW n, NEW s, Good(n, s), NEW t \in Threads,
           NothingLast(t) \/ NothingFirst(t) \/ NotFound(t)
    PROVE  Blocks!Latest(t) \/ Blocks!AllOf(t) \/ Blocks!One(t)
<1>1. Return(t) /\ ~At(t, "idle") /\ Blocks!Done(t) /\ Asked[t] = Request(call[t])
  BY DoneMaps DEF NothingLast, NothingFirst, NotFound, Return, At
<1>2. NothingLast(t) => n = 0
  BY PreviousCell, ListFacts DEF NothingLast
<1>3. NothingFirst(t) => n = 0
  BY HeadLinks, ListFacts DEF NothingFirst
<1>4. Good(n, s)' /\ UNCHANGED <<cell, used>>
  BY <1>1, <1>3, Returns DEF NothingLast, NothingFirst, NotFound, At
<1>5. Held' = Held
  BY <1>4, SameBlocks
<1>6. CASE NothingLast(t)
  <2>1. Asked[t] = <<"last">>
    BY <1>1, <1>6 DEF NothingLast, At, Request
  <2>2. Blocks!Own(t) = {}
    BY <1>2, <1>6, HeldFacts
  <2>. QED
    BY <2>1, <2>2, <1>1, <1>5 DEF Blocks!Latest
<1>7. CASE NothingFirst(t)
  <2>1. Asked[t] = <<"all">>
    BY <1>1, <1>7 DEF NothingFirst, At, Request
  <2>2. Blocks!Own(t) = {}
    BY <1>3, <1>7, HeldFacts
  <2>. QED
    BY <2>1, <2>2, <1>1, <1>5 DEF Blocks!AllOf
<1>8. CASE NotFound(t)
  <2>. DEFINE d == call[t].data
  <2>1. Asked[t] = <<"pointer", d>>
    BY <1>1, <1>8 DEF NotFound, At, Request
  <2>2. d \in Cells \cup {Null}
    BY ListFacts DEF Calls
  <2>3. \A j \in 1..n : cell[s[j]].ptr # d
    <3>1. call[t].at = s[n] /\ n \in 0..n /\ At(t, "pointer")
      BY <1>8, NextCell, ListFacts DEF NotFound, At
    <3>2. Place(t, n, s)
      BY DEF Good, Listed
    <3>. QED
      BY <3>1, <3>2 DEF Place
  <2>4. \A j \in 1..Len(Held) : Held[j].data # d
    BY <2>3, HeldFacts
  <2>. HIDE DEF d
  <2>. QED
    BY <2>1, <2>2, <2>4, <1>1, <1>5 DEF Blocks!One
<1>. QED
  BY <1>6, <1>7, <1>8

LEMMA InitMaps == Init => Blocks!Init
<1>. SUFFICES ASSUME Init
              PROVE  Blocks!Init
  OBVIOUS
<1>1. PICK n, s : Good(n, s)
  BY InitInv DEF MemInv
<1>2. n = 0
  <2>1. \A i \in 1..n : s[i] \in used
    BY <1>1, ListFacts
  <2>2. used = {} /\ n \in Nat
    BY <1>1, ListFacts DEF Init
  <2>. QED
    BY <2>1, <2>2
<1>3. Held = <<>>
  BY <1>1, <1>2, HeldNow DEF HeldIs, Listing
<1>4. Asked = [t \in Threads |-> <<"idle">>]
  BY DEF Init, Asked, Idle, At
<1>. QED
  BY <1>3, <1>4 DEF Blocks!Init

LEMMA StepMaps ==
    ASSUME Serial, Private, MemInv, [Next]_vars
    PROVE  [Blocks!Next]_Blocks!vars
<1>. PICK n, s : Good(n, s)
  BY DEF MemInv
<1>1. CASE UNCHANGED vars
  <2>1. cell' = cell /\ call' = call
    BY <1>1 DEF vars
  <2>. QED
    BY <2>1 DEF Blocks!vars, Held, Asked, Chain, From, At
<1>2. ASSUME NEW t \in Threads, Malloc(t)
      PROVE  Blocks!Ask(t)
  <2>1. Enter(t, "malloc", Null) /\ UNCHANGED <<cell, used>>
    BY <1>2 DEF Malloc
  <2>2. Good(n, s)'
    BY <2>1, Starts
  <2>. QED
    BY <2>1, <2>2, AskMaps
<1>3. ASSUME NEW t \in Threads, ReleaseLast(t)
      PROVE  Blocks!Ask(t)
  <2>1. Enter(t, "last", Null) /\ UNCHANGED <<cell, used>>
    BY <1>3 DEF ReleaseLast
  <2>2. Good(n, s)'
    BY <2>1, Starts
  <2>. QED
    BY <2>1, <2>2, AskMaps
<1>4. ASSUME NEW t \in Threads, ReleaseAll(t)
      PROVE  Blocks!Ask(t)
  <2>1. Enter(t, "all", Null)
    BY <1>4 DEF ReleaseAll
  <2>2. Good(n, s)' /\ \A j \in 1..n : cell'[s[j]] = cell[s[j]]
    BY <1>4, ReleaseAllKeeps
  <2>. QED
    BY <2>1, <2>2, AskMaps
<1>5. ASSUME NEW t \in Threads, NEW data \in Cells \cup {Null}, ReleasePointer(t, data)
      PROVE  Blocks!Ask(t)
  <2>1. Enter(t, "pointer", data) /\ UNCHANGED <<cell, used>>
    BY <1>5 DEF ReleasePointer
  <2>2. Good(n, s)'
    BY <2>1, Starts
  <2>. QED
    BY <2>1, <2>2, AskMaps
<1>6. ASSUME NEW t \in Threads, ToTheEnd(t) \/ Backwards(t) \/ Forwards(t)
      PROVE  UNCHANGED <<Held, Asked>>
  <2>1. Good(n, s)'
    BY <1>6, ToTheEndKeeps, BackwardsKeeps, ForwardsKeeps
  <2>2. PICK to : Step(t, to)
    BY <1>6 DEF ToTheEnd, Backwards, Forwards
  <2>. DEFINE x == [call[t] EXCEPT !.at = to]
  <2>3. call \in [Threads -> Calls]
    BY ListFacts
  <2>4. call' = [call EXCEPT ![t] = x] /\ UNCHANGED <<cell, used>>
    BY <2>2, <2>3 DEF Step
  <2>5. x \in Calls
    <3>1. call' \in [Threads -> Calls]
      BY <2>1 DEF Good, TypeOK, Calls
    <3>. QED
      BY <2>3, <2>4, <3>1
  <2>6. x.pc = call[t].pc /\ x.data = call[t].data
    BY <2>3 DEF Calls
  <2>7. Request(x) = Request(call[t])
    BY <2>6 DEF Request
  <2>. HIDE DEF x
  <2>. QED
    BY <2>1, <2>4, <2>5, <2>7, WalkMaps
<1>7. ASSUME NEW t \in Threads, AtTheEnd(t)
      PROVE  UNCHANGED <<Held, Asked>>
  <2>1. Good(n, s)'
    BY <1>7, AtTheEndKeeps
  <2>. DEFINE x == [call[t] EXCEPT !.pc = "link"]
  <2>2. call \in [Threads -> Calls]
    BY ListFacts
  <2>3. call' = [call EXCEPT ![t] = x] /\ UNCHANGED <<cell, used>> /\ call[t].pc = "malloc"
    BY <1>7, <2>2 DEF AtTheEnd, At
  <2>4. x \in Calls /\ x.pc = "link"
    BY <2>2 DEF Calls
  <2>5. Request(x) = Request(call[t])
    BY <2>3, <2>4 DEF Request
  <2>. HIDE DEF x
  <2>. QED
    BY <2>1, <2>3, <2>4, <2>5, WalkMaps
<1>8. ASSUME NEW t \in Threads, Go(t)
      PROVE  \/ UNCHANGED <<Held, Asked>>
             \/ Blocks!Alloc(t) \/ Blocks!Latest(t) \/ Blocks!OneOfAll(t)
             \/ Blocks!AllOf(t) \/ Blocks!One(t)
  BY <1>6, <1>7, <1>8, LinkMaps, FreeLastMaps, FreeFirstMaps, FreePointerMaps, NothingMaps
     DEF Go
<1>. QED
  BY <1>1, <1>2, <1>3, <1>4, <1>5, <1>8 DEF Next, Blocks!Next, Blocks!vars

\* The list of cells is a sequence of blocks: RELEASE_LAST frees the latest
\* block of the calling thread, a pointer the first block with that address,
\* RELEASE_ALL the blocks of the calling thread and of no other, when the calls
\* do not overlap and RELEASE_ALL is called by a thread alone with its cells
\* (roxml_malloc, roxml_release).
THEOREM SerialBlocks ==
    ASSUME Serial, Private
    PROVE  Spec => ImplementsBlocks
<1>1. Init => Blocks!Init
  BY InitMaps
<1>2. MemInv /\ [Next]_vars => [Blocks!Next]_Blocks!vars
  BY StepMaps
<1>. QED
  BY <1>1, <1>2, SerialInv, PTL DEF Spec, ImplementsBlocks, Blocks!Spec
=============================================================================
